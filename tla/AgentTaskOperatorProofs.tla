------------------------ MODULE AgentTaskOperatorProofs ------------------------
(***************************************************************************)
(* Theorems about AgentTaskOperator, for every value of its constants.     *)
(***************************************************************************)
EXTENDS AgentTaskOperator, WatchCacheProofs

(* --------------------------------- Types ----------------------------------- *)

\* A submitted task is a task, and so is the absent one.
LEMMA NewTaskValues ==
    /\ NoTask \in AgentTask
    /\ \A u \in Nat, s \in AgentTaskSpec : NewTask(u, s) \in AgentTask
<1>2. ASSUME NEW u \in Nat, NEW s \in AgentTaskSpec
      PROVE  NewTask(u, s) \in AgentTask
  <2>1. "" \in Reason /\ "" \in Phase
    BY DEF Reason, Phase
  <2>2. 0 \in Nat /\ 0 \in Int /\ FALSE \in BOOLEAN /\ "" \in {"", "Pod", "Sandbox"}
    OBVIOUS
  <2> QED  BY <2>1, <2>2, Zenon DEF AgentTask, NewTask, NoTime
<1>3. NoSpec \in AgentTaskSpec
  <2>1. {} \in SUBSET {"source", "configMapRef"} /\ NoTTL \in Int /\ 0 \in Int
    BY DEF NoTTL
  <2>2. /\ "" \in {"", "python3.10", "python3.11", "node18"}
        /\ "" \in {"", "auto", "pod", "sandbox"} /\ FALSE \in BOOLEAN
    OBVIOUS
  <2> QED  BY <2>1, <2>2, Zenon DEF NoSpec, AgentTaskSpec
<1>4. NoTask \in AgentTask
  BY <1>2, <1>3 DEF NoTask
<1> QED  BY <1>2, <1>4

\* What the API server and the handlers make of a task is a task.
LEMMA TaskValues ==
    ASSUME NEW t \in AgentTask
    PROVE  /\ deletedTask(t) \in AgentTask
           /\ [t EXCEPT !.finalizer = TRUE] \in AgentTask
           /\ RemoveFinalizer(t) \in AgentTask
           /\ [t EXCEPT !.phase = "Running"] \in AgentTask
           /\ \A kind \in {"Pod", "Sandbox"} : scheduledStatus(t, kind) \in AgentTask
           /\ \A s \in AgentTaskSpec : [t EXCEPT !.spec = s] \in AgentTask
<1>1. Phase = {"", "Pending", "Scheduled", "Running", "Succeeded", "Failed",
               "Timeout", "Canceled"}
  BY DEF Phase, Active, Terminal
<1>5. [t EXCEPT !.deleting = TRUE] \in AgentTask
  BY DEF AgentTask
<1>6. deletedTask(t) \in AgentTask
  BY NewTaskValues, <1>5 DEF deletedTask
<1>7. [t EXCEPT !.finalizer = TRUE] \in AgentTask /\ RemoveFinalizer(t) \in AgentTask
  BY DEF AgentTask, RemoveFinalizer
<1>8. [t EXCEPT !.phase = "Running"] \in AgentTask
  BY <1>1 DEF AgentTask
<1>9. \A kind \in {"Pod", "Sandbox"} : scheduledStatus(t, kind) \in AgentTask
  BY <1>1 DEF AgentTask, scheduledStatus
<1>10. \A s \in AgentTaskSpec : [t EXCEPT !.spec = s] \in AgentTask
  BY DEF AgentTask
<1> QED  BY <1>6, <1>7, <1>8, <1>9, <1>10

\* Likewise for the handlers that read the clock or a pod.
LEMMA StampedValues ==
    ASSUME NEW t \in AgentTask, NEW p \in Pod, now \in Nat
    PROVE  /\ [t EXCEPT !.phase = "Pending", !.startTime = now] \in AgentTask
           /\ canceledStatus(t) \in AgentTask
           /\ timeoutStatus(t) \in AgentTask
           /\ \A why \in Reason : updatePhaseFailure(t, why) \in AgentTask
           /\ handlePodFailure(t, p) \in AgentTask
           /\ handlePodSuccess(t, p) \in AgentTask
<1>1. failureReason(p) \in Reason
  BY DEF failureReason, Reason
<1>2. p.code \in Nat
  BY DEF Pod
<1>0. t.exitCode \in Int /\ t.result \in Nat
  BY DEF AgentTask
<1>11. 1 \in Int
  OBVIOUS
<1>3. /\ {"Pending", "Succeeded", "Failed", "Timeout", "Canceled"} \subseteq Phase
      /\ {"Timeout", "Canceled"} \subseteq Reason
  BY DEF Phase, Active, Terminal, Reason
<1>4. [t EXCEPT !.phase = "Pending", !.startTime = now] \in AgentTask
  BY <1>3 DEF AgentTask
<1>5. canceledStatus(t) \in AgentTask /\ timeoutStatus(t) \in AgentTask
  BY <1>3 DEF AgentTask, canceledStatus, timeoutStatus
<1>6. \A why \in Reason : updatePhaseFailure(t, why) \in AgentTask
  BY <1>3 DEF AgentTask, updatePhaseFailure
<1>7. handlePodFailure(t, p) \in AgentTask
  <2> DEFINE e == IF p.task = "err" THEN 1 ELSE t.exitCode
  <2>1. e \in Int
    BY <1>0, <1>11, Zenon
  <2>2. handlePodFailure(t, p) =
          [t EXCEPT !.phase = "Failed", !.completionTime = now,
                    !.reason = failureReason(p), !.exitCode = e]
    BY DEF handlePodFailure, AgentTask
  <2> QED  BY <1>1, <1>3, <2>1, <2>2 DEF AgentTask
<1>8. handlePodSuccess(t, p) \in AgentTask
  <2> DEFINE e == IF p.task = "err" THEN 1 ELSE t.exitCode
             r == IF Terminated(p.task) THEN p.code ELSE t.result
  <2>1. e \in Int /\ r \in Nat
    BY <1>0, <1>11, <1>2, Zenon
  <2>2. handlePodSuccess(t, p) =
          [t EXCEPT !.phase = "Succeeded", !.completionTime = now,
                    !.result = r, !.exitCode = e]
    BY DEF handlePodSuccess, AgentTask
  <2> QED  BY <1>3, <2>1, <2>2 DEF AgentTask
<1> QED  BY <1>4, <1>5, <1>6, <1>7, <1>8

\* A created pod is a pod, and so is the absent one.
LEMMA NewPodValues ==
    /\ NoPod \in Pod
    /\ \A u \in Nat, m \in {"own", "ref"} : NewPod(u, m) \in Pod
BY DEF Pod, NoPod, NewPod, ContainerState

\* What the kubelet and the API server make of a pod is a pod.
LEMMA PodValues ==
    ASSUME NEW p \in Pod
    PROVE  /\ [p EXCEPT !.deleting = TRUE] \in Pod
           /\ \A c \in Containers, s \in ContainerState : withStatus(p, c, s) \in Pod
           /\ \A n \in Nat : [p EXCEPT !.code = n] \in Pod
           /\ [p EXCEPT !.phase = "Failed", !.task = killed(@),
                        !.collector = killed(@)] \in Pod
<1>2. ASSUME NEW c \in Containers, NEW s \in ContainerState
      PROVE  withStatus(p, c, s) \in Pod
  <2>1. \A a, b : podPhase(a, b) \in {"Pending", "Running", "Succeeded", "Failed"}
    BY DEF podPhase
  <2>2. CASE c = "task"
    BY <2>1, <2>2 DEF Pod, withStatus
  <2>3. CASE c = "collector"
    BY <2>1, <2>3 DEF Pod, withStatus
  <2> QED  BY <2>2, <2>3 DEF Containers
<1>3. /\ [p EXCEPT !.deleting = TRUE] \in Pod
      /\ \A n \in Nat : [p EXCEPT !.code = n] \in Pod
  BY DEF Pod
<1>4. killed(p.task) \in ContainerState /\ killed(p.collector) \in ContainerState
  BY DEF Pod, killed, ContainerState
<1>5. [p EXCEPT !.phase = "Failed", !.task = killed(@),
               !.collector = killed(@)] \in Pod
  BY <1>4 DEF Pod
<1> QED  BY <1>2, <1>3, <1>5

\* Reads, writes, events and relists of the four logs keep their types.
LEMMA LogTypes ==
    ASSUME TypeOK
    PROVE  /\ Stored(taskLog) \in AgentTask /\ Cached(taskLog) \in AgentTask
           /\ Stored(podLog) \in Pod /\ Cached(podLog) \in Pod
           /\ Stored(cmLog) \in Nat /\ Cached(cmLog) \in Nat
           /\ Stored(npLog) \in Nat /\ Cached(npLog) \in Nat
           /\ \A v \in AgentTask : /\ Write(taskLog, v) \in Seq(AgentTask)
                                   /\ Write(taskLog, v) # <<>>
           /\ \A v \in Pod : Write(podLog, v) \in Seq(Pod) /\ Write(podLog, v) # <<>>
           /\ \A v \in Nat : /\ Write(cmLog, v) \in Seq(Nat) /\ Write(cmLog, v) # <<>>
                             /\ Write(npLog, v) \in Seq(Nat) /\ Write(npLog, v) # <<>>
<1>1. /\ taskLog \in Seq(AgentTask) /\ taskLog # <<>>
      /\ podLog \in Seq(Pod) /\ podLog # <<>>
      /\ cmLog \in Seq(Nat) /\ cmLog # <<>>
      /\ npLog \in Seq(Nat) /\ npLog # <<>>
  BY DEF TypeOK, ObjectTypes
<1> QED  BY <1>1, LogReads, LogWrite

\* The initial state has the right types.
LEMMA TypeInit == Init => TypeOK
<1> SUFFICES ASSUME Init PROVE TypeOK
  OBVIOUS
<1>1. ObjectTypes
  BY NewTaskValues, NewPodValues DEF Init, ObjectTypes
<1>2. ControlTypes
  BY NewTaskValues DEF Init, ControlTypes, ControlPoints
<1>3. QueueTypes /\ MeterTypes
  BY DEF Init, QueueTypes, MeterTypes, NoTime
<1> QED  BY <1>1, <1>2, <1>3 DEF TypeOK

\* Parts of the state that a step leaves alone keep their types.
LEMMA TypeFrames ==
    /\ ObjectTypes /\ UNCHANGED objectVars => ObjectTypes'
    /\ ControlTypes /\ UNCHANGED controlVars => ControlTypes'
    /\ QueueTypes /\ UNCHANGED <<queued, timer>> => QueueTypes'
    /\ MeterTypes /\ UNCHANGED <<tasksTotal, now, used>> => MeterTypes'
BY DEF ObjectTypes, ControlTypes, QueueTypes, MeterTypes, objectVars, controlVars

\* Counting a metric keeps the counter a number.
LEMMA IncType ==
    ASSUME MeterTypes, Inc \/ UNCHANGED tasksTotal, UNCHANGED <<now, used>>
    PROVE  MeterTypes'
BY BoundsAssumption DEF MeterTypes, Inc

\* Going on with a task, or returning, keeps the types of the locals.
LEMMA HoldTypes ==
    /\ \A t \in AgentTask, next \in ControlPoints :
         Hold(t, next) => ControlTypes'
    /\ \A t \in AgentTask, then \in {"done", "requeue", "deletePod"} :
         HoldStatus(t, then) => ControlTypes'
    /\ Return => ControlTypes'
    /\ ReturnRequeue => ControlTypes' /\ queued' = TRUE
BY NewTaskValues DEF Hold, HoldStatus, Return, ReturnRequeue, ControlTypes,
   ControlPoints, CacheCurrent

\* The first part of a reconcile keeps the types.
LEMMA TypeReconcile ==
    ASSUME TypeOK,
           \/ ReconcileGone \/ AddFinalizer \/ ReconcileDeleted \/ InitializePhase
           \/ IgnoreCancel \/ ReconcileCanceled \/ ReconcileTimeout
           \/ ReconcilePending \/ AwaitPod \/ ScheduledToRunning
           \/ ScheduledImagePullFailed \/ PodMissing \/ PodSucceeded \/ PodFailed
           \/ FinishedWait \/ FinishedExpired
    PROVE  TypeOK'
<1> DEFINE t == Cached(taskLog)
           p == Cached(podLog)
<1>1. /\ ObjectTypes /\ ControlTypes /\ QueueTypes /\ MeterTypes
      /\ t \in AgentTask /\ p \in Pod /\ now \in Nat
  BY LogTypes DEF TypeOK, MeterTypes
<1> HIDE DEF t, p
<1>2. ASSUME ReconcileGone \/ IgnoreCancel \/ AwaitPod  PROVE TypeOK'
  BY <1>1, <1>2, TypeFrames
  DEF ReconcileGone, IgnoreCancel, AwaitPod, Dequeue, TypeOK, QueueTypes
<1>3. CASE AddFinalizer
  BY <1>1, <1>3, TypeFrames, HoldTypes, TaskValues
  DEF AddFinalizer, Dequeue, TypeOK, QueueTypes, ControlPoints, t
<1>4. CASE ReconcileDeleted
  BY <1>1, <1>4, TypeFrames, HoldTypes
  DEF ReconcileDeleted, Dequeue, TypeOK, QueueTypes, ControlPoints, t
<1>5. CASE InitializePhase
  BY <1>1, <1>5, TypeFrames, HoldTypes, StampedValues
  DEF InitializePhase, Dequeue, TypeOK, QueueTypes, t
<1>6. CASE ReconcileCanceled
  BY <1>1, <1>6, TypeFrames, HoldTypes
  DEF ReconcileCanceled, Dequeue, TypeOK, QueueTypes, ControlPoints, t
<1>7. CASE ReconcileTimeout
  BY <1>1, <1>7, TypeFrames, HoldTypes
  DEF ReconcileTimeout, Dequeue, TypeOK, QueueTypes, ControlPoints, t
<1>8. CASE ReconcilePending
  BY <1>1, <1>8, TypeFrames, HoldTypes
  DEF ReconcilePending, Dequeue, TypeOK, QueueTypes, ControlPoints, t
<1>9. CASE ScheduledToRunning
  BY <1>1, <1>9, TypeFrames, HoldTypes, TaskValues
  DEF ScheduledToRunning, Dequeue, TypeOK, QueueTypes, t
<1>10. CASE ScheduledImagePullFailed
  BY <1>1, <1>10, TypeFrames, HoldTypes, StampedValues, IncType
  DEF ScheduledImagePullFailed, Dequeue, TypeOK, QueueTypes, Reason, t
<1>11. CASE PodMissing
  BY <1>1, <1>11, TypeFrames, HoldTypes, StampedValues, IncType
  DEF PodMissing, Dequeue, TypeOK, QueueTypes, Reason, t
<1>12. CASE PodSucceeded
  BY <1>1, <1>12, TypeFrames, HoldTypes, StampedValues
  DEF PodSucceeded, Dequeue, TypeOK, QueueTypes, t, p
<1>13. CASE PodFailed
  BY <1>1, <1>13, TypeFrames, HoldTypes, StampedValues, IncType
  DEF PodFailed, Dequeue, TypeOK, QueueTypes, t, p
<1>14. CASE FinishedWait
  <2>1. t.completionTime \in Nat /\ t.spec \in AgentTaskSpec
    BY <1>1 DEF AgentTask
  <2>2. t.spec.ttlSecondsAfterFinished \in Int
    BY <2>1 DEF AgentTaskSpec
  <2>3. expirationTime(t) \in Int
    BY <2>1, <2>2 DEF expirationTime
  <2>4. requeueAfter(t) \in Nat
    BY <1>1, <2>3 DEF requeueAfter, QueueTypes
  <2> QED
    BY <1>1, <1>14, <2>4, TypeFrames DEF FinishedWait, Dequeue, TypeOK, QueueTypes, t
<1>15. CASE FinishedExpired
  BY <1>1, <1>15, TypeFrames, LogTypes, TaskValues
  DEF FinishedExpired, Dequeue, TypeOK, QueueTypes, ObjectTypes, t
<1> QED
  BY <1>2, <1>3, <1>4, <1>5, <1>6, <1>7, <1>8, <1>9, <1>10, <1>11, <1>12, <1>13,
     <1>14, <1>15

\* deleteStoredPod keeps the types.
LEMMA DeletePodTypes ==
    ASSUME TypeOK, deleteStoredPod \/ UNCHANGED podLog
    PROVE  podLog' \in Seq(Pod) /\ podLog' # <<>>
BY LogTypes, PodValues DEF TypeOK, ObjectTypes, deleteStoredPod

\* The rest of reconcilePending keeps the types.
LEMMA TypeDispatch ==
    ASSUME TypeOK, Dispatch
    PROVE  TypeOK'
<1>1. /\ obj \in AgentTask /\ now \in Nat /\ obj.uid \in Nat
      /\ ObjectTypes /\ ControlTypes /\ QueueTypes /\ MeterTypes
  BY DEF TypeOK, ControlTypes, MeterTypes, AgentTask
<1>2. \A t \in AgentTask : ThenStatus(t) => ControlTypes' /\ queued' = queued
  BY <1>1 DEF ThenStatus, ControlTypes, ControlPoints
<1>3. ASSUME EnsureSandbox
      PROVE  /\ ControlTypes' /\ queued' = queued /\ tasksTotal' = tasksTotal
             /\ podLog' = podLog /\ made' = made /\ sandbox' \in Nat
  BY <1>1, <1>2, <1>3, TaskValues DEF EnsureSandbox, ObjectTypes
<1>4. ASSUME EnsurePod
      PROVE  /\ ControlTypes' /\ queued' \in BOOLEAN /\ tasksTotal' = tasksTotal
             /\ podLog' \in Seq(Pod) /\ podLog' # <<>> /\ made' \in Nat
             /\ sandbox' = sandbox
  <2>1. /\ scheduledStatus(obj, "Pod") \in AgentTask
        /\ podLog \in Seq(Pod) /\ podLog # <<>> /\ made \in Nat
    BY <1>1, TaskValues DEF ObjectTypes
  <2>2. CASE ThenStatus(scheduledStatus(obj, "Pod")) /\ UNCHANGED <<podLog, made>>
    BY <1>1, <1>2, <1>4, <2>1, <2>2 DEF EnsurePod, QueueTypes
  <2>3. CASE /\ podLog' = Write(podLog, NewPod(obj.uid, IF usesSource(obj.spec)
                                                       THEN "own" ELSE "ref"))
             /\ made' = IF obj.uid = lastUid THEN made + 1 ELSE made
             /\ ThenStatus(scheduledStatus(obj, "Pod"))
    <3>1. NewPod(obj.uid, IF usesSource(obj.spec) THEN "own" ELSE "ref") \in Pod
      BY <1>1, NewPodValues
    <3>2. podLog' \in Seq(Pod) /\ podLog' # <<>>
      BY <2>3, <3>1, LogTypes
    <3> QED  BY <1>1, <1>2, <1>4, <2>1, <2>3, <3>2 DEF EnsurePod, QueueTypes
  <2>4. CASE ReturnRequeue /\ UNCHANGED <<podLog, made>>
    BY <1>1, <1>4, <2>1, <2>4, HoldTypes DEF EnsurePod
  <2> QED  BY <1>4, <2>2, <2>3, <2>4 DEF EnsurePod
<1>5. ASSUME NEW why \in {"BackendSelectionFailed", "ProfileResolutionFailed"},
             ThenStatus(updatePhaseFailure(obj, why)), Inc,
             UNCHANGED <<podLog, sandbox, made>>
      PROVE  ControlTypes' /\ queued' = queued /\ tasksTotal' \in Nat
  <2>1. updatePhaseFailure(obj, why) \in AgentTask
    BY <1>1, NewPodValues, StampedValues DEF Reason
  <2> QED  BY <1>1, <1>2, <1>5, <2>1 DEF Inc, MeterTypes
<1>6. used' \in [edits : Nat, faults : Nat, drains : Nat]
  <2>1. \E n \in {used.faults, used.faults + 1} : used' = [used EXCEPT !.faults = n]
    BY DEF Dispatch
  <2> QED  BY <1>1, <2>1 DEF MeterTypes
<1>7. UNCHANGED <<taskLog, cmLog, npLog, lastUid, timer, now>>
  BY DEF Dispatch
<1>8. \/ EnsureSandbox \/ EnsurePod
      \/ \E why \in {"BackendSelectionFailed", "ProfileResolutionFailed"} :
           /\ ThenStatus(updatePhaseFailure(obj, why)) /\ Inc
           /\ UNCHANGED <<podLog, sandbox, made>>
  BY DEF Dispatch
<1>9. CASE EnsureSandbox
  BY <1>1, <1>3, <1>6, <1>7, <1>9 DEF TypeOK, ObjectTypes, QueueTypes, MeterTypes
<1>10. CASE EnsurePod
  BY <1>1, <1>4, <1>6, <1>7, <1>10 DEF TypeOK, ObjectTypes, QueueTypes, MeterTypes
<1>11. CASE \E why \in {"BackendSelectionFailed", "ProfileResolutionFailed"} :
              /\ ThenStatus(updatePhaseFailure(obj, why)) /\ Inc
              /\ UNCHANGED <<podLog, sandbox, made>>
  BY <1>1, <1>5, <1>6, <1>7, <1>11 DEF TypeOK, ObjectTypes, QueueTypes, MeterTypes
<1> QED  BY <1>8, <1>9, <1>10, <1>11

\* Every other write of a reconcile keeps the types.
LEMMA TypeWrites ==
    ASSUME TypeOK,
           \/ UpdateTask \/ UpdateStatus \/ DeleteFinishedPod \/ FinalizeAgentTask
           \/ CancelPod \/ TimeoutPod \/ EnsureCodeConfigMap \/ EnsureNetworkPolicy
    PROVE  TypeOK'
<1>1. /\ obj \in AgentTask /\ now \in Nat /\ obj.uid \in Nat
      /\ ObjectTypes /\ ControlTypes /\ QueueTypes /\ MeterTypes
  BY DEF TypeOK, ControlTypes, MeterTypes, AgentTask
<1>2. CASE UpdateTask
  BY <1>1, <1>2, TypeFrames, HoldTypes, LogTypes, NewTaskValues
  DEF UpdateTask, TypeOK, ObjectTypes, QueueTypes
<1>3. CASE UpdateStatus
  BY <1>1, <1>3, TypeFrames, HoldTypes, LogTypes
  DEF UpdateStatus, TypeOK, ObjectTypes, ControlTypes, ControlPoints, QueueTypes
<1>4. CASE DeleteFinishedPod
  BY <1>1, <1>4, TypeFrames, HoldTypes, DeletePodTypes, IncType
  DEF DeleteFinishedPod, TypeOK, ObjectTypes, QueueTypes
<1>5. CASE FinalizeAgentTask
  BY <1>1, <1>5, TypeFrames, DeletePodTypes, TaskValues
  DEF FinalizeAgentTask, TypeOK, ObjectTypes, ControlTypes, ControlPoints, QueueTypes
<1>6. CASE CancelPod
  BY <1>1, <1>6, DeletePodTypes, NewPodValues, StampedValues, IncType
  DEF CancelPod, TypeOK, ObjectTypes, ControlTypes, ControlPoints, QueueTypes
<1>7. CASE TimeoutPod
  <2>1. ObjectTypes'
    BY <1>1, <1>7, DeletePodTypes DEF TimeoutPod, ObjectTypes
  <2>2. ControlTypes' /\ QueueTypes'
    BY <1>1, <1>7, HoldTypes, NewPodValues, StampedValues
    DEF TimeoutPod, ControlTypes, ControlPoints, QueueTypes
  <2>3. \E n \in {used.faults, used.faults + 1} : used' = [used EXCEPT !.faults = n]
    BY <1>1, <1>7 DEF TimeoutPod, MeterTypes
  <2>4. tasksTotal' \in Nat /\ now' = now
    BY <1>1, <1>7, BoundsAssumption DEF TimeoutPod, Inc, MeterTypes
  <2>5. MeterTypes'
    BY <1>1, <2>3, <2>4 DEF MeterTypes
  <2> QED  BY <2>1, <2>2, <2>5 DEF TypeOK
<1>8. CASE EnsureCodeConfigMap
  BY <1>1, <1>8, TypeFrames, HoldTypes, LogTypes
  DEF EnsureCodeConfigMap, ensureOwned, TypeOK, ObjectTypes, ControlTypes,
      ControlPoints, QueueTypes
<1>9. CASE EnsureNetworkPolicy
  BY <1>1, <1>9, TypeFrames, HoldTypes, LogTypes
  DEF EnsureNetworkPolicy, ensureOwned, TypeOK, ObjectTypes, ControlTypes,
      ControlPoints, QueueTypes
<1> QED
  BY <1>2, <1>3, <1>4, <1>5, <1>6, <1>7, <1>8, <1>9

\* Wake-ups, resyncs and faults keep the types.
LEMMA TypeWakeUp ==
    ASSUME TypeOK, WakeUp \/ Resync \/ Fault
    PROVE  TypeOK'
<1>1. ObjectTypes /\ ControlTypes /\ QueueTypes /\ MeterTypes
  BY DEF TypeOK
<1>2. /\ taskLog \in Seq(AgentTask) /\ taskLog # <<>>
      /\ podLog \in Seq(Pod) /\ podLog # <<>>
      /\ cmLog \in Seq(Nat) /\ cmLog # <<>>
      /\ npLog \in Seq(Nat) /\ npLog # <<>>
  BY <1>1 DEF ObjectTypes
<1>3. Enqueue => QueueTypes'
  BY <1>1 DEF Enqueue, QueueTypes, NoTime
<1>4. CASE DeliverTask
  BY <1>1, <1>2, <1>3, <1>4, LogDeliver, TypeFrames
  DEF DeliverTask, TypeOK, ObjectTypes
<1>5. CASE DeliverPod
  BY <1>1, <1>2, <1>3, <1>5, LogDeliver, TypeFrames
  DEF DeliverPod, TypeOK, ObjectTypes
<1>6. CASE DeliverOwned
  BY <1>1, <1>2, <1>6, LogDeliver, TypeFrames
  DEF DeliverOwned, TypeOK, ObjectTypes
<1>7. CASE TimerFires
  BY <1>1, <1>7, TypeFrames DEF TimerFires, TypeOK, QueueTypes, NoTime
<1>8. CASE Resync
  BY <1>1, <1>3, <1>8, TypeFrames DEF Resync, TypeOK
<1>9. ASSUME used' = [used EXCEPT !.faults = @ + 1], UNCHANGED now,
             tasksTotal' \in Nat
      PROVE  MeterTypes'
  BY <1>1, <1>9 DEF MeterTypes
<1>10. CASE CallFails
  <2>1. tasksTotal' \in Nat
    BY <1>1, <1>10 DEF CallFails, MeterTypes
  <2> QED
    BY <1>1, <1>9, <1>10, <2>1, TypeFrames, HoldTypes DEF CallFails, TypeOK, QueueTypes
<1>11. CASE Crash
  <2>1. MeterTypes'
    BY <1>9, <1>11 DEF Crash
  <2>2. ControlTypes' /\ QueueTypes'
    BY <1>11, HoldTypes DEF Crash, QueueTypes, NoTime
  <2>3. ObjectTypes'
    BY <1>1, <1>2, <1>11, LogDeliver DEF Crash, ObjectTypes
  <2> QED  BY <2>1, <2>2, <2>3 DEF TypeOK
<1> QED
  BY <1>4, <1>5, <1>6, <1>7, <1>8, <1>10, <1>11 DEF WakeUp, Fault

\* What users do keeps the types.
LEMMA TypeUser ==
    ASSUME TypeOK, User
    PROVE  TypeOK'
<1>1. /\ ObjectTypes /\ ControlTypes /\ QueueTypes /\ MeterTypes
      /\ Stored(taskLog) \in AgentTask /\ lastUid \in Nat
  BY LogTypes DEF TypeOK, ObjectTypes
<1>2. UNCHANGED userVars => QueueTypes' /\ tasksTotal' = tasksTotal /\ now' = now
  BY <1>1 DEF userVars, QueueTypes
<1>3. UNCHANGED userVars /\ fresh' = FALSE => ControlTypes'
  BY <1>1 DEF userVars, ControlTypes
<1>4. ASSUME UNCHANGED userVars, lastUid' \in Nat, made' \in Nat,
             NEW v \in AgentTask, taskLog' = Write(taskLog, v)
      PROVE  ObjectTypes'
  BY <1>1, <1>4, LogTypes DEF userVars, ObjectTypes
<1>5. ASSUME NEW s \in Specs, CreateTask(s)  PROVE TypeOK'
  <2>1. NewTask(lastUid + 1, s) \in AgentTask
    BY <1>1, NewTaskValues, SpecsAssumption
  <2>2. /\ lastUid' \in Nat /\ made' \in Nat /\ UNCHANGED userVars /\ fresh' = FALSE
        /\ taskLog' = Write(taskLog, NewTask(lastUid + 1, s)) /\ used' = used
    BY <1>1, <1>5 DEF CreateTask
  <2> QED  BY <1>1, <1>2, <1>3, <1>4, <2>1, <2>2 DEF TypeOK, MeterTypes
<1>6. ASSUME NEW s \in Specs, UpdateSpec(s)  PROVE TypeOK'
  <2>1. [Stored(taskLog) EXCEPT !.spec = s] \in AgentTask
    BY <1>1, TaskValues, SpecsAssumption
  <2>2. /\ UNCHANGED <<lastUid, made, userVars>> /\ fresh' = FALSE
        /\ taskLog' = Write(taskLog, [Stored(taskLog) EXCEPT !.spec = s])
        /\ used' = [used EXCEPT !.edits = @ + 1]
    BY <1>6 DEF UpdateSpec
  <2>3. used' \in [edits : Nat, faults : Nat, drains : Nat]
    BY <1>1, <2>2 DEF MeterTypes
  <2>4. lastUid' \in Nat /\ made' \in Nat
    BY <1>1, <2>2 DEF ObjectTypes
  <2> QED  BY <1>1, <1>2, <1>3, <1>4, <2>1, <2>2, <2>3, <2>4 DEF TypeOK, MeterTypes
<1>7. CASE DeleteTask
  <2>1. deletedTask(Stored(taskLog)) \in AgentTask
    BY <1>1, TaskValues
  <2>2. /\ UNCHANGED <<lastUid, made, userVars, used>> /\ fresh' = FALSE
        /\ taskLog' = Write(taskLog, deletedTask(Stored(taskLog)))
    BY <1>7 DEF DeleteTask
  <2>3. lastUid' \in Nat /\ made' \in Nat
    BY <1>1, <2>2 DEF ObjectTypes
  <2> QED  BY <1>1, <1>2, <1>3, <1>4, <2>1, <2>2, <2>3 DEF TypeOK, MeterTypes
<1> QED  BY <1>5, <1>6, <1>7 DEF User

\* What the kubelet, the nodes, the garbage collector and the clock do keeps them.
LEMMA TypeCluster ==
    ASSUME TypeOK, Kubelet \/ CollectGarbage \/ Tick
    PROVE  TypeOK'
<1> DEFINE p == Stored(podLog)
<1>1. /\ ObjectTypes /\ ControlTypes /\ QueueTypes /\ MeterTypes
      /\ p \in Pod /\ Stored(cmLog) \in Nat
  BY LogTypes DEF TypeOK
<1>2. ASSUME NEW q \in Pod, PodBecomes(q)
      PROVE  ObjectTypes' /\ ControlTypes' /\ QueueTypes'
             /\ tasksTotal' = tasksTotal /\ now' = now
  <2>1. podLog' \in Seq(Pod) /\ podLog' # <<>>
    BY <1>2, LogTypes DEF PodBecomes
  <2>2. ObjectTypes'
    BY <1>1, <1>2, <2>1 DEF PodBecomes, ObjectTypes
  <2> QED  BY <1>1, <1>2, <2>2, TypeFrames DEF PodBecomes
<1>3. ASSUME NEW q \in Pod, PodBecomes(q), spendDrain \/ UNCHANGED used
      PROVE  TypeOK'
  <2>1. used' \in [edits : Nat, faults : Nat, drains : Nat]
    BY <1>1, <1>3 DEF spendDrain, MeterTypes
  <2> QED  BY <1>1, <1>2, <1>3, <2>1 DEF TypeOK, MeterTypes
<1>4. p.code \in Nat /\ p.owner \in Nat
  BY <1>1 DEF Pod
<1> HIDE DEF p
<1>5. ASSUME NEW c \in Containers, PullFails(c)  PROVE TypeOK'
  <2>1. withStatus(p, c, "pullErr") \in Pod
    BY <1>1, PodValues DEF ContainerState
  <2> QED  BY <1>3, <1>5, <2>1 DEF PullFails, p
<1>6. ASSUME NEW c \in Containers, StartContainer(c)  PROVE TypeOK'
  <2>1. withStatus(p, c, "running") \in Pod
    BY <1>1, PodValues DEF ContainerState
  <2>2. codeVolume(p) \in Nat
    BY <1>1, <1>4 DEF codeVolume
  <2>3. [withStatus(p, c, "running") EXCEPT !.code = codeVolume(p)] \in Pod
    BY <2>1, <2>2, PodValues
  <2> QED  BY <1>3, <1>6, <2>3 DEF StartContainer, p
<1>7. ASSUME NEW c \in Containers, ExitContainer(c)  PROVE TypeOK'
  <2>1. PICK e \in exits(c) : PodBecomes(withStatus(p, c, e))
    BY <1>7 DEF ExitContainer, p
  <2>2. e \in ContainerState
    BY <2>1, PodAssumption DEF exits, ContainerState
  <2>3. withStatus(p, c, e) \in Pod
    BY <1>1, <2>2, PodValues
  <2> QED  BY <1>3, <1>7, <2>1, <2>3 DEF ExitContainer
<1>8. CASE EvictPod
  BY <1>1, <1>3, <1>8, PodValues DEF EvictPod, p
<1>9. CASE DrainPod
  BY <1>1, <1>3, <1>9, PodValues DEF DrainPod, p
<1>10. CASE RemovePod
  BY <1>3, <1>10, NewPodValues DEF RemovePod
<1>11. CASE CollectGarbage
  <2>1. [p EXCEPT !.deleting = TRUE] \in Pod /\ 0 \in Nat
    BY <1>1, PodValues
  <2>2. ObjectTypes'
    BY <1>1, <1>11, <2>1, LogTypes DEF CollectGarbage, ObjectTypes, p
  <2> QED  BY <1>1, <1>11, <2>2, TypeFrames DEF CollectGarbage, TypeOK
<1>12. CASE Tick
  BY <1>1, <1>12, TypeFrames DEF Tick, TypeOK, MeterTypes
<1> QED
  BY <1>5, <1>6, <1>7, <1>8, <1>9, <1>10, <1>11, <1>12 DEF Kubelet

\* Every step keeps the types.
LEMMA TypeNext == TypeOK /\ [Next]_vars => TypeOK'
<1>1. ASSUME TypeOK, UNCHANGED vars  PROVE TypeOK'
  BY <1>1, TypeFrames DEF vars, TypeOK
<1> QED
  BY <1>1, TypeReconcile, TypeDispatch, TypeWrites, TypeWakeUp, TypeUser, TypeCluster
  DEF Next, ReconcileStep, Environment

\* Every object the operator and the cluster store, and every local of Reconcile,
\* always has its type: in particular no code path stores a phase or a reason
\* outside the API's enumerations.
THEOREM TypeCorrect == Spec => []TypeOK
BY TypeInit, TypeNext, PTL DEF Spec

(* ------------------- The task in flight and the stored one ----------------- *)

\* The inductive invariant: types, the promise about the stored task, the clock
\* behind its time stamps, and Held, which carries both through a write.
Settled ==
    /\ StatusConsistent
    /\ task.uid = 0 => task = NoTask
    /\ now # NoTime /\ task.startTime <= now

IInv == TypeOK /\ Settled /\ Held

\* The phases that may follow each other, one by one.
LEMMA SuccessorFacts ==
    /\ Lifecycle!Successors[""] = {"Pending"}
    /\ Lifecycle!Successors["Pending"] = {"Scheduled", "Failed", "Timeout", "Canceled"}
    /\ Lifecycle!Successors["Scheduled"] = {"Running", "Succeeded", "Failed",
                                           "Timeout", "Canceled"}
    /\ Lifecycle!Successors["Running"] = {"Succeeded", "Failed", "Timeout", "Canceled"}
    /\ Lifecycle!Successors["Timeout"] = {"Timeout", "Canceled"}
    /\ \A p \in {"Succeeded", "Failed", "Canceled"} :
         Lifecycle!Successors[p] = {"Timeout"}
BY DEF Lifecycle!Successors, Lifecycle!Phase, Lifecycle!Active, Lifecycle!Terminal

\* A status that a handler may store in place of t.
Storable(t, o) ==
    Lifecycle!MayAdvance(t, o) /\ Consistent(o) /\ o.startTime <= now

\* What every handler makes of a consistent task in the phase it runs in may be
\* stored in its place.
LEMMA HandlersAdvance ==
    ASSUME NEW t \in AgentTask, Consistent(t), NEW p \in Pod,
           now \in Nat, now # NoTime, t.startTime <= now,
           t.uid # 0, t.finalizer, ~t.deleting
    PROVE  /\ t.phase = "" => Storable(t, [t EXCEPT !.phase = "Pending", !.startTime = now])
           /\ t.phase = "Pending" =>
                \A kind \in {"Pod", "Sandbox"} : Storable(t, scheduledStatus(t, kind))
           /\ t.phase \in Active =>
                \A why \in Reason \ {"", "Timeout", "Canceled"} :
                  Storable(t, updatePhaseFailure(t, why))
           /\ t.phase = "Scheduled" => Storable(t, [t EXCEPT !.phase = "Running"])
           /\ t.phase \in {"Scheduled", "Running"} =>
                Storable(t, handlePodSuccess(t, p)) /\ Storable(t, handlePodFailure(t, p))
           /\ t.phase \notin ignoresCancel \cup {""} => Storable(t, canceledStatus(t))
           /\ t.phase # "" => Storable(t, timeoutStatus(t))
<1>0. now <= now
  OBVIOUS
<1> USE SuccessorFacts
        DEF Storable, Lifecycle!MayAdvance, Consistent, Active, Terminal, NoTime,
            Lifecycle!Terminal
<1>1. /\ t.phase \in {"", "Pending", "Scheduled", "Running", "Succeeded", "Failed",
                      "Timeout", "Canceled"}
      /\ t.startTime \in Nat /\ t.completionTime \in Nat
  BY DEF AgentTask, Phase
<1>2. ASSUME t.phase = ""
      PROVE  Storable(t, [t EXCEPT !.phase = "Pending", !.startTime = now])
  <2> DEFINE o == [t EXCEPT !.phase = "Pending", !.startTime = now]
  <2>1. /\ o.uid = t.uid /\ o.finalizer = t.finalizer /\ o.deleting = t.deleting
        /\ o.spec = t.spec /\ o.phase = "Pending" /\ o.startTime = now
        /\ o.podRef = t.podRef /\ o.result = t.result /\ o.exitCode = t.exitCode
        /\ o.reason = t.reason /\ o.completionTime = t.completionTime
    BY DEF AgentTask
  <2> HIDE DEF o
  <2>2. Lifecycle!MayAdvance(t, o)
    BY <1>1, <1>2, <2>1
  <2>3. t.reason = "" /\ t.podRef = "" /\ ~(t.completionTime # NoTime)
    BY <1>2
  <2>4. o.startTime # NoTime /\ ~(o.phase \in Terminal) /\ ~(o.completionTime # NoTime)
    BY <2>1, <2>3
  <2>5. o.finalizer = TRUE
    BY <2>1 DEF AgentTask
  <2>6. o.startTime <= now
    BY <1>0, <2>1, Zenon
  <2>7. o.phase = "Pending" /\ o.reason = "" /\ o.podRef = ""
    BY <2>1, <2>3
  <2>8. Consistent(o)
    BY <2>4, <2>5, <2>7, Zenon
  <2> QED  BY <2>2, <2>6, <2>8 DEF o
<1>3. ASSUME t.phase = "Pending", NEW kind \in {"Pod", "Sandbox"}
      PROVE  Storable(t, scheduledStatus(t, kind))
  BY <1>1, <1>3 DEF AgentTask, scheduledStatus
<1>4. ASSUME t.phase \in Active, NEW why \in Reason \ {"", "Timeout", "Canceled"}
      PROVE  Storable(t, updatePhaseFailure(t, why))
  BY <1>1, <1>4 DEF AgentTask, updatePhaseFailure
<1>5. ASSUME t.phase = "Scheduled"
      PROVE  Storable(t, [t EXCEPT !.phase = "Running"])
  BY <1>1, <1>5 DEF AgentTask
<1>6. ASSUME t.phase \in {"Scheduled", "Running"}
      PROVE  Storable(t, handlePodSuccess(t, p))
  BY <1>1, <1>6 DEF AgentTask, handlePodSuccess
<1>7. ASSUME t.phase \in {"Scheduled", "Running"}
      PROVE  Storable(t, handlePodFailure(t, p))
  <2>1. failureReason(p) \notin {"", "Timeout", "Canceled"}
    BY DEF failureReason
  <2> QED  BY <1>1, <1>7, <2>1 DEF AgentTask, handlePodFailure
<1>8. ASSUME t.phase \notin ignoresCancel \cup {""}
      PROVE  Storable(t, canceledStatus(t))
  BY <1>1, <1>8 DEF AgentTask, canceledStatus, ignoresCancel
<1>9. ASSUME t.phase # ""
      PROVE  Storable(t, timeoutStatus(t))
  BY <1>1, <1>9 DEF AgentTask, timeoutStatus
<1> QED
  BY <1>2, <1>3, <1>4, <1>5, <1>6, <1>7, <1>8, <1>9

\* Every version that somebody else makes of a consistent task is consistent.
LEMMA OthersConsistent ==
    /\ Consistent(NoTask) /\ NoTask.uid = 0 /\ NoTask.startTime = NoTime
    /\ \A u, s : /\ Consistent(NewTask(u, s)) /\ NewTask(u, s).uid = u
                /\ NewTask(u, s).startTime = NoTime /\ NewTask(u, s).spec = s
    /\ \A t \in AgentTask : Consistent(t) =>
         LET f == [t EXCEPT !.finalizer = TRUE]
             d == [t EXCEPT !.deleting = TRUE]
         IN  /\ Consistent(f) /\ f.uid = t.uid /\ f.startTime = t.startTime
             /\ Consistent(d) /\ d.uid = t.uid /\ d.startTime = t.startTime
             /\ \A s : LET e == [t EXCEPT !.spec = s]
                      IN  /\ Consistent(e) /\ e.uid = t.uid
                          /\ e.startTime = t.startTime /\ e.spec = s
<1> USE DEF Consistent, Terminal, Active
<1>1. \A u, s : /\ Consistent(NewTask(u, s)) /\ NewTask(u, s).uid = u
                /\ NewTask(u, s).startTime = NoTime /\ NewTask(u, s).spec = s
  BY DEF NewTask, NoTime
<1>3. ASSUME NEW t \in AgentTask, Consistent(t), NEW f, NEW s,
             \/ f = [t EXCEPT !.finalizer = TRUE]
             \/ f = [t EXCEPT !.deleting = TRUE]
             \/ f = [t EXCEPT !.spec = s]
      PROVE  Consistent(f) /\ f.uid = t.uid /\ f.startTime = t.startTime
  BY <1>3 DEF AgentTask
<1>4. ASSUME NEW t \in AgentTask, NEW s  PROVE [t EXCEPT !.spec = s].spec = s
  BY DEF AgentTask
<1> HIDE DEF Consistent, Terminal, Active
<1>5. Consistent(NoTask) /\ NoTask.uid = 0 /\ NoTask.startTime = NoTime
  BY <1>1, Zenon DEF NoTask
<1> QED  BY <1>1, <1>3, <1>4, <1>5, Zenon

\* A step that leaves the stored task and the reconcile in flight alone.
LEMMA SettledFrame ==
    ASSUME IInv, task' = task, now' \in {now, now + 1}
    PROVE  /\ Settled'
           /\ UNCHANGED controlVars => Held'
<1>1. now \in Nat /\ task \in AgentTask /\ obj \in AgentTask
  BY LogTypes DEF IInv, TypeOK, MeterTypes, ControlTypes, task
<1>2. now' \in Nat /\ now <= now' /\ task.startTime \in Nat /\ obj.startTime \in Nat
  <2>1. task.startTime \in Nat /\ obj.startTime \in Nat
    BY <1>1 DEF AgentTask
  <2>2. now' \in Nat /\ now <= now'
    BY <1>1
  <2> QED  BY <2>1, <2>2
<1>3. now' # NoTime /\ task.startTime <= now'
  BY <1>1, <1>2 DEF IInv, Settled, NoTime
<1>4. Settled'
  BY <1>3 DEF IInv, Settled, StatusConsistent
<1>5. ASSUME UNCHANGED controlVars  PROVE Held'
  <2>1. obj.startTime <= now => obj.startTime <= now'
    BY <1>1, <1>2
  <2> QED
    BY <1>5, <2>1 DEF IInv, Held, controlVars
<1> QED  BY <1>4, <1>5

\* Without a current resourceVersion nothing is held.
LEMMA NotHeld == (fresh' = FALSE \/ Return \/ ReturnRequeue) => Held'
BY DEF Held, Return, ReturnRequeue

\* A step of the lifecycle, or none.
LifecycleStep == [Lifecycle!Next]_<<task, lastUid>>

\* The first part of a reconcile: it holds what it read from the cache, and if
\* the cache is current, that is the stored task.
LEMMA HeldReconcile ==
    ASSUME IInv, taskLog' = taskLog, now' = now,
           \/ ReconcileGone \/ AddFinalizer \/ ReconcileDeleted \/ InitializePhase
           \/ IgnoreCancel \/ ReconcileCanceled \/ ReconcileTimeout
           \/ ReconcilePending \/ AwaitPod \/ ScheduledToRunning
           \/ ScheduledImagePullFailed \/ PodMissing \/ PodSucceeded \/ PodFailed
           \/ FinishedWait
    PROVE  Held'
<1> DEFINE t == Cached(taskLog)
           p == Cached(podLog)
<1>1. /\ t \in AgentTask /\ p \in Pod /\ now \in Nat /\ now # NoTime /\ task' = task
      /\ fresh \in BOOLEAN
  BY LogTypes DEF IInv, TypeOK, MeterTypes, ControlTypes, Settled, task
<1>2. CacheCurrent(taskLog) => /\ t = task /\ Consistent(t) /\ t.startTime <= now
  BY LogReads DEF IInv, TypeOK, ObjectTypes, Settled, StatusConsistent, task
<1> HIDE DEF t, p
\* It suffices to look at a current cache.
<1>3. ASSUME NEW o, NEW next, Hold(o, next),
             t = task =>
               /\ next # "idle" /\ next # "status"
               /\ next = "update" =>
                    ~task.deleting /\ task.uid # 0 /\ o = [task EXCEPT !.finalizer = TRUE]
               /\ next # "update" => o = task
               /\ next = "finalize" => task.deleting /\ task.finalizer
               /\ next \notin {"update", "finalize"} => Initialized(task)
               /\ next = "cancelPod" => task.phase \notin ignoresCancel
               /\ next \in {"ensureCodeConfigMap", "ensureNetworkPolicy", "dispatch"}
                    => task.phase = "Pending"
      PROVE  Held'
  <2>1. pc' = next /\ obj' = o /\ fresh' = CacheCurrent(taskLog)
    BY <1>3 DEF Hold
  <2>2. CASE ~CacheCurrent(taskLog)
    BY <2>1, <2>2, NotHeld DEF CacheCurrent
  <2>3. CASE CacheCurrent(taskLog)
    BY <1>1, <1>2, <1>3, <2>1, <2>3 DEF Held, Initialized
  <2> QED  BY <2>2, <2>3
<1>4. ASSUME NEW o, NEW then, HoldStatus(o, then),
             t = task /\ Consistent(t) /\ t.startTime <= now => Storable(t, o)
      PROVE  Held'
  <2>1. pc' = "status" /\ obj' = o /\ fresh' = CacheCurrent(taskLog)
    BY <1>4 DEF HoldStatus
  <2>2. CASE ~CacheCurrent(taskLog)
    BY <2>1, <2>2, NotHeld DEF CacheCurrent
  <2>3. CASE CacheCurrent(taskLog)
    BY <1>1, <1>2, <1>4, <2>1, <2>3 DEF Held, Storable
  <2> QED  BY <2>2, <2>3
<1>5. ASSUME ReconcileGone \/ IgnoreCancel \/ AwaitPod \/ FinishedWait  PROVE Held'
  BY <1>1, <1>5, SettledFrame
  DEF ReconcileGone, IgnoreCancel, AwaitPod, FinishedWait
<1>6. CASE AddFinalizer
  BY <1>3, <1>6 DEF AddFinalizer, hasFinalizer, t
<1>7. CASE ReconcileDeleted
  BY <1>3, <1>7 DEF ReconcileDeleted, hasFinalizer, t
<1>8. CASE ReconcileCanceled
  BY <1>3, <1>8 DEF ReconcileCanceled, t
<1>9. CASE ReconcileTimeout
  BY <1>3, <1>9 DEF ReconcileTimeout, t
<1>10. CASE ReconcilePending
  BY <1>3, <1>10 DEF ReconcilePending, InPhase, t
<1>11. CASE InitializePhase
  <2>1. /\ HoldStatus([t EXCEPT !.phase = "Pending", !.startTime = now], "requeue")
        /\ t.uid # 0 /\ t.finalizer /\ ~t.deleting /\ t.phase = ""
    BY <1>11 DEF InitializePhase, hasFinalizer, t
  <2> QED  BY <1>1, <1>4, <2>1, HandlersAdvance
<1>12. \A phases : InPhase(t, phases) =>
         t.uid # 0 /\ t.finalizer /\ ~t.deleting /\ t.phase \in phases
  BY DEF InPhase, Initialized, hasFinalizer
<1>13. CASE ScheduledToRunning
  <2>1. InPhase(t, {"Scheduled"}) /\ HoldStatus([t EXCEPT !.phase = "Running"], "done")
    BY <1>13 DEF ScheduledToRunning, t
  <2>2. t.uid # 0 /\ t.finalizer /\ ~t.deleting /\ t.phase = "Scheduled"
    BY <1>12, <2>1
  <2> QED  BY <1>1, <1>4, <2>1, <2>2, HandlersAdvance
<1>14. ASSUME ScheduledImagePullFailed \/ PodMissing  PROVE Held'
  <2>1. PICK why \in {"ImagePullFailed", "PodMissing"} :
          /\ InPhase(t, {"Scheduled"}) \/ InPhase(t, {"Scheduled", "Running"})
          /\ HoldStatus(updatePhaseFailure(t, why), "done")
    BY <1>14 DEF ScheduledImagePullFailed, PodMissing, t
  <2>2. /\ t.uid # 0 /\ t.finalizer /\ ~t.deleting /\ t.phase \in Active
        /\ why \in Reason \ {"", "Timeout", "Canceled"}
    BY <1>12, <2>1 DEF Active, Reason
  <2> QED  BY <1>1, <1>4, <2>1, <2>2, HandlersAdvance
<1>15. ASSUME PodSucceeded \/ PodFailed  PROVE Held'
  <2>1. /\ InPhase(t, {"Scheduled", "Running"})
        /\ \/ HoldStatus(handlePodSuccess(t, p), "deletePod")
           \/ HoldStatus(handlePodFailure(t, p), "deletePod")
    BY <1>15 DEF PodSucceeded, PodFailed, t, p
  <2>2. t.uid # 0 /\ t.finalizer /\ ~t.deleting /\ t.phase \in {"Scheduled", "Running"}
    BY <1>12, <2>1
  <2> QED  BY <1>1, <1>4, <2>1, <2>2, HandlersAdvance
<1> QED
  BY <1>5, <1>6, <1>7, <1>8, <1>9, <1>10, <1>11, <1>13, <1>14, <1>15

\* The steps between the first read and the write of the task: what they make of
\* the task they hold may be stored in its place.
LEMMA HeldBetween ==
    ASSUME IInv, taskLog' = taskLog, now' = now,
           \/ DeleteFinishedPod \/ FinalizeAgentTask \/ CancelPod \/ TimeoutPod
           \/ EnsureCodeConfigMap \/ EnsureNetworkPolicy \/ Dispatch
    PROVE  Held'
<1>1. /\ task \in AgentTask /\ now \in Nat /\ now # NoTime /\ task' = task
      /\ NoPod \in Pod /\ Held /\ fresh \in BOOLEAN
      /\ Consistent(task) /\ task.startTime <= now
  BY LogTypes, NewPodValues
  DEF IInv, TypeOK, MeterTypes, ControlTypes, Settled, StatusConsistent, task
<1>2. Initialized(task) =>
        task.uid # 0 /\ task.finalizer /\ ~task.deleting /\ task.phase # ""
  BY DEF Initialized, hasFinalizer
\* On to a status update with o.
<1>3. ASSUME NEW o, obj' = o, pc' = "status", fresh' = fresh,
             fresh => Storable(task, o)
      PROVE  Held'
  BY <1>1, <1>3 DEF Held, Storable
<1>4. CASE DeleteFinishedPod
  BY <1>4, NotHeld DEF DeleteFinishedPod
<1>5. CASE FinalizeAgentTask
  BY <1>1, <1>5 DEF FinalizeAgentTask, Held, RemoveFinalizer
<1>6. CASE CancelPod
  <2>1. fresh => /\ obj = task /\ Initialized(task) /\ task.phase \notin ignoresCancel
    BY <1>1, <1>6 DEF CancelPod, Held
  <2>2. fresh => Storable(task, canceledStatus(obj))
    BY <1>1, <1>2, <2>1, HandlersAdvance
  <2> QED  BY <1>3, <1>6, <2>2 DEF CancelPod
<1>7. CASE TimeoutPod
  <2>1. fresh => obj = task /\ Initialized(task)
    BY <1>1, <1>7 DEF TimeoutPod, Held
  <2>2. fresh => Storable(task, timeoutStatus(obj))
    BY <1>1, <1>2, <2>1, HandlersAdvance
  <2>3. CASE ReturnRequeue
    BY <2>3, NotHeld
  <2>4. CASE obj' = timeoutStatus(obj) /\ pc' = "status" /\ fresh' = fresh
    BY <1>3, <2>2, <2>4
  <2> QED  BY <1>7, <2>3, <2>4 DEF TimeoutPod
<1>8. ASSUME EnsureCodeConfigMap \/ EnsureNetworkPolicy  PROVE Held'
  <2>1. /\ fresh => obj = task /\ Initialized(task) /\ task.phase = "Pending"
        /\ \/ ReturnRequeue
           \/ pc' \in {"ensureNetworkPolicy", "dispatch"} /\ obj' = obj /\ fresh' = fresh
    BY <1>1, <1>8 DEF EnsureCodeConfigMap, EnsureNetworkPolicy, Held
  <2>2. CASE ReturnRequeue
    BY <2>2, NotHeld
  <2>3. CASE pc' \in {"ensureNetworkPolicy", "dispatch"} /\ obj' = obj /\ fresh' = fresh
    BY <1>1, <2>1, <2>3 DEF Held, Initialized
  <2> QED  BY <2>1, <2>2, <2>3
<1>9. CASE Dispatch
  <2>1. fresh => obj = task /\ Initialized(task) /\ task.phase = "Pending"
    BY <1>1, <1>9 DEF Dispatch, Held
  <2>2. PICK o :
          \/ ReturnRequeue
          \/ /\ ThenStatus(o)
             /\ \/ o \in {scheduledStatus(obj, "Pod"), scheduledStatus(obj, "Sandbox")}
                \/ \E why \in {"BackendSelectionFailed", "ProfileResolutionFailed"} :
                      o = updatePhaseFailure(obj, why)
    BY <1>9 DEF Dispatch, EnsurePod, EnsureSandbox
  <2>3. CASE ReturnRequeue
    BY <2>3, NotHeld
  <2>4. /\ {"BackendSelectionFailed", "ProfileResolutionFailed"}
             \subseteq Reason \ {"", "Timeout", "Canceled"}
        /\ "Pending" \in Active /\ "Pod" \in {"Pod", "Sandbox"}
        /\ "Sandbox" \in {"Pod", "Sandbox"}
    BY DEF Reason, Active
  <2>5. CASE ~ReturnRequeue
    <3>1. fresh => Storable(task, o)
      BY <1>1, <1>2, <2>1, <2>2, <2>4, <2>5, HandlersAdvance
    <3> QED  BY <1>3, <2>2, <2>5, <3>1 DEF ThenStatus
  <2> QED  BY <2>3, <2>5
<1> QED  BY <1>4, <1>5, <1>6, <1>7, <1>8, <1>9

\* The abstract specification has the same objects.
LEMMA LifecycleTypes ==
    /\ Lifecycle!NoTask = NoTask
    /\ \A t : Lifecycle!deletedTask(t) = deletedTask(t)
    /\ \A u, s : Lifecycle!NewTask(u, s) = NewTask(u, s)
    /\ Lifecycle!Terminal = Terminal
BY DEF Lifecycle!deletedTask, deletedTask, Lifecycle!NoTask, NoTask,
       Lifecycle!NewTask, NewTask, Lifecycle!NoSpec, NoSpec, Lifecycle!NoTTL, NoTTL,
       Lifecycle!NoTime, NoTime, Lifecycle!Terminal, Terminal

\* The versions that writes of the operator and deletions make of the stored task:
\* each is a step of the lifecycle and keeps what is settled.
LEMMA TaskVersions ==
    ASSUME IInv, NEW v \in AgentTask, task' = v, lastUid' = lastUid, now' = now,
           \/ v = deletedTask(task)
           \/ ~task.deleting /\ task.uid # 0 /\ v = [task EXCEPT !.finalizer = TRUE]
           \/ task.deleting /\ task.finalizer /\ v = NoTask
           \/ Lifecycle!MayAdvance(task, v) /\ Consistent(v) /\ v.startTime <= now
    PROVE  Settled' /\ LifecycleStep
<1>1. /\ task \in AgentTask /\ now \in Nat /\ now # NoTime
      /\ task.uid = 0 => task = NoTask
      /\ Consistent(task) /\ task.startTime <= now
  BY LogTypes DEF IInv, TypeOK, MeterTypes, Settled, StatusConsistent, task
<1>2. NoTime <= now
  <2>1. now \in Nat  BY <1>1
  <2> QED  BY <2>1 DEF NoTime
<1>3. ASSUME Consistent(v), v.startTime <= now, v.uid = 0 => v = NoTask
      PROVE  Settled'
  BY <1>1, <1>3 DEF Settled, StatusConsistent
<1>4. NoTask \in AgentTask /\ Consistent(NoTask) /\ NoTask.startTime <= now
  BY <1>2, NewTaskValues, OthersConsistent, Zenon
<1>5. CASE v = deletedTask(task)
  <2>1. CASE task.uid # 0 /\ task.finalizer
    <3>1. v = [task EXCEPT !.deleting = TRUE]
      BY <1>5, <2>1 DEF deletedTask
    <3>2. v.uid = task.uid /\ Consistent(v) /\ v.startTime <= now
      BY <1>1, <3>1, OthersConsistent, Zenon
    <3>3. Lifecycle!Delete
      BY <1>5, <2>1, LifecycleTypes DEF Lifecycle!Delete
    <3> QED  BY <1>3, <2>1, <3>2, <3>3 DEF LifecycleStep, Lifecycle!Next
  <2>2. CASE ~(task.uid # 0 /\ task.finalizer)
    <3>1. v = NoTask
      BY <1>5, <2>2 DEF deletedTask
    <3>2. Settled'
      BY <1>3, <1>4, <3>1
    <3>3. CASE task.uid = 0
      BY <1>1, <3>1, <3>2, <3>3 DEF LifecycleStep
    <3>4. CASE task.uid # 0
      BY <1>5, <3>2, <3>4, LifecycleTypes
      DEF LifecycleStep, Lifecycle!Next, Lifecycle!Delete
    <3> QED  BY <3>3, <3>4
  <2> QED  BY <2>1, <2>2
<1>6. CASE ~task.deleting /\ task.uid # 0 /\ v = [task EXCEPT !.finalizer = TRUE]
  <2>1. v.uid = task.uid /\ Consistent(v) /\ v.startTime <= now
    BY <1>1, <1>6, OthersConsistent, Zenon
  <2>2. Lifecycle!Claim
    BY <1>6 DEF Lifecycle!Claim
  <2> QED  BY <1>3, <1>6, <2>1, <2>2 DEF LifecycleStep, Lifecycle!Next
<1>7. CASE task.deleting /\ task.finalizer /\ v = NoTask
  <2>1. Lifecycle!Finalize
    BY <1>7, LifecycleTypes DEF Lifecycle!Finalize
  <2> QED  BY <1>3, <1>4, <1>7, <2>1 DEF LifecycleStep, Lifecycle!Next
<1>8. CASE Lifecycle!MayAdvance(task, v) /\ Consistent(v) /\ v.startTime <= now
  <2>1. v.uid # 0
    BY <1>8 DEF Lifecycle!MayAdvance
  <2>2. Lifecycle!Advance
    BY <1>8 DEF Lifecycle!Advance
  <2> QED  BY <1>3, <1>8, <2>1, <2>2 DEF LifecycleStep, Lifecycle!Next
<1> QED  BY <1>5, <1>6, <1>7, <1>8

\* The writes of the task itself.  What is stored then is a later version of what
\* was stored: a write of an older copy is refused.
LEMMA TaskWritten ==
    ASSUME IInv, UpdateTask \/ UpdateStatus \/ FinishedExpired \/ User
    PROVE  Settled' /\ Held' /\ LifecycleStep
<1>1. /\ task \in AgentTask /\ now \in Nat /\ now # NoTime /\ obj \in AgentTask
      /\ Held /\ fresh \in BOOLEAN /\ lastUid \in Nat
      /\ task.uid = 0 => task = NoTask
      /\ Consistent(task) /\ task.startTime <= now
      /\ taskLog \in Seq(AgentTask) /\ taskLog # <<>>
  BY LogTypes DEF IInv, TypeOK, MeterTypes, ControlTypes, ObjectTypes, Settled,
                  StatusConsistent, task
<1>2. NoTime <= now
  <2>1. now \in Nat  BY <1>1
  <2> QED  BY <2>1 DEF NoTime
<1>3. \A v \in AgentTask : taskLog' = Write(taskLog, v) => task' = v
  BY <1>1, LogWrite DEF task
\* Any new version keeps what is settled.
<1>4. ASSUME NEW v \in AgentTask, task' = v, now' = now, Consistent(v),
             v.startTime <= now, v.uid = 0 => v = NoTask
      PROVE  Settled'
  BY <1>1, <1>4 DEF Settled, StatusConsistent
<1>5. NoTask \in AgentTask /\ Consistent(NoTask) /\ NoTask.startTime <= now
  BY <1>2, NewTaskValues, OthersConsistent, Zenon
<1>6. ASSUME task' = deletedTask(task), lastUid' = lastUid, now' = now
      PROVE  Settled' /\ LifecycleStep
  BY <1>1, <1>6, TaskValues, TaskVersions
<1>7. CASE FinishedExpired
  <2>1. task' = deletedTask(task) /\ lastUid' = lastUid /\ now' = now
    BY <1>1, <1>3, <1>7, TaskValues DEF FinishedExpired, task
  <2>2. pc' = "idle" /\ fresh' = fresh /\ ~fresh
    BY <1>1, <1>7 DEF FinishedExpired, Dequeue, Held, controlVars
  <2> QED  BY <1>1, <1>6, <2>1, <2>2, NotHeld
<1>8. CASE DeleteTask
  <2>1. task' = deletedTask(task) /\ lastUid' = lastUid /\ now' = now /\ fresh' = FALSE
    BY <1>1, <1>3, <1>8, TaskValues DEF DeleteTask, userVars, task
  <2> QED  BY <1>6, <2>1, NotHeld
<1>9. ASSUME NEW s \in Specs, CreateTask(s)
      PROVE  Settled' /\ Held' /\ LifecycleStep
  <2> DEFINE v == NewTask(lastUid + 1, s)
  <2>1. lastUid + 1 \in Nat /\ lastUid + 1 # 0
    BY <1>1
  <2>2. v \in AgentTask
    BY <2>1, SpecsAssumption, NewTaskValues
  <2>3. /\ task.uid = 0 /\ task' = v /\ lastUid' = lastUid + 1 /\ now' = now
        /\ fresh' = FALSE
    BY <1>3, <1>9, <2>2 DEF CreateTask, userVars, task
  <2>4. /\ Consistent(v) /\ v.uid = lastUid + 1 /\ v.startTime <= now /\ v.spec = s
    <3>1. /\ Consistent(v) /\ v.uid = lastUid + 1 /\ v.startTime = NoTime /\ v.spec = s
      BY OthersConsistent
    <3> QED  BY <1>2, <3>1
  <2> HIDE DEF v
  <2>5. Settled'
    BY <1>4, <2>1, <2>2, <2>3, <2>4
  <2>6. Lifecycle!Submit
    BY <2>3, <2>4, LifecycleTypes DEF Lifecycle!Submit, v
  <2> QED  BY <2>3, <2>5, <2>6, NotHeld DEF LifecycleStep, Lifecycle!Next
<1>10. ASSUME NEW s \in Specs, UpdateSpec(s)
       PROVE  Settled' /\ Held' /\ LifecycleStep
  <2> DEFINE v == [task EXCEPT !.spec = s]
  <2>1. v \in AgentTask
    BY <1>1, SpecsAssumption, TaskValues
  <2>2. /\ task.uid # 0 /\ task' = v /\ lastUid' = lastUid /\ now' = now
        /\ fresh' = FALSE
    BY <1>3, <1>10, <2>1 DEF UpdateSpec, userVars, task
  <2>3. /\ Consistent(v) /\ v.uid = task.uid /\ v.startTime <= now /\ v.spec = s
    BY <1>1, OthersConsistent, Zenon
  <2> HIDE DEF v
  <2>4. Settled'
    BY <1>4, <2>1, <2>2, <2>3
  <2>5. Lifecycle!EditSpec
    BY <2>2, <2>3 DEF Lifecycle!EditSpec, v
  <2> QED  BY <2>2, <2>4, <2>5, NotHeld DEF LifecycleStep, Lifecycle!Next
<1>11. CASE UpdateTask
  <2>1. lastUid' = lastUid /\ now' = now /\ Held'
    BY <1>11, NotHeld DEF UpdateTask
  <2>2. CASE taskLog' = taskLog
    BY <2>1, <2>2, SettledFrame DEF LifecycleStep, task
  <2>3. CASE taskLog' # taskLog
    <3>1. /\ fresh /\ pc = "update"
          /\ taskLog' = Write(taskLog, IF obj.deleting /\ ~obj.finalizer
                                       THEN NoTask ELSE obj)
      BY <1>11, <2>3 DEF UpdateTask, upToDate
    <3>2. CASE ~task.deleting /\ task.uid # 0 /\ obj = [task EXCEPT !.finalizer = TRUE]
      <4>1. obj.finalizer
        BY <1>1, <3>2 DEF AgentTask
      <4>2. task' = obj
        BY <1>1, <1>3, <3>1, <4>1
      <4> QED  BY <1>1, <2>1, <3>2, <4>2, TaskVersions
    <3>3. CASE /\ task.deleting /\ task.finalizer
               /\ obj = [task EXCEPT !.finalizer = FALSE]
      <4>1. ~obj.finalizer /\ obj.deleting
        BY <1>1, <3>3 DEF AgentTask
      <4>2. task' = NoTask
        BY <1>3, <1>5, <3>1, <4>1
      <4> QED  BY <1>5, <2>1, <3>3, <4>2, TaskVersions
    <3> QED  BY <1>1, <3>1, <3>2, <3>3 DEF Held
  <2> QED  BY <2>2, <2>3
<1>12. CASE UpdateStatus
  <2>1. lastUid' = lastUid /\ now' = now
    BY <1>12 DEF UpdateStatus
  <2>2. CASE ~fresh
    BY <1>12, <2>1, <2>2, SettledFrame, NotHeld
    DEF UpdateStatus, upToDate, LifecycleStep, task
  <2>3. CASE fresh
    <3>1. /\ Lifecycle!MayAdvance(task, obj) /\ Consistent(obj) /\ obj.startTime <= now
      BY <1>1, <1>12, <2>3 DEF UpdateStatus, Held
    <3>2. task' = obj
      BY <1>1, <1>3, <1>12, <2>3 DEF UpdateStatus, upToDate
    <3>3. Settled' /\ LifecycleStep
      BY <1>1, <2>1, <3>1, <3>2, TaskVersions
    <3>4. Held'
      <4>1. CASE Return \/ ReturnRequeue
        BY <4>1, NotHeld
      <4>2. CASE pc' = "deletePod"
        BY <4>2 DEF Held
      <4> QED  BY <1>12, <2>3, <4>1, <4>2 DEF UpdateStatus, upToDate
    <3> QED  BY <3>3, <3>4
  <2> QED  BY <1>1, <2>2, <2>3
<1> QED  BY <1>7, <1>8, <1>9, <1>10, <1>11, <1>12 DEF User

(* -------------------------------- Theorems --------------------------------- *)

\* Every step keeps the inductive invariant and is a step of the lifecycle.
LEMMA InvariantStep ==
    ASSUME IInv, [Next]_vars
    PROVE  IInv' /\ LifecycleStep
<1>1. TypeOK'
  BY TypeNext DEF IInv
<1>2. taskLog \in Seq(AgentTask) /\ taskLog # <<>> /\ now \in Nat
  BY DEF IInv, TypeOK, ObjectTypes, MeterTypes
\* Most steps do not write the task.
<1>3. ASSUME task' = task, lastUid' = lastUid, now' \in {now, now + 1}, Held'
      PROVE  IInv' /\ LifecycleStep
  BY <1>1, <1>3, SettledFrame DEF IInv, LifecycleStep
<1>4. ASSUME task' = task, lastUid' = lastUid, now' \in {now, now + 1},
             UNCHANGED controlVars
      PROVE  IInv' /\ LifecycleStep
  BY <1>3, <1>4, SettledFrame
<1>5. ASSUME \/ ReconcileGone \/ AddFinalizer \/ ReconcileDeleted \/ InitializePhase
             \/ IgnoreCancel \/ ReconcileCanceled \/ ReconcileTimeout
             \/ ReconcilePending \/ AwaitPod \/ ScheduledToRunning
             \/ ScheduledImagePullFailed \/ PodMissing \/ PodSucceeded \/ PodFailed
             \/ FinishedWait
      PROVE  IInv' /\ LifecycleStep
  <2>1. taskLog' = taskLog /\ lastUid' = lastUid /\ now' = now
    BY <1>5
    DEF ReconcileGone, AddFinalizer, ReconcileDeleted, InitializePhase, IgnoreCancel,
        ReconcileCanceled, ReconcileTimeout, ReconcilePending, AwaitPod,
        ScheduledToRunning, ScheduledImagePullFailed, PodMissing, PodSucceeded,
        PodFailed, FinishedWait, objectVars
  <2> QED  BY <1>3, <1>5, <2>1, HeldReconcile DEF task
<1>6. ASSUME \/ DeleteFinishedPod \/ FinalizeAgentTask \/ CancelPod \/ TimeoutPod
             \/ EnsureCodeConfigMap \/ EnsureNetworkPolicy \/ Dispatch
      PROVE  IInv' /\ LifecycleStep
  <2>1. taskLog' = taskLog /\ lastUid' = lastUid /\ now' = now
    BY <1>6
    DEF DeleteFinishedPod, FinalizeAgentTask, CancelPod, TimeoutPod,
        EnsureCodeConfigMap, EnsureNetworkPolicy, Dispatch
  <2> QED  BY <1>3, <1>6, <2>1, HeldBetween DEF task
<1>7. ASSUME UpdateTask \/ UpdateStatus \/ FinishedExpired \/ User
      PROVE  IInv' /\ LifecycleStep
  BY <1>1, <1>7, TaskWritten DEF IInv
<1>8. CASE Fault
  <2>1. Stored(taskLog') = Stored(taskLog)
    BY <1>2, <1>8, LogDeliver DEF Fault, CallFails, Crash, objectVars
  <2>2. lastUid' = lastUid /\ now' = now /\ Held'
    BY <1>8, NotHeld DEF Fault, CallFails, Crash, objectVars
  <2> QED  BY <1>3, <2>1, <2>2 DEF task
<1>9. CASE DeliverTask
  <2>1. Stored(taskLog') = Stored(taskLog)
    BY <1>2, <1>9, LogDeliver DEF DeliverTask
  <2> QED  BY <1>4, <1>9, <2>1 DEF DeliverTask, task
<1>10. ASSUME \/ DeliverPod \/ DeliverOwned \/ TimerFires \/ Resync
              \/ Kubelet \/ CollectGarbage \/ Tick \/ UNCHANGED vars
       PROVE  IInv' /\ LifecycleStep
  <2>1. /\ taskLog' = taskLog /\ lastUid' = lastUid /\ now' \in {now, now + 1}
        /\ UNCHANGED controlVars
    BY <1>10
    DEF DeliverPod, DeliverOwned, TimerFires, Resync, Kubelet, PullFails,
        StartContainer, ExitContainer, EvictPod, DrainPod, RemovePod, PodBecomes,
        CollectGarbage, Tick, vars, objectVars, controlVars
  <2> QED  BY <1>4, <2>1 DEF task
<1> QED
  BY <1>5, <1>6, <1>7, <1>8, <1>9, <1>10
  DEF Next, ReconcileStep, WakeUp, Environment

\* The initial state satisfies the invariant and starts the lifecycle.
LEMMA InvariantInit == Init => IInv /\ Lifecycle!Init
<1> SUFFICES ASSUME Init PROVE IInv /\ Lifecycle!Init
  OBVIOUS
<1>1. task = NoTask /\ now = 1 /\ lastUid = 0 /\ fresh = FALSE
  BY DEF Init, task, Stored
<1>2. NoTask.startTime <= 1 /\ now # NoTime
  BY <1>1, OthersConsistent DEF NoTime
<1> QED
  BY <1>1, <1>2, TypeInit, OthersConsistent, LifecycleTypes
  DEF IInv, Settled, StatusConsistent, Held, Lifecycle!Init

\* The stored task is consistent in itself in every reachable state, for any
\* specs, faults, lags and bounds: no interleaving of Reconcile's writes with
\* those of users, restarts and failed calls stores a status that mixes phases.
THEOREM StatusCorrect == Spec => []StatusConsistent
<1>1. IInv => StatusConsistent
  BY DEF IInv, Settled
<1>2. IInv /\ [Next]_vars => IInv'
  BY InvariantStep
<1> QED  BY InvariantInit, <1>1, <1>2, PTL DEF Spec

\* What a reconcile will write over the version it read is a lifecycle step from
\* the stored one: the fact that makes the conflict check sufficient.
THEOREM HeldCorrect == Spec => []Held
<1>1. IInv => Held
  BY DEF IInv
<1>2. IInv /\ [Next]_vars => IInv'
  BY InvariantStep
<1> QED  BY InvariantInit, <1>1, <1>2, PTL DEF Spec

\* The operator implements the lifecycle that users may rely on: every step of
\* the reconciler, users, kubelet, collector or a fault is one of TaskLifecycle's
\* steps on the stored task, or leaves it alone.
THEOREM ImplementsLifecycle == Spec => LifecycleSpec
<1>1. IInv /\ [Next]_vars => IInv' /\ [Lifecycle!Next]_<<task, lastUid>>
  BY InvariantStep DEF LifecycleStep
<1> QED  BY InvariantInit, <1>1, PTL DEF Spec, LifecycleSpec, Lifecycle!Spec

\* A finished task never becomes active again (TerminalAbsorbing), whatever the
\* caches show the reconciler.
THEOREM NeverActiveAgain == Spec => TerminalAbsorbing
<1>1. ASSUME IInv, [Next]_vars
      PROVE  [task.phase \in Terminal /\ task'.uid = task.uid
                => task'.phase \in Terminal]_vars
  <2> SUFFICES ASSUME task.phase \in Terminal, task'.uid = task.uid
               PROVE  task'.phase \in Terminal
    OBVIOUS
  <2>1. task \in AgentTask /\ LifecycleStep /\ task.finalizer /\ task.uid # 0
    <3>1. task \in AgentTask /\ LifecycleStep
      BY <1>1, InvariantStep, LogTypes DEF IInv, task
    <3>2. Consistent(task) /\ (task.uid = 0 => task = NoTask)
      BY <1>1 DEF IInv, Settled, StatusConsistent
    <3>3. task.finalizer
      BY <3>2 DEF Consistent, Terminal
    <3>4. NoTask.phase \notin Terminal
      BY DEF NoTask, NewTask, Terminal
    <3> QED  BY <3>1, <3>2, <3>3, <3>4
  <2>2. task' = task => task'.phase \in Terminal
    OBVIOUS
  <2>3. CASE Lifecycle!Submit
    BY <2>1, <2>3 DEF Lifecycle!Submit
  <2>4. CASE Lifecycle!EditSpec \/ Lifecycle!Claim
    BY <2>1, <2>4 DEF Lifecycle!EditSpec, Lifecycle!Claim, AgentTask
  <2>5. CASE Lifecycle!Advance
    BY <2>5, SuccessorFacts DEF Lifecycle!Advance, Lifecycle!MayAdvance, Terminal
  <2>6. CASE Lifecycle!Delete
    BY <2>1, <2>6, LifecycleTypes DEF Lifecycle!Delete, deletedTask, AgentTask
  <2>7. CASE Lifecycle!Finalize
    BY <2>1, <2>7, LifecycleTypes, OthersConsistent DEF Lifecycle!Finalize
  <2> QED
    BY <2>1, <2>2, <2>3, <2>4, <2>5, <2>6, <2>7 DEF LifecycleStep, Lifecycle!Next
<1>2. IInv /\ [Next]_vars => IInv'
  BY InvariantStep
<1> QED  BY InvariantInit, <1>1, <1>2, PTL DEF Spec, TerminalAbsorbing
================================================================================
