----------------------------- MODULE TaskPodProofs -----------------------------
(***************************************************************************)
(* The task and its pod, for every value of the constants: one pod per     *)
(* task, and none left behind by a task that ended with it.  The pod is    *)
(* created and deleted by name, on what a cache shows; what the reconcile  *)
(* in flight has read is old, but not in any way that matters here.        *)
(***************************************************************************)
EXTENDS TaskHistoryProofs

(* ------------------------ The reconcile in flight -------------------------- *)

\* Between reconcilePending's first write and its last.
Creating == {"ensureCodeConfigMap", "ensureNetworkPolicy", "dispatch"}

\* handlePodSuccess and handlePodFailure, from the status update on.
EndsPod == pc = "deletePod" \/ (pc = "status" /\ after = "deletePod")

\* t is a task that the cache has shown: every version there now is later.
Read(t) ==
    t.uid # 0 /\ t.uid <= lastUid /\ \A i \in 1..Len(taskLog) : Later(t, taskLog[i])

\* What the reconcile in flight knows of the task it has read, up to date or not.
InFlight ==
    /\ pc # "status" => after = "done"
    /\ pc \in Creating \cup {"cancelPod", "timeoutPod", "finalize"} \/ EndsPod
         => Read(obj)
    /\ pc \in Creating \cup {"cancelPod", "timeoutPod"} \/ EndsPod => Initialized(obj)
    /\ pc \in Creating => obj.phase = "Pending"
    /\ (pc \in {"cancelPod", "timeoutPod"} /\ obj.podRef # "") \/ EndsPod => Past(obj)
    /\ pc = "finalize" => obj.deleting

\* The types that the proofs below start from.
LEMMA HTypes ==
    ASSUME HInv
    PROVE  /\ IInv /\ TypeOK /\ Held /\ History
           /\ taskLog \in Seq(AgentTask) /\ taskLog # <<>>
           /\ podLog \in Seq(Pod) /\ podLog # <<>>
           /\ lastUid \in Nat /\ made \in Nat /\ obj \in AgentTask /\ fresh \in BOOLEAN
           /\ task \in AgentTask /\ pod \in Pod /\ Cached(taskLog) \in AgentTask
           /\ Cached(podLog) \in Pod
           /\ now \in Nat /\ now # NoTime /\ Consistent(task)
           /\ task.uid = 0 => task = NoTask
           /\ task.uid \in {0, lastUid}
<1>1. /\ IInv /\ TypeOK /\ Held /\ History /\ task.uid \in {0, lastUid}
      /\ now # NoTime /\ Consistent(task) /\ (task.uid = 0 => task = NoTask)
  BY DEF HInv, IInv, Settled, StatusConsistent
<1>2. /\ taskLog \in Seq(AgentTask) /\ taskLog # <<>>
      /\ podLog \in Seq(Pod) /\ podLog # <<>>
      /\ lastUid \in Nat /\ made \in Nat /\ obj \in AgentTask /\ fresh \in BOOLEAN
      /\ now \in Nat
  BY <1>1 DEF TypeOK, ObjectTypes, ControlTypes, MeterTypes
<1> QED  BY <1>1, <1>2, LogTypes DEF task, pod

\* The cached and the stored task are versions of the history.
LEMMA Versions ==
    ASSUME HInv
    PROVE  /\ Len(taskLog) \in Nat /\ 1 \in 1..Len(taskLog)
           /\ Len(taskLog) \in 1..Len(taskLog)
           /\ task = taskLog[Len(taskLog)] /\ Cached(taskLog) = taskLog[1]
           /\ Sound(Cached(taskLog)) /\ Sound(task)
           /\ Cached(taskLog).uid # 0 => Read(Cached(taskLog))
           /\ \A i \in 1..Len(taskLog) :
                taskLog[i] \in AgentTask /\ Sound(taskLog[i]) /\ Later(taskLog[i], task)
<1>1. taskLog \in Seq(AgentTask) /\ taskLog # <<>> /\ History
  BY HTypes
<1>2. /\ Len(taskLog) \in Nat /\ 1 \in 1..Len(taskLog)
      /\ Len(taskLog) \in 1..Len(taskLog)
      /\ \A i \in 1..Len(taskLog) : taskLog[i] \in AgentTask
  BY <1>1
<1>3. task = taskLog[Len(taskLog)] /\ Cached(taskLog) = taskLog[1]
  BY DEF task, Stored, Cached
<1>4. \A i \in 1..Len(taskLog) : /\ Sound(taskLog[i]) /\ taskLog[i].uid <= lastUid
                                 /\ Later(taskLog[i], task) /\ Later(taskLog[1], taskLog[i])
  BY <1>1, <1>2, <1>3 DEF History
<1> QED  BY <1>2, <1>3, <1>4 DEF Read

\* A task that was read stays so: nobody but the operator takes its finalizer off.
LEMMA ReadStep ==
    ASSUME HInv, [Next]_vars, pc # "update", Read(obj), obj' = obj
    PROVE  Read(obj)'
<1>1. /\ IInv' /\ LifecycleStep /\ TaskLogMoves /\ HInv'
      /\ ~(task.finalizer /\ task'.uid # task.uid)
  BY InvariantStep, StepEffects, HistoryNext DEF HInv
<1>2. /\ IInv /\ History /\ task.uid \in {0, lastUid} /\ obj \in AgentTask
      /\ taskLog \in Seq(AgentTask) /\ taskLog # <<>> /\ lastUid \in Nat
  BY HTypes
<1>3. Len(taskLog) \in 1..Len(taskLog) /\ task = taskLog[Len(taskLog)] /\ Sound(task)
  BY Versions
<1>4. Later(obj, task')
  BY <1>1, <1>2, <1>3, HistoryStep DEF Read
<1>5. lastUid <= lastUid' /\ lastUid' \in Nat /\ obj.uid \in Nat
  BY <1>1, <1>2, <1>3, SoundStep DEF AgentTask
<1>6. ASSUME NEW i \in 1..Len(taskLog')  PROVE Later(obj, taskLog'[i])
  <2>1. taskLog' \in Seq(AgentTask) /\ taskLog' # <<>>
    BY <1>1, HTypes DEF IInv, TypeOK, ObjectTypes
  <2>2. i \in i..Len(taskLog')
    BY <2>1
  <2>3. taskLog'[i] = task' \/ \E k \in 1..Len(taskLog) : taskLog'[i] = taskLog[k]
    BY <1>1, <1>2, <2>2, MovesVersions
  <2> QED  BY <1>4, <2>3 DEF Read
<1>7. obj'.uid # 0 /\ obj'.uid <= lastUid'
  BY <1>2, <1>5 DEF Read
<1> QED  BY <1>6, <1>7 DEF Read

\* What a handler makes of a task that was read past Pending.
LEMMA ReadHandled ==
    ASSUME NEW t, Read(t), Past(t),
           NEW o, o.uid = t.uid, o.finalizer = t.finalizer, o.deleting = t.deleting
    PROVE  Read(o)
BY DEF Read, Later, Past

\* The reconcile that starts now knows what the cache shows it.
LEMMA InFlightStart ==
    ASSUME HInv, InFlight,
           \/ ReconcileGone \/ AddFinalizer \/ ReconcileDeleted \/ InitializePhase
           \/ IgnoreCancel \/ ReconcileCanceled \/ ReconcileTimeout
           \/ ReconcilePending \/ AwaitPod \/ ScheduledToRunning
           \/ ScheduledImagePullFailed \/ PodMissing \/ PodSucceeded \/ PodFailed
           \/ FinishedWait
    PROVE  InFlight'
<1> DEFINE t == Cached(taskLog)
           p == Cached(podLog)
<1>1. /\ t \in AgentTask /\ p \in Pod /\ Held /\ TypeOK /\ now \in Nat /\ now # NoTime
      /\ Sound(t) /\ (t.uid # 0 => Read(t))
  BY HTypes, Versions
<1>2. taskLog' = taskLog /\ lastUid' = lastUid /\ pc = "idle"
  BY <1>1, StartEffects
<1>3. ASSUME Initialized(t), t.podRef # ""
      PROVE  Past(t)
  BY <1>1, <1>3 DEF Sound, Consistent, Past
<1> HIDE DEF t, p
<1>4. CASE UNCHANGED controlVars
  BY <1>2, <1>4 DEF InFlight, EndsPod, Creating, controlVars
<1>5. CASE pc' = "status" /\ after' # "deletePod"
  BY <1>5 DEF InFlight, EndsPod, Creating
<1>6. CASE pc' = "update" /\ after' = "done"
  BY <1>6 DEF InFlight, EndsPod, Creating
<1>7. ASSUME obj' = t, t.uid # 0
      PROVE  Read(obj)'
  BY <1>1, <1>2, <1>7 DEF Read
<1>8. CASE ReconcileDeleted
  <2>1. /\ obj' = t /\ t.uid # 0 /\ t.deleting /\ pc' = "finalize" /\ after' = "done"
    BY <1>8 DEF ReconcileDeleted, Hold, t
  <2> QED  BY <1>7, <2>1 DEF InFlight, EndsPod, Creating
<1>9. CASE ReconcileCanceled \/ ReconcileTimeout
  <2>1. /\ obj' = t /\ Initialized(t) /\ pc' \in {"cancelPod", "timeoutPod"}
        /\ after' = "done"
    BY <1>9 DEF ReconcileCanceled, ReconcileTimeout, Hold, t
  <2>2. t.uid # 0
    BY <2>1 DEF Initialized
  <2>3. Read(obj)'
    BY <1>7, <2>1, <2>2
  <2>4. Initialized(obj)' /\ (obj'.podRef # "" => Past(obj)')
    BY <1>3, <2>1 DEF Initialized, hasFinalizer, Past
  <2> QED  BY <2>1, <2>3, <2>4 DEF InFlight, EndsPod, Creating
<1>10. CASE ReconcilePending
  <2>1. /\ obj' = t /\ Initialized(t) /\ pc' = "ensureCodeConfigMap" /\ after' = "done"
        /\ t.phase = "Pending"
    BY <1>10 DEF ReconcilePending, InPhase, Hold, t
  <2>2. t.uid # 0
    BY <2>1 DEF Initialized
  <2>3. Read(obj)'
    BY <1>7, <2>1, <2>2
  <2>4. Initialized(obj)'
    BY <2>1 DEF Initialized, hasFinalizer
  <2> QED  BY <2>1, <2>3, <2>4 DEF InFlight, EndsPod, Creating
<1>11. CASE PodSucceeded \/ PodFailed
  <2>1. /\ Initialized(t) /\ t.phase \in {"Scheduled", "Running"}
        /\ obj' \in {handlePodSuccess(t, p), handlePodFailure(t, p)}
        /\ pc' = "status" /\ after' = "deletePod"
    BY <1>11 DEF PodSucceeded, PodFailed, InPhase, HoldStatus, t, p
  <2>2. /\ t.uid # 0 /\ t.finalizer /\ ~t.deleting /\ Past(t) /\ Consistent(t)
    BY <1>1, <2>1 DEF Initialized, hasFinalizer, Past, Sound
  <2>3. /\ obj'.uid = t.uid /\ obj'.finalizer = t.finalizer /\ obj'.deleting = t.deleting
        /\ obj'.phase \in {"Succeeded", "Failed"}
    BY <1>1, <2>1 DEF handlePodSuccess, handlePodFailure, AgentTask
  <2>4. Read(obj')
    BY <1>1, <2>2, <2>3, ReadHandled
  <2>6. Read(obj)'
    BY <1>2, <2>4 DEF Read
  <2>7. Initialized(obj)' /\ Past(obj)'
    BY <2>2, <2>3 DEF Initialized, hasFinalizer, Past
  <2> QED  BY <2>1, <2>6, <2>7 DEF InFlight, EndsPod, Creating
<1> QED
  BY <1>4, <1>5, <1>6, <1>8, <1>9, <1>10, <1>11
  DEF ReconcileGone, AddFinalizer, InitializePhase, IgnoreCancel, AwaitPod,
      ScheduledToRunning, ScheduledImagePullFailed, PodMissing, FinishedWait,
      Hold, HoldStatus

\* So does every later step of it, and every step of the others.
LEMMA InFlightStep ==
    ASSUME HInv, InFlight, [Next]_vars
    PROVE  InFlight'
<1>1. CASE Return \/ ReturnRequeue
  BY <1>1 DEF Return, ReturnRequeue, InFlight, EndsPod, Creating
<1>2. ASSUME UNCHANGED <<pc, obj, after>>  PROVE InFlight'
  <2>1. ASSUME pc # "update", Read(obj)  PROVE Read(obj)'
    BY <1>2, <2>1, ReadStep
  <2>2. Initialized(obj)' = Initialized(obj) /\ Past(obj)' = Past(obj)
    BY <1>2 DEF Initialized, hasFinalizer, Past
  <2> QED  BY <1>2, <2>1, <2>2 DEF InFlight, EndsPod, Creating
<1>3. ASSUME DeleteFinishedPod \/ UpdateTask \/ Fault  PROVE InFlight'
  BY <1>1, <1>3 DEF DeleteFinishedPod, UpdateTask, Fault, CallFails, Crash
<1>4. CASE FinalizeAgentTask
  BY <1>4 DEF FinalizeAgentTask, InFlight, EndsPod, Creating
<1>5. CASE CancelPod \/ TimeoutPod
  <2>1. CASE pc' = "status" /\ after' = after /\ pc # "status"
    BY <2>1 DEF InFlight, EndsPod, Creating
  <2> QED  BY <1>1, <1>5, <2>1 DEF CancelPod, TimeoutPod
<1>6. CASE EnsureCodeConfigMap \/ EnsureNetworkPolicy
  <2>1. CASE /\ pc \in Creating /\ pc' \in Creating /\ UNCHANGED <<obj, after>>
             /\ UNCHANGED <<taskLog, lastUid>>
    <3>1. Read(obj) => Read(obj)'
      BY <2>1 DEF Read
    <3>2. Initialized(obj)' = Initialized(obj)
      BY <2>1 DEF Initialized, hasFinalizer
    <3> QED  BY <2>1, <3>1, <3>2 DEF InFlight, EndsPod, Creating
  <2> QED
    BY <1>1, <1>6, <2>1 DEF EnsureCodeConfigMap, EnsureNetworkPolicy, Creating
<1>7. CASE Dispatch
  <2>1. CASE pc' = "status" /\ after' = "requeue"
    BY <2>1 DEF InFlight, EndsPod, Creating
  <2> QED
    BY <1>1, <1>7, <2>1 DEF Dispatch, EnsureSandbox, EnsurePod, ThenStatus
<1>8. CASE UpdateStatus
  <2>1. CASE /\ pc = "status" /\ after = "deletePod" /\ pc' = "deletePod"
             /\ after' = "done" /\ obj' = obj
    <3>1. Read(obj)'
      BY <2>1, ReadStep DEF InFlight, EndsPod
    <3>2. Initialized(obj)' = Initialized(obj) /\ Past(obj)' = Past(obj)
      BY <2>1 DEF Initialized, hasFinalizer, Past
    <3> QED  BY <2>1, <3>1, <3>2 DEF InFlight, EndsPod, Creating
  <2> QED  BY <1>1, <1>8, <2>1 DEF UpdateStatus
<1>9. ASSUME FinishedExpired \/ User  PROVE InFlight'
  BY <1>2, <1>9 DEF FinishedExpired, User, CreateTask, UpdateSpec, DeleteTask,
                    userVars, controlVars
<1>10. ASSUME \/ DeliverTask \/ DeliverPod \/ DeliverOwned \/ TimerFires \/ Resync
              \/ Kubelet \/ CollectGarbage \/ Tick \/ UNCHANGED vars
       PROVE  InFlight'
  <2>1. UNCHANGED controlVars
    BY <1>10
    DEF DeliverTask, DeliverPod, DeliverOwned, TimerFires, Resync, Kubelet, PullFails,
        StartContainer, ExitContainer, EvictPod, DrainPod, RemovePod, PodBecomes,
        CollectGarbage, Tick, vars
  <2> QED  BY <1>2, <2>1 DEF controlVars
<1> QED
  BY <1>3, <1>4, <1>5, <1>6, <1>7, <1>8, <1>9, <1>10, InFlightStart
  DEF Next, ReconcileStep, WakeUp, Environment

(* -------------------------- What happens to the pod ------------------------ *)

\* The pod of the name is what it was to everybody but the kubelet.
PodSame == pod'.owner = pod.owner /\ pod'.deleting = pod.deleting

\* Somebody asks the stored pod, whichever it is, to stop.
PodStopped == pod'.owner = pod.owner /\ (pod.owner # 0 => pod'.deleting)

\* The reasons for which a step stops the pod, and those who may.
MayStop ==
    \/ pc = "deletePod" /\ pc' = "idle"
    \/ pc \in {"cancelPod", "timeoutPod"} /\ obj.podRef # "" /\ pc' \in {"status", "idle"}
    \/ pc = "finalize" /\ pc' = "update"
    \/ orphan(pod.owner) /\ UNCHANGED <<controlVars, taskLog, made>>
    \/ used'.drains = used.drains + 1 /\ UNCHANGED <<controlVars, taskLog, made>>

\* reconcilePending creates it.
PodCreated ==
    /\ pc = "dispatch" /\ pc' = "status" /\ pod.owner = 0
    /\ pod'.owner = obj.uid /\ ~pod'.deleting
    /\ made' = IF obj.uid = lastUid THEN made + 1 ELSE made
    /\ UNCHANGED <<taskLog, lastUid>>

\* Deleting the stored pod stops it.
LEMMA DeleteEffect ==
    ASSUME podLog \in Seq(Pod), podLog # <<>>, deleteStoredPod
    PROVE  PodStopped
<1>1. pod \in Pod
  BY LogReads DEF pod
<1>2. CASE pod.owner = 0
  BY <1>2 DEF deleteStoredPod, PodStopped, pod
<1>3. CASE pod.owner # 0
  <2>1. [pod EXCEPT !.deleting = TRUE] \in Pod
    BY <1>1, PodValues
  <2>2. podLog' = Write(podLog, [pod EXCEPT !.deleting = TRUE])
    BY <1>3 DEF deleteStoredPod, pod
  <2>3. pod' = [pod EXCEPT !.deleting = TRUE]
    BY <2>1, <2>2, LogWrite DEF pod
  <2> QED  BY <1>1, <2>3 DEF PodStopped, Pod
<1> QED  BY <1>2, <1>3

\* What the kubelet and the nodes do to the stored pod and to nothing else.
LEMMA KubeletWrites ==
    ASSUME TypeOK, Kubelet
    PROVE  /\ \E q \in Pod : podLog' = Write(podLog, q)
           /\ UNCHANGED <<taskLog, cmLog, npLog, sandbox, lastUid, made, controlVars,
                          queued, timer, tasksTotal, now>>
           /\ \/ PodSame /\ (used' = used \/ spendDrain)
              \/ PodStopped /\ spendDrain
              \/ pod.deleting /\ pod' = NoPod /\ used' = used
<1>1. pod \in Pod /\ podLog \in Seq(Pod) /\ podLog # <<>> /\ Stored(cmLog) \in Nat
  BY LogTypes DEF TypeOK, ObjectTypes, pod
<1>2. ASSUME NEW q \in Pod, PodBecomes(q)
      PROVE  /\ pod' = q
             /\ \E r \in Pod : podLog' = Write(podLog, r)
             /\ UNCHANGED <<taskLog, cmLog, npLog, sandbox, lastUid, made, controlVars,
                            queued, timer, tasksTotal, now>>
  BY <1>1, <1>2, LogWrite DEF PodBecomes, pod
<1>3. ASSUME NEW c \in Containers, NEW s \in ContainerState, NEW n \in Nat
      PROVE  LET w == withStatus(pod, c, s)
                 q == [w EXCEPT !.code = n]
             IN  /\ w \in Pod /\ w.owner = pod.owner /\ w.deleting = pod.deleting
                 /\ q \in Pod /\ q.owner = pod.owner /\ q.deleting = pod.deleting
  <2> DEFINE w == withStatus(pod, c, s)
  <2>1. w \in Pod
    BY <1>1, PodValues
  <2>2. w.owner = pod.owner /\ w.deleting = pod.deleting
    BY <1>1 DEF withStatus, Pod
  <2>3. [w EXCEPT !.code = n] \in Pod
    BY <2>1, PodValues
  <2> HIDE DEF w
  <2>4. [w EXCEPT !.code = n].owner = w.owner /\ [w EXCEPT !.code = n].deleting = w.deleting
    BY <2>1 DEF Pod
  <2> QED  BY <2>1, <2>2, <2>3, <2>4 DEF w
<1>4. ASSUME NEW c \in Containers, PullFails(c)
      PROVE  \E q \in Pod : /\ PodBecomes(q) /\ q.owner = pod.owner
                            /\ q.deleting = pod.deleting /\ used' = used
  BY <1>3, <1>4 DEF PullFails, ContainerState, pod
<1>5. ASSUME NEW c \in Containers, StartContainer(c)
      PROVE  \E q \in Pod : /\ PodBecomes(q) /\ q.owner = pod.owner
                            /\ q.deleting = pod.deleting /\ used' = used
  <2>1. codeVolume(pod) \in Nat
    BY <1>1 DEF codeVolume, Pod
  <2>2. "running" \in ContainerState
    BY DEF ContainerState
  <2>3. /\ PodBecomes([withStatus(pod, c, "running") EXCEPT !.code = codeVolume(pod)])
        /\ used' = used
    BY <1>5 DEF StartContainer, pod
  <2> QED  BY <1>3, <2>1, <2>2, <2>3
<1>6. ASSUME NEW c \in Containers, ExitContainer(c)
      PROVE  \E q \in Pod : /\ PodBecomes(q) /\ q.owner = pod.owner
                            /\ q.deleting = pod.deleting /\ used' = used
  <2>1. PICK e \in exits(c) : PodBecomes(withStatus(pod, c, e)) /\ used' = used
    BY <1>6 DEF ExitContainer, pod
  <2>2. e \in ContainerState
    BY <2>1, PodAssumption DEF exits, ContainerState
  <2> QED  BY <1>3, <2>1, <2>2
<1>7. CASE EvictPod
  <2> DEFINE q == [pod EXCEPT !.phase = "Failed", !.task = killed(@),
                              !.collector = killed(@)]
  <2>1. q \in Pod /\ q.owner = pod.owner /\ q.deleting = pod.deleting
    BY <1>1, PodValues DEF Pod
  <2>2. PodBecomes(q) /\ spendDrain
    BY <1>7 DEF EvictPod, pod
  <2> QED  BY <1>2, <2>1, <2>2 DEF PodSame
<1>8. CASE DrainPod
  <2> DEFINE q == [pod EXCEPT !.deleting = TRUE]
  <2>1. q \in Pod /\ q.owner = pod.owner /\ q.deleting
    BY <1>1, PodValues DEF Pod
  <2>2. PodBecomes(q) /\ spendDrain
    BY <1>8 DEF DrainPod, pod
  <2> QED  BY <1>2, <2>1, <2>2 DEF PodStopped
<1>9. CASE RemovePod
  BY <1>2, <1>9, NewPodValues DEF RemovePod, pod
<1>10. ASSUME NEW q \in Pod, PodBecomes(q), q.owner = pod.owner,
              q.deleting = pod.deleting
       PROVE  /\ \E r \in Pod : podLog' = Write(podLog, r)
              /\ UNCHANGED <<taskLog, cmLog, npLog, sandbox, lastUid, made, controlVars,
                             queued, timer, tasksTotal, now>>
              /\ PodSame
  BY <1>2, <1>10 DEF PodSame
<1> QED
  BY <1>4, <1>5, <1>6, <1>7, <1>8, <1>9, <1>10 DEF Kubelet

\* What any step does to the stored pod, and to the counters of pods and faults.
LEMMA PodStep ==
    ASSUME HInv, [Next]_vars
    PROVE  /\ \/ PodSame
              \/ PodStopped /\ MayStop
              \/ pod.deleting /\ pod' = NoPod /\ UNCHANGED <<controlVars, taskLog, made>>
              \/ PodCreated
           /\ used.drains \in Nat /\ used'.drains \in {used.drains, used.drains + 1}
           /\ used.faults \in Nat /\ used'.faults \in {used.faults, used.faults + 1}
           /\ used.edits \in Nat /\ used'.edits \in {used.edits, used.edits + 1}
           /\ \/ made' = made /\ lastUid' = lastUid
              \/ made' = 0 /\ task' = NewTask(lastUid + 1, task'.spec)
              \/ PodCreated
<1>1. /\ pod \in Pod /\ podLog \in Seq(Pod) /\ podLog # <<>> /\ TypeOK
      /\ obj.uid \in Nat /\ taskLog \in Seq(AgentTask) /\ taskLog # <<>>
  BY HTypes DEF AgentTask
<1>2. used \in [edits : Nat, faults : Nat, drains : Nat]
  BY <1>1 DEF TypeOK, MeterTypes
<1>3. used.drains \in Nat /\ used.faults \in Nat /\ used.edits \in Nat
  BY <1>2
<1> DEFINE Kept  == made' = made /\ lastUid' = lastUid
           Spent == /\ used'.drains \in {used.drains, used.drains + 1}
                    /\ used'.faults \in {used.faults, used.faults + 1}
                    /\ used'.edits \in {used.edits, used.edits + 1}
<1>4. used' = used => Spent
  OBVIOUS
<1>5. podLog' = podLog => PodSame
  BY DEF PodSame, pod
<1>6. used' = [used EXCEPT !.faults = @ + 1] => Spent
  BY <1>2
<1>7. spendDrain => Spent /\ used'.drains = used.drains + 1
  BY <1>2 DEF spendDrain
<1> HIDE DEF Spent
<1>8. ASSUME \/ ReconcileGone \/ AddFinalizer \/ ReconcileDeleted \/ InitializePhase
             \/ IgnoreCancel \/ ReconcileCanceled \/ ReconcileTimeout
             \/ ReconcilePending \/ AwaitPod \/ ScheduledToRunning
             \/ ScheduledImagePullFailed \/ PodMissing \/ PodSucceeded \/ PodFailed
             \/ FinishedWait
      PROVE  PodSame /\ Spent /\ Kept
  <2>1. podLog' = podLog /\ used' = used /\ Kept
    BY <1>8
    DEF ReconcileGone, AddFinalizer, ReconcileDeleted, InitializePhase, IgnoreCancel,
        ReconcileCanceled, ReconcileTimeout, ReconcilePending, AwaitPod,
        ScheduledToRunning, ScheduledImagePullFailed, PodMissing, PodSucceeded,
        PodFailed, FinishedWait, objectVars
  <2> QED  BY <1>4, <1>5, <2>1
<1>9. ASSUME \/ FinishedExpired \/ UpdateTask \/ UpdateStatus \/ EnsureCodeConfigMap
             \/ EnsureNetworkPolicy
      PROVE  PodSame /\ Spent /\ Kept
  BY <1>4, <1>5, <1>9 DEF FinishedExpired, UpdateTask, UpdateStatus,
                          EnsureCodeConfigMap, EnsureNetworkPolicy
<1>10. ASSUME DeleteFinishedPod  PROVE PodStopped /\ MayStop /\ Spent /\ Kept
  <2>1. deleteStoredPod /\ pc = "deletePod" /\ pc' = "idle" /\ used' = used /\ Kept
    BY <1>10 DEF DeleteFinishedPod, Return
  <2> QED  BY <1>1, <1>4, <2>1, DeleteEffect DEF MayStop
<1>11. ASSUME FinalizeAgentTask
       PROVE  (PodSame \/ (PodStopped /\ MayStop)) /\ Spent /\ Kept
  <2>1. /\ deleteStoredPod \/ podLog' = podLog
        /\ pc = "finalize" /\ pc' = "update" /\ used' = used /\ Kept
    BY <1>11 DEF FinalizeAgentTask
  <2> QED  BY <1>1, <1>4, <1>5, <2>1, DeleteEffect DEF MayStop
<1>12. ASSUME CancelPod
       PROVE  (PodSame \/ (PodStopped /\ MayStop)) /\ Spent /\ Kept
  <2>1. /\ (podFound(obj) /\ deleteStoredPod) \/ podLog' = podLog
        /\ pc = "cancelPod" /\ pc' = "status" /\ used' = used /\ Kept
    BY <1>12 DEF CancelPod
  <2>2. podFound(obj) => obj.podRef # ""
    BY DEF podFound
  <2> QED  BY <1>1, <1>4, <1>5, <2>1, <2>2, DeleteEffect DEF MayStop
<1>13. ASSUME TimeoutPod
       PROVE  (PodSame \/ (PodStopped /\ MayStop)) /\ Spent /\ Kept
  <2>1. /\ (podFound(obj) /\ deleteStoredPod) \/ podLog' = podLog
        /\ pc = "timeoutPod" /\ pc' \in {"status", "idle"} /\ Kept
        /\ used' = used \/ used' = [used EXCEPT !.faults = @ + 1]
    BY <1>13 DEF TimeoutPod, Return, ReturnRequeue
  <2>2. podFound(obj) => obj.podRef # ""
    BY DEF podFound
  <2> QED  BY <1>1, <1>4, <1>5, <1>6, <2>1, <2>2, DeleteEffect DEF MayStop
<1>14. ASSUME Dispatch
       PROVE  ((PodSame /\ Kept) \/ PodCreated) /\ Spent
  <2>1. \E n \in {used.faults, used.faults + 1} : used' = [used EXCEPT !.faults = n]
    BY <1>14 DEF Dispatch
  <2>2. Spent
    BY <1>2, <2>1 DEF Spent
  <2>3. UNCHANGED <<taskLog, lastUid>> /\ pc = "dispatch"
    BY <1>14 DEF Dispatch
  <2>4. CASE podLog' = podLog /\ made' = made
    BY <1>5, <2>2, <2>3, <2>4
  <2>5. ASSUME NEW m \in {"own", "ref"}, pod.owner = 0, pc' = "status",
               podLog' = Write(podLog, NewPod(obj.uid, m)),
               made' = IF obj.uid = lastUid THEN made + 1 ELSE made
        PROVE  PodCreated
    <3>1. NewPod(obj.uid, m) \in Pod
      BY <1>1, NewPodValues
    <3>2. pod' = NewPod(obj.uid, m)
      BY <1>1, <2>5, <3>1, LogWrite DEF pod
    <3> QED  BY <2>3, <2>5, <3>2 DEF PodCreated, NewPod
  <2>6. \/ EnsureSandbox \/ EnsurePod
        \/ UNCHANGED <<podLog, sandbox, made>>
    BY <1>14 DEF Dispatch
  <2>7. \/ podLog' = podLog /\ made' = made
        \/ \E m \in {"own", "ref"} :
             /\ pod.owner = 0 /\ pc' = "status"
             /\ podLog' = Write(podLog, NewPod(obj.uid, m))
             /\ made' = IF obj.uid = lastUid THEN made + 1 ELSE made
    BY <2>6 DEF EnsureSandbox, EnsurePod, ThenStatus, podNameFree, pod
  <2> QED  BY <2>2, <2>4, <2>5, <2>7
<1>15. ASSUME Fault  PROVE PodSame /\ Spent /\ Kept
  <2>1. pod' = pod /\ used' = [used EXCEPT !.faults = @ + 1] /\ Kept
    BY <1>1, <1>15, LogDeliver DEF Fault, CallFails, Crash, objectVars, pod
  <2> QED  BY <1>6, <2>1 DEF PodSame
<1>16. ASSUME DeliverPod  PROVE PodSame /\ Spent /\ Kept
  <2>1. pod' = pod /\ used' = used /\ Kept
    BY <1>1, <1>16, LogDeliver DEF DeliverPod, pod
  <2> QED  BY <1>4, <2>1 DEF PodSame
<1>17. ASSUME DeliverTask \/ DeliverOwned \/ TimerFires \/ Resync \/ Tick \/ UNCHANGED vars
       PROVE  PodSame /\ Spent /\ Kept
  BY <1>4, <1>5, <1>17
  DEF DeliverTask, DeliverOwned, TimerFires, Resync, Tick, vars, objectVars
<1>18. ASSUME Kubelet
       PROVE  /\ \/ PodSame \/ (PodStopped /\ MayStop)
                 \/ /\ pod.deleting /\ pod' = NoPod
                    /\ UNCHANGED <<controlVars, taskLog, made>>
              /\ Spent /\ Kept
  BY <1>1, <1>4, <1>7, <1>18, KubeletWrites DEF MayStop
<1>19. ASSUME CollectGarbage
       PROVE  (PodSame \/ (PodStopped /\ MayStop)) /\ Spent /\ Kept
  <2>1. UNCHANGED <<taskLog, lastUid, made, controlVars, used>>
    BY <1>19 DEF CollectGarbage
  <2>2. \/ podLog' = podLog
        \/ /\ orphan(pod.owner)
           /\ podLog' = Write(podLog, [pod EXCEPT !.deleting = TRUE])
    BY <1>19 DEF CollectGarbage, pod
  <2>3. podLog' = Write(podLog, [pod EXCEPT !.deleting = TRUE]) => PodStopped
    <3>1. [pod EXCEPT !.deleting = TRUE] \in Pod
      BY <1>1, PodValues
    <3>2. ASSUME podLog' = Write(podLog, [pod EXCEPT !.deleting = TRUE])
          PROVE  pod' = [pod EXCEPT !.deleting = TRUE]
      BY <1>1, <3>1, <3>2, LogWrite DEF pod
    <3> QED  BY <1>1, <3>2 DEF PodStopped, Pod
  <2> QED  BY <1>4, <1>5, <2>1, <2>2, <2>3 DEF MayStop
<1>20. ASSUME User
       PROVE  PodSame /\ Spent
              /\ (Kept \/ (made' = 0 /\ task' = NewTask(lastUid + 1, task'.spec)))
  <2>1. podLog' = podLog
    BY <1>20 DEF User, CreateTask, UpdateSpec, DeleteTask, userVars
  <2>2. ASSUME NEW s \in Specs, CreateTask(s)
        PROVE  /\ Spent /\ made' = 0 /\ task' = NewTask(lastUid + 1, task'.spec)
    <3>1. NewTask(lastUid + 1, s) \in AgentTask /\ NewTask(lastUid + 1, s).spec = s
      <4>1. lastUid + 1 \in Nat /\ s \in AgentTaskSpec
        BY HTypes, SpecsAssumption
      <4> QED  BY <4>1, NewTaskValues, OthersConsistent
    <3>2. taskLog' = Write(taskLog, NewTask(lastUid + 1, s)) /\ made' = 0 /\ used' = used
      BY <2>2 DEF CreateTask
    <3>3. task' = NewTask(lastUid + 1, s)
      BY <1>1, <3>1, <3>2, LogWrite DEF task
    <3> QED  BY <1>4, <3>1, <3>2, <3>3
  <2>3. ASSUME NEW s \in Specs, UpdateSpec(s)  PROVE Spent /\ Kept
    <3>1. used' = [used EXCEPT !.edits = @ + 1] /\ Kept
      BY <2>3 DEF UpdateSpec
    <3>2. Spent
      BY <1>2, <3>1 DEF Spent
    <3> QED  BY <3>1, <3>2
  <2>4. ASSUME DeleteTask  PROVE Spent /\ Kept
    BY <1>4, <2>4 DEF DeleteTask
  <2> QED  BY <1>5, <1>20, <2>1, <2>2, <2>3, <2>4 DEF User
<1>21. \/ PodSame /\ Spent /\ Kept
       \/ PodStopped /\ MayStop /\ Spent /\ Kept
       \/ /\ pod.deleting /\ pod' = NoPod /\ UNCHANGED <<controlVars, taskLog, made>>
          /\ Spent /\ Kept
       \/ PodCreated /\ Spent
       \/ PodSame /\ Spent /\ made' = 0 /\ task' = NewTask(lastUid + 1, task'.spec)
  BY <1>8, <1>9, <1>10, <1>11, <1>12, <1>13, <1>14, <1>15, <1>16, <1>17, <1>18,
     <1>19, <1>20
  DEF Next, ReconcileStep, WakeUp, Environment
<1> QED  BY <1>3, <1>21 DEF Spent

(* ------------------------ Where a reconcile comes from --------------------- *)

\* How a step may arrive at the points of a reconcile that matter to the pod.
LEMMA ControlStep ==
    ASSUME HInv, [Next]_vars
    PROVE  /\ pc' \in Creating =>
                \/ pc \in Creating
                \/ InPhase(Cached(taskLog), {"Pending"}) /\ taskLog' = taskLog
           /\ pc' = "finalize" =>
                \/ pc = "finalize" /\ obj' = obj
                \/ obj' = Cached(taskLog) /\ obj'.uid # 0
           /\ pc = "deletePod" =>
                pc' = "deletePod" \/ used'.faults = used.faults + 1 \/ PodStopped
<1>1. /\ podLog \in Seq(Pod) /\ podLog # <<>> /\ TypeOK /\ Held
      /\ used \in [edits : Nat, faults : Nat, drains : Nat]
  BY HTypes DEF TypeOK, MeterTypes
<1>2. CASE UNCHANGED <<pc, obj>>
  BY <1>2
<1>3. CASE pc # "deletePod" /\ pc' \notin Creating \cup {"finalize"}
  BY <1>3
<1>4. CASE ReconcilePending
  BY <1>4 DEF ReconcilePending, Hold, Dequeue, objectVars, Creating
<1>5. CASE ReconcileDeleted
  BY <1>5 DEF ReconcileDeleted, Hold, Dequeue, Creating
<1>6. ASSUME \/ ReconcileGone \/ AddFinalizer \/ InitializePhase
             \/ IgnoreCancel \/ ReconcileCanceled \/ ReconcileTimeout
             \/ AwaitPod \/ ScheduledToRunning
             \/ ScheduledImagePullFailed \/ PodMissing \/ PodSucceeded \/ PodFailed
             \/ FinishedWait \/ FinishedExpired
      PROVE  UNCHANGED <<pc, obj>> \/ (pc = "idle" /\ pc' \notin Creating \cup {"finalize"})
  BY <1>6
  DEF ReconcileGone, AddFinalizer, InitializePhase, IgnoreCancel, ReconcileCanceled,
      ReconcileTimeout, AwaitPod, ScheduledToRunning, ScheduledImagePullFailed,
      PodMissing, PodSucceeded, PodFailed, FinishedWait, FinishedExpired,
      Hold, HoldStatus, Dequeue, Creating, controlVars
<1>7. ASSUME UpdateTask \/ UpdateStatus \/ FinalizeAgentTask \/ CancelPod \/ TimeoutPod
      PROVE  pc # "deletePod" /\ pc' \notin Creating \cup {"finalize"}
  BY <1>7
  DEF UpdateTask, UpdateStatus, FinalizeAgentTask, CancelPod, TimeoutPod, Return,
      ReturnRequeue, Creating
<1>8. ASSUME Dispatch
      PROVE  pc # "deletePod" /\ pc' \notin Creating \cup {"finalize"}
  BY <1>8
  DEF Dispatch, EnsureSandbox, EnsurePod, ThenStatus, Return, ReturnRequeue, Creating
<1>9. CASE EnsureCodeConfigMap \/ EnsureNetworkPolicy
  BY <1>9 DEF EnsureCodeConfigMap, EnsureNetworkPolicy, Return, ReturnRequeue, Creating
<1>10. CASE DeleteFinishedPod
  BY <1>1, <1>10, DeleteEffect DEF DeleteFinishedPod, Return, Creating
<1>11. CASE Fault
  <2>1. used' = [used EXCEPT !.faults = @ + 1] /\ pc' = "idle"
    BY <1>11 DEF Fault, CallFails, Crash, Return, ReturnRequeue
  <2> QED  BY <1>1, <2>1 DEF Creating
<1>12. ASSUME \/ DeliverTask \/ DeliverPod \/ DeliverOwned \/ TimerFires \/ Resync
              \/ Kubelet \/ CollectGarbage \/ Tick \/ User \/ UNCHANGED vars
       PROVE  UNCHANGED <<pc, obj>>
  BY <1>12
  DEF DeliverTask, DeliverPod, DeliverOwned, TimerFires, Resync, Kubelet, PullFails,
      StartContainer, ExitContainer, EvictPod, DrainPod, RemovePod, PodBecomes,
      CollectGarbage, Tick, User, CreateTask, UpdateSpec, DeleteTask, userVars, vars,
      controlVars
<1> QED
  BY <1>2, <1>3, <1>4, <1>5, <1>6, <1>7, <1>8, <1>9, <1>10, <1>11, <1>12
  DEF Next, ReconcileStep, WakeUp, Environment

\* The status of two versions of a task is the same.
SameStatus(a, b) ==
    /\ b.uid = a.uid /\ b.phase = a.phase /\ b.podRef = a.podRef
    /\ b.result = a.result /\ b.exitCode = a.exitCode /\ b.reason = a.reason
    /\ b.startTime = a.startTime /\ b.completionTime = a.completionTime

\* The status update of an up-to-date reconcile, and what follows it.
StatusWritten ==
    /\ UpdateStatus /\ fresh /\ task' = obj
    /\ Lifecycle!MayAdvance(task, obj) /\ Consistent(obj)
    /\ after = "deletePod" => pc' = "deletePod" /\ obj' = obj

\* Nothing else changes the status of a stored task, and only users its spec;
\* tasks come and go.
LEMMA StatusStep ==
    ASSUME HInv, [Next]_vars
    PROVE  \/ /\ SameStatus(task, task') /\ lastUid' = lastUid
              /\ task'.spec = task.spec \/ used'.edits = used.edits + 1
           \/ task' = NoTask /\ lastUid' = lastUid
           \/ task' = NewTask(lastUid + 1, task'.spec) /\ lastUid' = lastUid + 1
           \/ StatusWritten /\ lastUid' = lastUid
<1>1. /\ task \in AgentTask /\ obj \in AgentTask /\ NoTask \in AgentTask /\ Held
      /\ taskLog \in Seq(AgentTask) /\ taskLog # <<>> /\ TypeOK /\ fresh \in BOOLEAN
      /\ deletedTask(task) \in AgentTask /\ lastUid \in Nat
  BY HTypes, NewTaskValues, TaskValues
<1>2. \A v \in AgentTask : taskLog' = Write(taskLog, v) => task' = v
  BY <1>1, LogWrite DEF task
<1>3. task' = task => SameStatus(task, task') /\ task'.spec = task.spec
  BY DEF SameStatus
<1>4. \/ deletedTask(task) = NoTask
      \/ SameStatus(task, deletedTask(task)) /\ deletedTask(task).spec = task.spec
  BY <1>1 DEF deletedTask, SameStatus, AgentTask
<1>5. CASE FinishedExpired \/ DeleteTask
  <2>1. taskLog' = Write(taskLog, deletedTask(task)) /\ lastUid' = lastUid
    BY <1>5 DEF FinishedExpired, DeleteTask, task
  <2> QED  BY <1>1, <1>2, <1>4, <2>1
<1>6. ASSUME NEW s \in Specs, UpdateSpec(s)
      PROVE  /\ SameStatus(task, task') /\ lastUid' = lastUid
             /\ used'.edits = used.edits + 1
  <2>1. [task EXCEPT !.spec = s] \in AgentTask
    BY <1>1, SpecsAssumption, TaskValues
  <2>2. SameStatus(task, [task EXCEPT !.spec = s])
    BY <1>1 DEF SameStatus, AgentTask
  <2>3. /\ taskLog' = Write(taskLog, [task EXCEPT !.spec = s]) /\ lastUid' = lastUid
        /\ used' = [used EXCEPT !.edits = @ + 1]
    BY <1>6 DEF UpdateSpec, task
  <2>4. used'.edits = used.edits + 1
    BY <1>1, <2>3 DEF TypeOK, MeterTypes
  <2> QED  BY <1>2, <2>1, <2>2, <2>3, <2>4
<1>7. ASSUME NEW s \in Specs, CreateTask(s)
      PROVE  task' = NewTask(lastUid + 1, task'.spec) /\ lastUid' = lastUid + 1
  <2>1. lastUid + 1 \in Nat /\ s \in AgentTaskSpec
    BY <1>1, SpecsAssumption
  <2>2. NewTask(lastUid + 1, s) \in AgentTask /\ NewTask(lastUid + 1, s).spec = s
    BY <2>1, NewTaskValues, OthersConsistent
  <2>3. taskLog' = Write(taskLog, NewTask(lastUid + 1, s)) /\ lastUid' = lastUid + 1
    BY <1>7 DEF CreateTask
  <2> QED  BY <1>2, <2>2, <2>3
<1>8. CASE UpdateTask
  <2>1. lastUid' = lastUid
    BY <1>8 DEF UpdateTask
  <2>2. CASE taskLog' = taskLog
    BY <1>3, <2>1, <2>2 DEF task
  <2>3. CASE /\ fresh /\ pc = "update"
             /\ taskLog' = Write(taskLog, IF obj.deleting /\ ~obj.finalizer
                                          THEN NoTask ELSE obj)
    <3>1. \/ obj = [task EXCEPT !.finalizer = TRUE]
          \/ obj = [task EXCEPT !.finalizer = FALSE]
      BY <1>1, <2>3 DEF Held
    <3>2. SameStatus(task, obj) /\ obj.spec = task.spec
      BY <1>1, <3>1 DEF SameStatus, AgentTask
    <3>3. task' = NoTask \/ task' = obj
      BY <1>1, <1>2, <2>3
    <3> QED  BY <2>1, <3>2, <3>3
  <2> QED  BY <1>8, <2>2, <2>3 DEF UpdateTask, upToDate
<1>9. CASE UpdateStatus
  <2>1. lastUid' = lastUid
    BY <1>9 DEF UpdateStatus
  <2>2. CASE ~fresh
    BY <1>3, <1>9, <2>1, <2>2 DEF UpdateStatus, upToDate, task
  <2>3. CASE fresh
    <3>1. /\ pc = "status" /\ taskLog' = Write(taskLog, obj)
          /\ after = "deletePod" => pc' = "deletePod" /\ obj' = obj
      BY <1>9, <2>3 DEF UpdateStatus, upToDate
    <3>2. Lifecycle!MayAdvance(task, obj) /\ Consistent(obj)
      BY <1>1, <2>3, <3>1 DEF Held
    <3> QED  BY <1>1, <1>2, <1>9, <2>1, <2>3, <3>1, <3>2 DEF StatusWritten
  <2> QED  BY <2>2, <2>3
<1>10. ASSUME \/ ReconcileGone \/ AddFinalizer \/ ReconcileDeleted \/ InitializePhase
              \/ IgnoreCancel \/ ReconcileCanceled \/ ReconcileTimeout
              \/ ReconcilePending \/ AwaitPod \/ ScheduledToRunning
              \/ ScheduledImagePullFailed \/ PodMissing \/ PodSucceeded \/ PodFailed
              \/ FinishedWait
       PROVE  task' = task /\ lastUid' = lastUid
  BY <1>1, <1>10, StartEffects DEF task
<1>11. ASSUME \/ DeleteFinishedPod \/ FinalizeAgentTask \/ CancelPod \/ TimeoutPod
              \/ EnsureCodeConfigMap \/ EnsureNetworkPolicy \/ Dispatch
       PROVE  task' = task /\ lastUid' = lastUid
  BY <1>11, BetweenEffects DEF task
<1>12. ASSUME Fault \/ DeliverTask  PROVE task' = task /\ lastUid' = lastUid
  BY <1>1, <1>12, LogDeliver
  DEF Fault, CallFails, Crash, DeliverTask, objectVars, task
<1>13. ASSUME \/ DeliverPod \/ DeliverOwned \/ TimerFires \/ Resync
              \/ Kubelet \/ CollectGarbage \/ Tick \/ UNCHANGED vars
       PROVE  task' = task /\ lastUid' = lastUid
  BY <1>13
  DEF DeliverPod, DeliverOwned, TimerFires, Resync, Kubelet, PullFails,
      StartContainer, ExitContainer, EvictPod, DrainPod, RemovePod, PodBecomes,
      CollectGarbage, Tick, vars, objectVars, task
<1> QED
  BY <1>3, <1>5, <1>6, <1>7, <1>8, <1>9, <1>10, <1>11, <1>12, <1>13
  DEF Next, ReconcileStep, WakeUp, Environment, User

\* Deletion is final.
LEMMA DeletingKept ==
    ASSUME HInv, [Next]_vars, task.deleting, task'.uid = task.uid
    PROVE  task'.deleting
<1>1. /\ IInv /\ Sound(task) /\ LifecycleStep /\ lastUid \in Nat /\ task \in AgentTask
      /\ task.uid \in {0, lastUid} /\ Later(task, task)
  BY HTypes, Versions, InvariantStep DEF Later
<1>2. NoTask.deleting = FALSE
  BY DEF NoTask, NewTask
<1>3. task.uid # 0 /\ task.uid <= lastUid
  BY <1>1, <1>2 DEF Sound
<1>4. Later(task, task')
  BY <1>1, <1>3, LaterStep
<1> QED  BY <1>4 DEF Later

(* --------------------------------- One pod --------------------------------- *)

\* A reconcile may still come to create a pod for the newest task.
CanCreate ==
    \/ pc \in Creating
    \/ \E i \in 1..Len(taskLog) : /\ taskLog[i].uid = lastUid
                                  /\ taskLog[i].phase = "Pending"
                                  /\ ~taskLog[i].deleting

\* A pod that the operator has created for the newest task, and that nobody else
\* deleted, is in the way of another one for as long as somebody might create it;
\* the versions that the cache may still show are of that task or of none.
PodOnce ==
    /\ OnePod
    /\ made > used.drains /\ CanCreate => pod.owner = lastUid /\ ~pod.deleting
    /\ made > 0 => \A i \in 1..Len(taskLog) :
                     taskLog[i].uid # 0 => taskLog[i].uid = lastUid /\ taskLog[i].phase # ""
    /\ made > 0 /\ pc = "finalize" => obj.uid = lastUid

\* Once a pod was created, the task does not become Pending again, so that only a
\* reconcile that could create a pod before the step can do so after it.
LEMMA CanCreateKept ==
    ASSUME HInv, [Next]_vars, PodOnce, made > 0, lastUid' = lastUid, CanCreate'
    PROVE  CanCreate
<1>1. /\ taskLog \in Seq(AgentTask) /\ taskLog # <<>> /\ task.uid \in {0, lastUid}
      /\ task \in AgentTask /\ lastUid \in Nat
  BY HTypes
<1>2. Len(taskLog) \in 1..Len(taskLog) /\ task = taskLog[Len(taskLog)]
  BY Versions
<1>3. CASE pc' \in Creating
  <2>1. CASE InPhase(Cached(taskLog), {"Pending"})
    <3>1. task.uid = Cached(taskLog).uid /\ Cached(taskLog).uid # 0
          /\ Cached(taskLog).phase = "Pending" /\ ~Cached(taskLog).deleting
      BY <2>1, CachedOwn DEF InPhase, Initialized
    <3>2. 1 \in 1..Len(taskLog) /\ Cached(taskLog) = taskLog[1]
      BY Versions
    <3> QED  BY <1>1, <3>1, <3>2 DEF CanCreate
  <2> QED  BY <1>3, <2>1, ControlStep DEF CanCreate
<1>4. ASSUME NEW i \in 1..Len(taskLog'), taskLog'[i].uid = lastUid,
             taskLog'[i].phase = "Pending", ~taskLog'[i].deleting
      PROVE  CanCreate
  <2>1. taskLog' \in Seq(AgentTask)
    BY HistoryNext, HTypes DEF HInv, IInv, TypeOK, ObjectTypes
  <2>2. i \in i..Len(taskLog')
    BY <2>1
  <2>3. TaskLogMoves
    BY StepEffects
  <2>4. taskLog'[i] = task' \/ \E k \in 1..Len(taskLog) : taskLog'[i] = taskLog[k]
    BY <1>1, <2>2, <2>3, MovesVersions
  <2>5. CASE taskLog'[i] = task'
    <3>1. task'.uid = lastUid /\ task'.phase = "Pending" /\ ~task'.deleting
      BY <1>4, <2>5
    <3>2. NoTask.phase = "" /\ \A u, s : NewTask(u, s).phase = ""
      BY DEF NoTask, NewTask
    <3>3. CASE SameStatus(task, task')
      <4>1. task.uid = lastUid /\ task.phase = "Pending"
        BY <3>1, <3>3 DEF SameStatus
      <4>2. ~task.deleting
        BY <3>1, <4>1, DeletingKept
      <4> QED  BY <1>2, <4>1, <4>2 DEF CanCreate
    <3>4. ~StatusWritten
      <4>1. StatusWritten => task.phase = ""
        <5>1. task.phase \in {"", "Pending", "Scheduled", "Running", "Succeeded",
                              "Failed", "Timeout", "Canceled"}
          BY <1>1 DEF AgentTask, Phase, Active, Terminal
        <5> QED
          BY <3>1, <5>1, SuccessorFacts DEF StatusWritten, Lifecycle!MayAdvance
      <4>2. StatusWritten => task.uid # 0
        BY DEF StatusWritten, Lifecycle!MayAdvance
      <4> QED  BY <1>2, <4>1, <4>2 DEF PodOnce
    <3> QED  BY <3>1, <3>2, <3>3, <3>4, StatusStep
  <2> QED  BY <1>4, <2>4, <2>5 DEF CanCreate
<1> QED  BY <1>3, <1>4 DEF CanCreate

\* While a pod is in the way of another one, nobody but a drain stops it.
LEMMA PodStays ==
    ASSUME HInv, InFlight, PodOnce, made > used.drains, used.drains \in Nat,
           CanCreate, MayStop, used'.drains = used.drains
    PROVE  FALSE
<1>1. /\ lastUid \in Nat /\ task.uid \in {0, lastUid} /\ obj \in AgentTask
      /\ made \in Nat /\ task \in AgentTask
  BY HTypes
<1>2. pod.owner = lastUid
  BY DEF PodOnce
<1>3. /\ Len(taskLog) \in 1..Len(taskLog) /\ task = taskLog[Len(taskLog)]
      /\ \A i \in 1..Len(taskLog) :
           taskLog[i] \in AgentTask /\ Sound(taskLog[i]) /\ Later(taskLog[i], task)
  BY Versions
<1>4. ASSUME Read(obj), Initialized(obj)
      PROVE  task.uid = obj.uid /\ obj.uid # 0
             /\ (Past(obj) => \A i \in 1..Len(taskLog) : Past(taskLog[i]))
  BY <1>3, <1>4 DEF Read, Initialized, hasFinalizer, Later
<1>5. CASE \/ pc = "deletePod"
           \/ pc \in {"cancelPod", "timeoutPod"} /\ obj.podRef # ""
  <2>1. Read(obj) /\ Initialized(obj) /\ Past(obj) /\ pc \notin Creating
    BY <1>5 DEF InFlight, EndsPod, Creating
  <2>2. \A i \in 1..Len(taskLog) : taskLog[i].phase # "Pending"
    BY <1>4, <2>1 DEF Past
  <2> QED  BY <2>1, <2>2 DEF CanCreate
<1>6. CASE pc = "finalize"
  <2>1. Read(obj) /\ obj.deleting /\ pc \notin Creating /\ obj.uid = lastUid
    <3>1. made > 0
      BY <1>1
    <3> QED  BY <1>6, <3>1 DEF InFlight, PodOnce, Creating
  <2>2. \A i \in 1..Len(taskLog) : taskLog[i].uid = lastUid => taskLog[i].deleting
    BY <2>1 DEF Read, Later
  <2> QED  BY <2>1, <2>2 DEF CanCreate
<1>7. CASE orphan(pod.owner)
  <2>1. task.uid = 0 /\ lastUid # 0
    BY <1>1, <1>2, <1>7 DEF orphan, task
  <2>2. pc \notin Creating
    BY <1>4, <2>1 DEF InFlight, Creating
  <2>3. PICK i \in 1..Len(taskLog) : /\ taskLog[i].uid = lastUid
                                     /\ taskLog[i].phase = "Pending"
                                     /\ ~taskLog[i].deleting
    BY <2>2 DEF CanCreate
  <2>4. taskLog[i].finalizer
    BY <1>3, <2>3 DEF Sound, Consistent
  <2> QED  BY <1>3, <2>1, <2>3, <2>4 DEF Later
<1>8. used'.drains # used.drains + 1
  OBVIOUS
<1> QED  BY <1>5, <1>6, <1>7, <1>8 DEF MayStop

\* Every step keeps PodOnce.
LEMMA PodOnceStep ==
    ASSUME HInv, InFlight, PodOnce, [Next]_vars
    PROVE  PodOnce'
<1>1. /\ lastUid \in Nat /\ made \in Nat /\ task.uid \in {0, lastUid}
      /\ taskLog \in Seq(AgentTask) /\ taskLog # <<>>
      /\ used.drains \in Nat /\ used'.drains \in {used.drains, used.drains + 1}
  BY HTypes, PodStep
<1>2. /\ Len(taskLog) \in 1..Len(taskLog) /\ task = taskLog[Len(taskLog)]
      /\ 1 \in 1..Len(taskLog) /\ Cached(taskLog) = taskLog[1]
  BY Versions
<1>3. made <= 1 + used.drains
  BY DEF PodOnce, OnePod
<1>4. CASE made' = 0
  <2>1. used'.drains \in Nat
    BY <1>1
  <2>2. ~(made' > used'.drains) /\ ~(made' > 0) /\ made' <= 1 + used'.drains
    BY <1>4, <2>1
  <2> QED  BY <2>2, Zenon DEF PodOnce, OnePod
<1>5. CASE PodCreated
  <2>1. pc \in Creating /\ CanCreate
    BY <1>5 DEF PodCreated, Creating, CanCreate
  <2>2. Read(obj) /\ Initialized(obj) /\ obj.phase = "Pending"
    BY <2>1 DEF InFlight
  <2>3. \A i \in 1..Len(taskLog) : taskLog[i].uid = obj.uid /\ taskLog[i].phase # ""
    BY <2>2 DEF Read, Initialized, hasFinalizer, Later
  <2>4. obj.uid = lastUid /\ lastUid # 0
    BY <1>1, <1>2, <2>2, <2>3 DEF Initialized
  <2>5. ~(made > used.drains)
    BY <1>5, <2>1, <2>4 DEF PodOnce, PodCreated
  <2>6. /\ made' = made + 1 /\ taskLog' = taskLog /\ lastUid' = lastUid
        /\ pod'.owner = lastUid' /\ ~pod'.deleting /\ pc' # "finalize"
    BY <1>5, <2>4 DEF PodCreated
  <2>7. made' <= 1 + used'.drains
    BY <1>1, <2>5, <2>6
  <2> QED  BY <2>3, <2>4, <2>6, <2>7 DEF PodOnce, OnePod
<1>6. CASE made' = made /\ lastUid' = lastUid /\ ~PodCreated /\ made' # 0
  <2>0. made > 0
    BY <1>1, <1>6
  <2>1. OnePod'
    BY <1>1, <1>3, <1>6 DEF OnePod
  <2>2. ASSUME made > used'.drains, CanCreate'
        PROVE  pod'.owner = lastUid /\ ~pod'.deleting
    <3>1. used'.drains = used.drains /\ made > used.drains
      BY <1>1, <1>3, <2>2
    <3>2. CanCreate
      BY <1>6, <2>0, <2>2, CanCreateKept
    <3>3. pod.owner = lastUid /\ ~pod.deleting
      BY <3>1, <3>2 DEF PodOnce
    <3>4. ~MayStop
      BY <1>1, <3>1, <3>2, PodStays
    <3>5. PodSame
      BY <1>6, <3>3, <3>4, PodStep
    <3> QED  BY <3>3, <3>5 DEF PodSame
  <2>3. ASSUME NEW i \in 1..Len(taskLog'), taskLog'[i].uid # 0
        PROVE  taskLog'[i].uid = lastUid /\ taskLog'[i].phase # ""
    <3>1. taskLog' \in Seq(AgentTask)
      BY HistoryNext, HTypes DEF HInv, IInv, TypeOK, ObjectTypes
    <3>2. i \in i..Len(taskLog')
      BY <3>1
    <3>3. TaskLogMoves
      BY StepEffects
    <3>4. taskLog'[i] = task' \/ \E k \in 1..Len(taskLog) : taskLog'[i] = taskLog[k]
      BY <1>1, <3>2, <3>3, MovesVersions
    <3>5. CASE taskLog'[i] = task'
      <4>1. NoTask.uid = 0
        BY DEF NoTask, NewTask
      <4>2. CASE SameStatus(task, task')
        BY <1>2, <2>0, <2>3, <3>5, <4>2 DEF SameStatus, PodOnce
      <4>3. CASE StatusWritten
        <5>1. task'.uid = task.uid /\ task.uid # 0
              /\ task'.phase \in Lifecycle!Successors[task.phase]
          BY <4>3 DEF StatusWritten, Lifecycle!MayAdvance
        <5>2. task.phase \in {"", "Pending", "Scheduled", "Running", "Succeeded",
                              "Failed", "Timeout", "Canceled"}
          BY HTypes DEF AgentTask, Phase, Active, Terminal
        <5>3. task'.phase # ""
          BY <5>1, <5>2, SuccessorFacts
        <5> QED  BY <1>1, <3>5, <5>1, <5>3
      <4>4. lastUid' # lastUid + 1
        BY <1>1, <1>6
      <4> QED  BY <2>3, <3>5, <4>1, <4>2, <4>3, <4>4, StatusStep
    <3> QED  BY <2>0, <2>3, <3>4, <3>5 DEF PodOnce
  <2>4. ASSUME pc' = "finalize"  PROVE obj'.uid = lastUid
    BY <1>2, <2>0, <2>4, ControlStep DEF PodOnce
  <2> QED  BY <1>6, <2>1, <2>2, <2>3, <2>4 DEF PodOnce
<1> QED  BY <1>4, <1>5, <1>6, PodStep

\* At most one pod is created for a task, plus one for each that somebody else
\* deleted, whatever the caches show and however often Reconcile fails, restarts
\* or is refused between creating the pod and recording it.
THEOREM OnePodCorrect == Spec => []OnePod
<1> DEFINE P == HInv /\ InFlight /\ PodOnce
<1>1. Init => P
  <2> SUFFICES ASSUME Init PROVE P
    OBVIOUS
  <2>1. made = 0 /\ used.drains = 0 /\ pc = "idle" /\ after = "done"
    BY DEF Init
  <2> QED  BY <2>1, HistoryInit DEF PodOnce, OnePod, InFlight, EndsPod, Creating
<1>2. P /\ [Next]_vars => P'
  BY HistoryNext, InFlightStep, PodOnceStep
<1>3. P => OnePod
  BY DEF PodOnce
<1> QED  BY <1>1, <1>2, <1>3, PTL DEF Spec
================================================================================
