----------------------------- MODULE LateCallsProofs -----------------------------
(***************************************************************************)
(* A call of the previous leader does no harm to the stored task, however  *)
(* late the API server serves it, for every value of the constants.        *)
(***************************************************************************)
EXTENDS LateCalls, TaskHistoryProofs

LateTypes ==
    late \in [at : ControlPoints \cup {"expire"}, obj : AgentTask, fresh : BOOLEAN]

\* The inductive invariant of the operator alone, and the same for the late call.
LateInv == IInv /\ LateTypes /\ LateHeld

\* No step turns the clock back.
LEMMA ClockStep ==
    ASSUME [Next]_vars
    PROVE  now' \in {now, now + 1}
<1>1. CASE ReconcileStep
  BY <1>1
  DEF ReconcileStep, ReconcileGone, AddFinalizer, ReconcileDeleted, InitializePhase,
      IgnoreCancel, ReconcileCanceled, ReconcileTimeout, ReconcilePending, AwaitPod,
      ScheduledToRunning, ScheduledImagePullFailed, PodMissing, PodSucceeded,
      PodFailed, FinishedWait, FinishedExpired, UpdateTask, UpdateStatus,
      DeleteFinishedPod, FinalizeAgentTask, CancelPod, TimeoutPod,
      EnsureCodeConfigMap, EnsureNetworkPolicy, Dispatch
<1>2. CASE WakeUp \/ Resync \/ Fault
  BY <1>2 DEF WakeUp, DeliverTask, DeliverPod, DeliverOwned, TimerFires, Resync,
              Fault, CallFails, Crash
<1>3. CASE Environment
  BY <1>3 DEF Environment, User, CreateTask, UpdateSpec, DeleteTask, userVars,
              Kubelet, PullFails, StartContainer, ExitContainer, EvictPod, DrainPod,
              RemovePod, PodBecomes, CollectGarbage, Tick
<1>4. CASE UNCHANGED vars
  BY <1>4 DEF vars
<1> QED  BY <1>1, <1>2, <1>3, <1>4 DEF Next

\* While nobody writes the task, what the late call holds stays what it was.
LEMMA LateFrame ==
    ASSUME LateInv, TypeOK', now' \in {now, now + 1},
           \/ late' = late /\ task' = task
           \/ late' = [late EXCEPT !.fresh = @ /\ Stored(taskLog') = task]
    PROVE  LateTypes' /\ LateHeld'
<1>1. /\ late.obj \in AgentTask /\ late.fresh \in BOOLEAN /\ LateTypes /\ LateHeld
      /\ now \in Nat
  BY DEF LateInv, LateTypes, IInv, TypeOK, MeterTypes
<1>2. LateTypes' /\ late'.at = late.at /\ late'.obj = late.obj
  BY <1>1 DEF LateTypes
<1>3. CASE ~late'.fresh
  BY <1>2, <1>3 DEF LateHeld
<1>4. CASE late'.fresh
  <2>1. late.fresh /\ task' = task
    BY <1>1, <1>4 DEF LateTypes, task
  <2>2. late.obj.startTime <= now => late.obj.startTime <= now'
    <3>1. late.obj.startTime \in Nat
      BY <1>1 DEF AgentTask
    <3> QED  BY <1>1, <3>1
  <2> QED  BY <1>1, <1>2, <2>1, <2>2 DEF LateHeld
<1> QED  BY <1>2, <1>3, <1>4

\* What the reconcile in flight held is what the late call holds after a takeover.
LEMMA LateTakeover ==
    ASSUME LateInv, Takeover
    PROVE  LateTypes' /\ LateHeld'
<1>1. /\ pc \in ControlPoints /\ obj \in AgentTask /\ fresh \in BOOLEAN
      /\ NoTask \in AgentTask /\ Held
      /\ taskLog \in Seq(AgentTask) /\ taskLog # <<>>
  BY NewTaskValues DEF LateInv, IInv, TypeOK, ControlTypes, ObjectTypes
<1>2. task' = task /\ now' = now
  BY <1>1, LogDeliver DEF Takeover, Crash, task
<1>3. CASE late' = [NoCall EXCEPT !.at = "expire"]
  BY <1>1, <1>3 DEF NoCall, LateTypes, LateHeld
<1>4. CASE late' = [at    |-> pc,
                    obj   |-> IF pc \in podDeletions THEN NoTask ELSE obj,
                    fresh |-> pc \in {"update", "status"} /\ fresh]
  <2>1. LateTypes'
    BY <1>1, <1>4 DEF LateTypes
  <2>2. CASE ~late'.fresh
    BY <2>1, <2>2 DEF LateHeld
  <2>3. CASE late'.fresh
    <3>1. fresh /\ pc \in {"update", "status"} /\ late'.at = pc /\ late'.obj = obj
      BY <1>4, <2>3 DEF podDeletions
    <3> QED  BY <1>1, <1>2, <2>1, <3>1 DEF Held, LateHeld
  <2> QED  BY <2>1, <2>2, <2>3
<1> QED  BY <1>3, <1>4 DEF Takeover

\* The objects that a late call writes have their types.
LEMMA LateArrivesTypes ==
    ASSUME LateInv, LateArrives
    PROVE  TypeOK'
<1>1. /\ TypeOK /\ late.obj \in AgentTask /\ late.obj.uid \in Nat
      /\ NoTask \in AgentTask
      /\ taskLog \in Seq(AgentTask) /\ taskLog # <<>>
      /\ podLog \in Seq(Pod) /\ podLog # <<>>
      /\ cmLog \in Seq(Nat) /\ cmLog # <<>> /\ npLog \in Seq(Nat) /\ npLog # <<>>
      /\ sandbox \in Nat /\ lastUid \in Nat /\ made \in Nat
  BY NewTaskValues DEF LateInv, LateTypes, IInv, TypeOK, ObjectTypes, AgentTask
<1>2. taskLog' \in Seq(AgentTask) /\ taskLog' # <<>>
  <2>1. CASE LateUpdate
    <3>1. PICK v \in AgentTask : taskLog' = Write(taskLog, v) \/ taskLog' = taskLog
      BY <1>1, <2>1 DEF LateUpdate
    <3> QED  BY <1>1, <3>1, LogTypes
  <2>2. CASE LateExpiry
    <3>1. deletedTask(Stored(taskLog)) \in AgentTask
      BY <1>1, LogTypes, TaskValues
    <3> QED  BY <1>1, <2>2, <3>1, LogTypes DEF LateExpiry
  <2>3. CASE LatePodDelete \/ LateCreate
    BY <1>1, <2>3 DEF LatePodDelete, LateCreate
  <2> QED  BY <2>1, <2>2, <2>3 DEF LateArrives
<1>3. podLog' \in Seq(Pod) /\ podLog' # <<>>
  <2>1. CASE LateUpdate \/ LateExpiry \/ LatePodDelete
    BY <1>1, <2>1, DeletePodTypes DEF LateUpdate, LateExpiry, LatePodDelete
  <2>2. CASE LateCreate
    <3>1. PICK m \in {"own", "ref"} :
              podLog' = Write(podLog, NewPod(late.obj.uid, m)) \/ podLog' = podLog
      BY <2>2 DEF LateCreate
    <3>2. NewPod(late.obj.uid, m) \in Pod
      BY <1>1, NewPodValues
    <3> QED  BY <1>1, <3>1, <3>2, LogTypes
  <2> QED  BY <2>1, <2>2 DEF LateArrives
<1>4. /\ cmLog' \in Seq(Nat) /\ cmLog' # <<>> /\ npLog' \in Seq(Nat) /\ npLog' # <<>>
  BY <1>1, LogTypes
  DEF LateArrives, LateUpdate, LateExpiry, LatePodDelete, LateCreate, createdBy
<1>5. sandbox' \in Nat /\ lastUid' \in Nat /\ made' \in Nat
  BY <1>1 DEF LateArrives, LateUpdate, LateExpiry, LatePodDelete, LateCreate
<1>6. ControlTypes' /\ QueueTypes' /\ MeterTypes'
  <2>1. fresh' \in BOOLEAN
    BY <1>1 DEF LateArrives, TypeOK, ControlTypes
  <2> QED
    BY <1>1, <2>1 DEF LateArrives, TypeOK, ControlTypes, QueueTypes, MeterTypes
<1> QED  BY <1>2, <1>3, <1>4, <1>5, <1>6 DEF TypeOK, ObjectTypes

\* The late call writes a version that the lifecycle allows, or none.
LEMMA LateArrivesStep ==
    ASSUME LateInv, LateArrives
    PROVE  Settled' /\ Held' /\ LifecycleStep
<1>1. /\ IInv /\ task \in AgentTask /\ late.obj \in AgentTask /\ LateHeld
      /\ taskLog \in Seq(AgentTask) /\ taskLog # <<>> /\ NoTask \in AgentTask
      /\ fresh \in BOOLEAN
  BY LogTypes, NewTaskValues
  DEF LateInv, LateTypes, IInv, TypeOK, ObjectTypes, ControlTypes, task
<1>2. \A v \in AgentTask : taskLog' = Write(taskLog, v) => task' = v
  BY <1>1, LogWrite DEF task
<1>3. /\ lastUid' = lastUid /\ now' = now /\ pc' = pc /\ obj' = obj
      /\ fresh' = (fresh /\ task' = task) /\ after' = after
  BY DEF LateArrives, task
<1>4. Settled' /\ LifecycleStep
  <2>1. CASE taskLog' = taskLog
    BY <1>1, <1>3, <2>1, SettledFrame DEF LifecycleStep, task
  <2>2. CASE LateExpiry
    <3>1. deletedTask(task) \in AgentTask /\ taskLog' = Write(taskLog, deletedTask(task))
      BY <1>1, <2>2, TaskValues DEF LateExpiry, task
    <3> QED  BY <1>1, <1>2, <1>3, <3>1, TaskVersions
  <2>3. CASE LateUpdate /\ taskLog' # taskLog
    <3>1. /\ late.fresh /\ late.at \in {"update", "status"}
          /\ taskLog' = Write(taskLog, IF late.obj.deleting /\ ~late.obj.finalizer
                                       THEN NoTask ELSE late.obj)
      BY <2>3 DEF LateUpdate, lateUpToDate
    <3>2. CASE /\ late.at = "update" /\ ~task.deleting /\ task.uid # 0
               /\ late.obj = [task EXCEPT !.finalizer = TRUE]
      <4>1. late.obj.finalizer
        BY <1>1, <3>2 DEF AgentTask
      <4>2. task' = late.obj
        BY <1>1, <1>2, <3>1, <4>1
      <4> QED  BY <1>1, <1>3, <3>2, <4>2, TaskVersions
    <3>3. CASE /\ late.at = "update" /\ task.deleting /\ task.finalizer
               /\ late.obj = [task EXCEPT !.finalizer = FALSE]
      <4>1. ~late.obj.finalizer /\ late.obj.deleting
        BY <1>1, <3>3 DEF AgentTask
      <4>2. task' = NoTask
        BY <1>1, <1>2, <3>1, <4>1
      <4> QED  BY <1>1, <1>3, <3>3, <4>2, TaskVersions
    <3>4. CASE late.at = "status"
      <4>1. /\ Lifecycle!MayAdvance(task, late.obj) /\ Consistent(late.obj)
            /\ late.obj.startTime <= now
        BY <1>1, <3>1, <3>4 DEF LateHeld
      <4>2. ~late.obj.deleting
        BY <4>1 DEF Lifecycle!MayAdvance
      <4>3. task' = late.obj
        BY <1>1, <1>2, <3>1, <4>2
      <4> QED  BY <1>1, <1>3, <4>1, <4>3, TaskVersions
    <3> QED  BY <1>1, <3>1, <3>2, <3>3, <3>4 DEF LateHeld
  <2> QED
    BY <2>1, <2>2, <2>3 DEF LateArrives, LatePodDelete, LateCreate
<1>5. Held'
  <2>1. CASE fresh' = FALSE
    BY <2>1, NotHeld
  <2>2. CASE fresh' # FALSE
    <3>1. fresh' = fresh /\ task' = task
      BY <1>1, <1>3, <2>2
    <3> QED  BY <1>1, <1>3, <3>1, SettledFrame DEF controlVars
  <2> QED  BY <2>1, <2>2
<1> QED  BY <1>4, <1>5

\* Every step with a late call about keeps the invariant and is a lifecycle step.
LEMMA LateStep ==
    ASSUME LateInv, [LateNext]_lateVars
    PROVE  LateInv' /\ LifecycleStep
<1>1. CASE Meanwhile
  <2>1. IInv' /\ LifecycleStep
    BY <1>1, InvariantStep DEF Meanwhile, LateInv
  <2>2. LateTypes' /\ LateHeld'
    BY <1>1, <2>1, ClockStep, LateFrame DEF Meanwhile, IInv
  <2> QED  BY <2>1, <2>2 DEF LateInv
<1>2. CASE Takeover
  <2>1. Next
    BY <1>2 DEF Takeover, Next, Fault
  <2> QED  BY <1>2, <2>1, InvariantStep, LateTakeover DEF LateInv
<1>3. CASE LateArrives
  <2>1. LateTypes' /\ LateHeld'
    BY <1>3, NewTaskValues DEF LateArrives, NoCall, LateTypes, LateHeld, ControlPoints
  <2> QED
    BY <1>3, <2>1, LateArrivesTypes, LateArrivesStep DEF LateInv, IInv
<1>4. CASE UNCHANGED lateVars
  <2>1. UNCHANGED vars /\ late' = late /\ task' = task
    BY <1>4 DEF lateVars, vars, objectVars, task
  <2>2. IInv' /\ LifecycleStep
    BY <2>1, InvariantStep DEF LateInv
  <2>3. LateTypes' /\ LateHeld'
    BY <2>1, <2>2, ClockStep, LateFrame DEF IInv
  <2> QED  BY <2>2, <2>3 DEF LateInv
<1> QED  BY <1>1, <1>2, <1>3, <1>4 DEF LateNext

\* The initial state.
LEMMA LateInitial == LateInit => LateInv /\ Lifecycle!Init
BY InvariantInit, NewTaskValues
DEF LateInit, LateInv, LateTypes, LateHeld, NoCall, ControlPoints

\* A finalizer or status update of the previous leader is refused, or it is a step
\* of the lifecycle from what is stored when it arrives.
THEOREM LateHeldCorrect == LateSpec => []LateHeld
<1>1. LateInv => LateHeld
  BY DEF LateInv
<1>2. LateInv /\ [LateNext]_lateVars => LateInv'
  BY LateStep
<1> QED  BY LateInitial, <1>1, <1>2, PTL DEF LateSpec

\* The operator implements the lifecycle even while a call of the previous leader
\* is on its way: updates, creations and deletions by name, however late.
THEOREM LateImplementsLifecycle == LateSpec => LifecycleSpec
<1>1. /\ LateInv /\ [LateNext]_lateVars
         => LateInv' /\ [Lifecycle!Next]_<<task, lastUid>>
  BY LateStep DEF LifecycleStep
<1> QED  BY LateInitial, <1>1, PTL DEF LateSpec, LifecycleSpec, Lifecycle!Spec

(* --------------------------- Deletion by name ------------------------------ *)

\* The late call's resourceVersion is the stored one only while the new leader's
\* cache shows that version.
LateCurrent == late.fresh => CacheCurrent(taskLog)

LateHistory == LateInv /\ HInv /\ LateCurrent

\* A late call writes the task at most once, and takes the finalizer off only if
\* it is up to date.
LEMMA LateArrivesEffects ==
    ASSUME LateHistory, LateArrives
    PROVE  /\ TaskLogMoves /\ FreshCurrent'
           /\ task.finalizer /\ task'.uid # task.uid => CacheCurrent(taskLog)
<1>1. /\ task \in AgentTask /\ late.obj \in AgentTask /\ fresh \in BOOLEAN
      /\ NoTask \in AgentTask /\ deletedTask(task) \in AgentTask
      /\ taskLog \in Seq(AgentTask) /\ taskLog # <<>>
      /\ task.uid = 0 => task = NoTask
  BY LogTypes, NewTaskValues, TaskValues
  DEF LateHistory, LateInv, LateTypes, IInv, TypeOK, ObjectTypes, ControlTypes,
      Settled, task
<1>2. TaskLogMoves
  <2>1. CASE LateUpdate
    BY <1>1, <2>1 DEF LateUpdate, TaskLogMoves
  <2>2. CASE LateExpiry
    BY <1>1, <2>2 DEF LateExpiry, TaskLogMoves, task
  <2>3. CASE LatePodDelete \/ LateCreate
    BY <2>3 DEF LatePodDelete, LateCreate, TaskLogMoves
  <2> QED  BY <2>1, <2>2, <2>3 DEF LateArrives
<1>3. FreshCurrent'
  <2> SUFFICES ASSUME fresh' PROVE pc' = "deletePod" \/ CacheCurrent(taskLog')
    BY DEF FreshCurrent
  <2>1. fresh /\ task' = task /\ pc' = pc
    BY <1>1 DEF LateArrives, task
  <2>2. pc = "deletePod" \/ CacheCurrent(taskLog)
    BY <2>1 DEF LateHistory, HInv, FreshCurrent
  <2> QED  BY <1>1, <1>2, <2>1, <2>2, CurrentStays
<1>4. ASSUME task.finalizer, task'.uid # task.uid
      PROVE  CacheCurrent(taskLog)
  <2>1. NoTask.uid = 0 /\ NoTask.finalizer = FALSE
    BY DEF NoTask, NewTask
  <2>2. deletedTask(task).uid = task.uid
    BY <1>1, <1>4, <2>1 DEF deletedTask, AgentTask
  <2>3. ~LateExpiry
    <3>1. taskLog' = Write(taskLog, deletedTask(task)) => task' = deletedTask(task)
      BY <1>1, LogWrite DEF task
    <3> QED  BY <1>4, <2>2, <3>1 DEF LateExpiry, task
  <2>4. taskLog' # taskLog
    BY <1>4 DEF task
  <2>5. late.fresh
    BY <2>3, <2>4
    DEF LateArrives, LateUpdate, LatePodDelete, LateCreate, lateUpToDate
  <2> QED  BY <2>5 DEF LateHistory, LateCurrent
<1> QED  BY <1>2, <1>3, <1>4

\* Every step with a late call about keeps the history.
LEMMA LateHistoryStep ==
    ASSUME LateHistory, [LateNext]_lateVars
    PROVE  LateHistory'
<1>1. LateInv' /\ LifecycleStep
  BY LateStep DEF LateHistory
<1>2. /\ taskLog \in Seq(AgentTask) /\ taskLog # <<>> /\ late.fresh \in BOOLEAN
      /\ HInv /\ LateCurrent
  BY DEF LateHistory, LateInv, LateTypes, IInv, TypeOK, ObjectTypes
<1>3. CASE Meanwhile
  <2>1. HInv' /\ TaskLogMoves
    BY <1>2, <1>3, HistoryNext, StepEffects DEF Meanwhile
  <2>2. late'.fresh => late.fresh /\ task' = task
    BY <1>2, <1>3 DEF Meanwhile, LateHistory, LateInv, LateTypes, task
  <2>3. LateCurrent'
    BY <1>2, <2>1, <2>2, CurrentStays DEF LateCurrent
  <2> QED  BY <1>1, <2>1, <2>3 DEF LateHistory
<1>4. CASE Takeover
  <2>1. Next
    BY <1>4 DEF Takeover, Next, Fault
  <2>2. taskLog' = Relist(taskLog)
    BY <1>4 DEF Takeover, Crash
  <2>3. LateCurrent'
    BY <1>2, <2>2, LogForgets DEF LateCurrent, CacheCurrent
  <2> QED  BY <1>1, <1>2, <2>1, <2>3, HistoryNext DEF LateHistory
<1>5. CASE LateArrives
  <2>1. late'.fresh = FALSE
    BY <1>5 DEF LateArrives, NoCall
  <2>2. HInv'
    BY <1>1, <1>2, <1>5, LateArrivesEffects, HistoryStep DEF LateInv, HInv
  <2> QED  BY <1>1, <2>1, <2>2 DEF LateHistory, LateCurrent
<1>6. CASE UNCHANGED lateVars
  <2>1. UNCHANGED vars /\ late' = late /\ taskLog' = taskLog
    BY <1>6 DEF lateVars, vars, objectVars
  <2>2. HInv'
    BY <1>2, <2>1, HistoryNext
  <2>3. LateCurrent'
    BY <1>2, <2>1 DEF LateCurrent, CacheCurrent
  <2> QED  BY <1>1, <2>2, <2>3 DEF LateHistory
<1> QED  BY <1>3, <1>4, <1>5, <1>6 DEF LateNext

\* TTL cleanup deletes by name, on what the cache shows, and never hits a later
\* task of the same name, not even while a late finalizer update of the previous
\* leader may free the name.
THEOREM ExpiryHitsOwnTask == LateSpec => ExpiryDeletesOwnTask
<1>1. LateInit => LateHistory
  BY LateInitial, HistoryInit DEF LateInit, LateHistory, LateCurrent, NoCall
<1>2. LateHistory /\ [LateNext]_lateVars => LateHistory'
  BY LateHistoryStep
<1>3. ASSUME LateHistory
      PROVE  [FinishedExpired => task.uid = Cached(taskLog).uid]_vars
  BY <1>3, CachedOwn DEF LateHistory, FinishedExpired, InPhase
<1> QED  BY <1>1, <1>2, <1>3, PTL DEF LateSpec, ExpiryDeletesOwnTask
==================================================================================
