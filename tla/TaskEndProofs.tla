----------------------------- MODULE TaskEndProofs -----------------------------
(***************************************************************************)
(* How a task ends, for every value of the constants: its pod is stopped,  *)
(* the metric counted and the expiry armed, whichever path ended it.       *)
(***************************************************************************)
EXTENDS TaskPodProofs

(* ------------------------ How a status is prepared ------------------------- *)

\* The reasons of updatePhaseFailure, which leaves the pod alone.
PlainReasons ==
    {"ImagePullFailed", "PodMissing", "BackendSelectionFailed",
     "ProfileResolutionFailed"}

\* What the handlers write into the phase and the reason.
LEMMA HandlerPhases ==
    ASSUME NEW t \in AgentTask, NEW p \in Pod
    PROVE  /\ [t EXCEPT !.phase = "Pending", !.startTime = now].phase = "Pending"
           /\ [t EXCEPT !.phase = "Running"].phase = "Running"
           /\ \A kind : scheduledStatus(t, kind).phase = "Scheduled"
           /\ \A why : /\ updatePhaseFailure(t, why).phase = "Failed"
                       /\ updatePhaseFailure(t, why).reason = why
           /\ handlePodSuccess(t, p).phase = "Succeeded"
           /\ handlePodFailure(t, p).phase = "Failed"
           /\ canceledStatus(t).phase = "Canceled" /\ timeoutStatus(t).phase = "Timeout"
BY DEF AgentTask, scheduledStatus, updatePhaseFailure, handlePodSuccess,
       handlePodFailure, canceledStatus, timeoutStatus

\* A status that waits to be written was waiting before, or a handler has just
\* prepared it: all but handlePodSuccess and handlePodFailure have counted a
\* terminal one by then.
LEMMA StatusPrepared ==
    ASSUME HInv, [Next]_vars, pc' = "status"
    PROVE  \/ UNCHANGED <<pc, obj, after>> /\ (fresh' = FALSE \/ fresh' = fresh)
           \/ PodSucceeded /\ after' = "deletePod" /\ obj'.phase = "Succeeded"
           \/ PodFailed /\ after' = "deletePod" /\ obj'.phase = "Failed"
           \/ obj'.phase = "Pending" /\ after' # "deletePod"
           \/ ScheduledToRunning /\ after' # "deletePod" /\ obj'.phase = "Running"
           \/ Dispatch /\ after' # "deletePod" /\ obj'.phase = "Scheduled"
           \/ Inc /\ obj'.phase = "Failed" /\ obj'.reason \in PlainReasons
           \/ Inc /\ obj'.phase = "Canceled"
           \/ /\ Inc /\ obj'.phase = "Timeout" /\ pc = "timeoutPod"
              /\ fresh' = fresh /\ UNCHANGED <<taskLog, now>>
<1>1. /\ Cached(taskLog) \in AgentTask /\ Cached(podLog) \in Pod /\ obj \in AgentTask
      /\ Held /\ TypeOK
  BY HTypes
<1>2. CASE InitializePhase
  BY <1>1, <1>2, HandlerPhases DEF InitializePhase, HoldStatus
<1>3. CASE ScheduledToRunning
  BY <1>1, <1>3, HandlerPhases DEF ScheduledToRunning, HoldStatus
<1>4. CASE ScheduledImagePullFailed \/ PodMissing
  BY <1>1, <1>4, HandlerPhases
  DEF ScheduledImagePullFailed, PodMissing, HoldStatus, PlainReasons
<1>5. CASE PodSucceeded \/ PodFailed
  BY <1>1, <1>5, HandlerPhases DEF PodSucceeded, PodFailed, HoldStatus
<1>6. ASSUME \/ ReconcileGone \/ AddFinalizer \/ ReconcileDeleted
             \/ IgnoreCancel \/ ReconcileCanceled \/ ReconcileTimeout
             \/ ReconcilePending \/ AwaitPod \/ FinishedWait \/ FinishedExpired
      PROVE  FALSE
  BY <1>6
  DEF ReconcileGone, AddFinalizer, ReconcileDeleted, IgnoreCancel, ReconcileCanceled,
      ReconcileTimeout, ReconcilePending, AwaitPod, FinishedWait, FinishedExpired,
      Hold, Dequeue, controlVars
<1>7. ASSUME \/ UpdateTask \/ UpdateStatus \/ DeleteFinishedPod \/ FinalizeAgentTask
             \/ EnsureCodeConfigMap \/ EnsureNetworkPolicy \/ Fault
      PROVE  FALSE
  BY <1>7
  DEF UpdateTask, UpdateStatus, DeleteFinishedPod, FinalizeAgentTask,
      EnsureCodeConfigMap, EnsureNetworkPolicy, Fault, CallFails, Crash,
      Return, ReturnRequeue
<1>8. CASE CancelPod
  BY <1>1, <1>8, HandlerPhases, NewPodValues DEF CancelPod
<1>9. CASE TimeoutPod
  <2>1. /\ obj' = timeoutStatus(obj) /\ Inc /\ pc = "timeoutPod"
        /\ fresh' = fresh /\ UNCHANGED <<taskLog, now>>
    BY <1>9 DEF TimeoutPod, Return, ReturnRequeue
  <2> QED  BY <1>1, <2>1, HandlerPhases, NewPodValues
<1>10. CASE Dispatch
  <2>1. \/ EnsureSandbox \/ EnsurePod
        \/ \E why \in {"BackendSelectionFailed", "ProfileResolutionFailed"} :
             ThenStatus(updatePhaseFailure(obj, why)) /\ Inc
    BY <1>10 DEF Dispatch
  <2>2. \/ \E kind \in {"Pod", "Sandbox"} : obj' = scheduledStatus(obj, kind)
        \/ \E why \in {"BackendSelectionFailed", "ProfileResolutionFailed"} :
             obj' = updatePhaseFailure(obj, why) /\ Inc
    BY <2>1 DEF EnsureSandbox, EnsurePod, ThenStatus, Return, ReturnRequeue
  <2>3. after' = "requeue"
    BY <2>1 DEF EnsureSandbox, EnsurePod, ThenStatus, Return, ReturnRequeue
  <2> QED  BY <1>1, <1>10, <2>2, <2>3, HandlerPhases, NewPodValues DEF PlainReasons
<1>11. ASSUME \/ DeliverTask \/ DeliverPod \/ DeliverOwned \/ TimerFires \/ Resync
              \/ Kubelet \/ CollectGarbage \/ Tick \/ User \/ UNCHANGED vars
       PROVE  UNCHANGED <<pc, obj, after>> /\ (fresh' = FALSE \/ fresh' = fresh)
  BY <1>11
  DEF DeliverTask, DeliverPod, DeliverOwned, TimerFires, Resync, Kubelet, PullFails,
      StartContainer, ExitContainer, EvictPod, DrainPod, RemovePod, PodBecomes,
      CollectGarbage, Tick, User, CreateTask, UpdateSpec, DeleteTask, userVars, vars,
      controlVars
<1> QED
  BY <1>2, <1>3, <1>4, <1>5, <1>6, <1>7, <1>8, <1>9, <1>10, <1>11
  DEF Next, ReconcileStep, WakeUp, Environment

(* --------------------------- The pod of an ended task ---------------------- *)

\* handlePodSuccess or handlePodFailure ended the task.
Ended(t) == t.phase = "Succeeded" \/ t.reason \in {"Terminated", "PodFailed"}

\* The pod is stopped before anybody forgets it, and a task that has ended with
\* its pod is never given another one: no cached version of it is Pending.
Cleared ==
    /\ FinishedPodCleared
    /\ Ended(task) => \A i \in 1..Len(taskLog) :
                        taskLog[i].uid = task.uid => Past(taskLog[i])
    /\ pc \in Creating => ~Ended(task)
    /\ pc = "status" /\ fresh /\ Ended(obj) => after = "deletePod"

\* Every step keeps it.
LEMMA ClearedStep ==
    ASSUME HInv, InFlight, Cleared, [Next]_vars
    PROVE  Cleared'
<1>1. /\ task \in AgentTask /\ Consistent(task) /\ lastUid \in Nat
      /\ taskLog \in Seq(AgentTask) /\ taskLog # <<>> /\ fresh \in BOOLEAN
      /\ TaskLogMoves /\ HInv'
  BY HTypes, StepEffects, HistoryNext
<1>2. /\ Len(taskLog) \in 1..Len(taskLog) /\ task = taskLog[Len(taskLog)]
      /\ 1 \in 1..Len(taskLog) /\ Cached(taskLog) = taskLog[1]
  BY Versions
<1>3. ~Ended(NoTask) /\ \A u, s : ~Ended(NewTask(u, s))
  BY DEF Ended, NoTask, NewTask
<1>4. Ended(task) => Past(task) /\ task.uid # 0
  <2>1. task.phase \in {"", "Pending", "Scheduled", "Running"} => task.reason = ""
    BY <1>1 DEF Consistent, Active
  <2> QED  BY <1>3, <2>1, HTypes DEF Ended, Past
\* Where an ended task comes from.
<1>5. ASSUME Ended(task')
      PROVE  \/ Ended(task) /\ task'.uid = task.uid /\ task'.phase = task.phase
                /\ ~StatusWritten
             \/ StatusWritten /\ Ended(obj)
  BY <1>3, <1>5, StatusStep DEF Ended, SameStatus, StatusWritten
<1>6. ASSUME StatusWritten, Ended(obj)
      PROVE  /\ pc = "status" /\ after = "deletePod" /\ pc' = "deletePod" /\ obj' = obj
             /\ Read(obj) /\ Initialized(obj) /\ Past(obj)
  <2>1. pc = "status" /\ fresh
    BY <1>6 DEF StatusWritten, UpdateStatus
  <2>2. after = "deletePod"
    BY <1>6, <2>1 DEF Cleared
  <2> QED  BY <1>6, <2>1, <2>2 DEF StatusWritten, InFlight, EndsPod
<1>7. FinishedPodCleared'
  <2> SUFFICES ASSUME Ended(task'), OwnPod', used'.faults = 0, pc' # "deletePod"
               PROVE  FALSE
    <3>1. used'.faults \in Nat
      BY PodStep
    <3> QED  BY <3>1 DEF FinishedPodCleared, Ended
  <2>1. Ended(task) /\ task'.uid = task.uid
    BY <1>5, <1>6
  <2>2. used.faults \in Nat /\ used'.faults \in {used.faults, used.faults + 1}
    BY PodStep
  <2>3. used.faults = 0 /\ used'.faults # used.faults + 1
    BY <2>2
  <2>4. task.uid # 0 /\ pod'.owner = task.uid /\ ~pod'.deleting
    BY <1>4, <2>1 DEF OwnPod
  <2>5. ~PodStopped
    BY <2>4 DEF PodStopped
  <2>6. pod' # NoPod
    BY <2>4 DEF NoPod, NewPod
  <2>7. ~PodCreated
    BY <2>1 DEF PodCreated, Cleared, Creating
  <2>8. OwnPod
    BY <2>4, <2>5, <2>6, <2>7, PodStep DEF PodSame, OwnPod
  <2>9. pc = "deletePod"
    BY <2>1, <2>3, <2>8 DEF Cleared, FinishedPodCleared, Ended
  <2> QED  BY <2>3, <2>5, <2>9, ControlStep
<1>8. ASSUME Ended(task'), NEW i \in 1..Len(taskLog'), taskLog'[i].uid = task'.uid
      PROVE  Past(taskLog'[i])
  <2>1. CASE StatusWritten /\ Ended(obj)
    <3>1. Read(obj)'
      BY <1>6, <2>1, ReadStep
    <3>2. Later(obj, taskLog'[i])
      BY <1>6, <2>1, <3>1 DEF Read
    <3> QED  BY <1>6, <2>1, <3>2 DEF Later, Initialized, hasFinalizer
  <2>2. CASE Ended(task) /\ task'.uid = task.uid /\ task'.phase = task.phase
    <3>1. taskLog' \in Seq(AgentTask)
      BY <1>1 DEF HInv, IInv, TypeOK, ObjectTypes
    <3>2. i \in i..Len(taskLog')
      BY <3>1
    <3>3. taskLog'[i] = task' \/ \E k \in 1..Len(taskLog) : taskLog'[i] = taskLog[k]
      BY <1>1, <3>2, MovesVersions
    <3>4. Past(task')
      BY <1>4, <2>2 DEF Past
    <3> QED  BY <1>8, <2>2, <3>3, <3>4 DEF Cleared
  <2> QED  BY <1>5, <1>8, <2>1, <2>2
<1>9. ASSUME pc' \in Creating, Ended(task')  PROVE FALSE
  <2>1. Ended(task) /\ task'.uid = task.uid
    BY <1>5, <1>6, <1>9 DEF Creating
  <2>2. InPhase(Cached(taskLog), {"Pending"})
    BY <1>9, <2>1, ControlStep DEF Cleared
  <2>3. Cached(taskLog).uid = task.uid /\ Cached(taskLog).phase = "Pending"
    BY <2>2, CachedOwn DEF InPhase
  <2> QED  BY <1>2, <2>1, <2>3 DEF Cleared, Past
<1>10. ASSUME pc' = "status", fresh', Ended(obj')  PROVE after' = "deletePod"
  <2>1. Consistent(obj')
    BY <1>1, <1>10 DEF HInv, IInv, Held
  <2>2. /\ obj'.phase \notin {"Pending", "Scheduled", "Running", "Canceled", "Timeout"}
        /\ ~(obj'.phase = "Failed" /\ obj'.reason \in PlainReasons)
    BY <1>10, <2>1 DEF Ended, Consistent, Active, PlainReasons
  <2> QED  BY <1>1, <1>10, <2>2, StatusPrepared DEF Cleared
<1> QED  BY <1>7, <1>8, <1>9, <1>10 DEF Cleared

\* The pod of a task that ended with it is asked to stop, unless a crash or a
\* failed call came between the status update and the deletion.
THEOREM FinishedPodsCleared == Spec => []FinishedPodCleared
<1> DEFINE P == HInv /\ InFlight /\ Cleared
<1>1. Init => P
  <2> SUFFICES ASSUME Init PROVE P
    OBVIOUS
  <2>1. pc = "idle" /\ after = "done" /\ task = NoTask
    BY DEF Init, task, Stored
  <2>2. ~Ended(NoTask)
    BY DEF Ended, NoTask, NewTask
  <2> QED
    BY <2>1, <2>2, HistoryInit
    DEF Cleared, FinishedPodCleared, Ended, InFlight, EndsPod, Creating
<1>2. P /\ [Next]_vars => P'
  BY HistoryNext, InFlightStep, ClearedStep
<1>3. P => FinishedPodCleared
  BY DEF Cleared
<1> QED  BY <1>1, <1>2, <1>3, PTL DEF Spec

(* ------------------------------ The metric --------------------------------- *)

\* The counter only grows, unless a fault resets it, and no reconcile leaves the
\* deletion of the pod without counting.
LEMMA MeterStep ==
    ASSUME HInv, [Next]_vars
    PROVE  /\ tasksTotal \in Nat
           /\ tasksTotal' = tasksTotal \/ Inc \/ used'.faults = used.faults + 1
           /\ pc = "deletePod" =>
                pc' = "deletePod" \/ Inc \/ used'.faults = used.faults + 1
<1>1. /\ tasksTotal \in Nat /\ used \in [edits : Nat, faults : Nat, drains : Nat]
  BY HTypes DEF TypeOK, MeterTypes
<1>2. ASSUME \/ ReconcileGone \/ AddFinalizer \/ ReconcileDeleted \/ InitializePhase
             \/ IgnoreCancel \/ ReconcileCanceled \/ ReconcileTimeout
             \/ ReconcilePending \/ AwaitPod \/ ScheduledToRunning
             \/ ScheduledImagePullFailed \/ PodMissing \/ PodSucceeded \/ PodFailed
             \/ FinishedWait \/ FinishedExpired
      PROVE  pc # "deletePod" /\ (tasksTotal' = tasksTotal \/ Inc)
  BY <1>2
  DEF ReconcileGone, AddFinalizer, ReconcileDeleted, InitializePhase, IgnoreCancel,
      ReconcileCanceled, ReconcileTimeout, ReconcilePending, AwaitPod,
      ScheduledToRunning, ScheduledImagePullFailed, PodMissing, PodSucceeded,
      PodFailed, FinishedWait, FinishedExpired, Dequeue
<1>3. ASSUME \/ UpdateTask \/ UpdateStatus \/ FinalizeAgentTask \/ CancelPod
             \/ TimeoutPod \/ EnsureCodeConfigMap \/ EnsureNetworkPolicy
      PROVE  pc # "deletePod" /\ (tasksTotal' = tasksTotal \/ Inc)
  BY <1>3
  DEF UpdateTask, UpdateStatus, FinalizeAgentTask, CancelPod, TimeoutPod,
      EnsureCodeConfigMap, EnsureNetworkPolicy
<1>4. ASSUME Dispatch  PROVE pc # "deletePod" /\ (tasksTotal' = tasksTotal \/ Inc)
  BY <1>4 DEF Dispatch, EnsureSandbox, EnsurePod
<1>5. ASSUME DeleteFinishedPod  PROVE Inc
  BY <1>5 DEF DeleteFinishedPod
<1>6. ASSUME Fault  PROVE used'.faults = used.faults + 1
  BY <1>1, <1>6 DEF Fault, CallFails, Crash
<1>7. ASSUME \/ DeliverTask \/ DeliverPod \/ DeliverOwned \/ TimerFires \/ Resync
             \/ Kubelet \/ CollectGarbage \/ Tick \/ User \/ UNCHANGED vars
      PROVE  UNCHANGED <<pc, tasksTotal>>
  BY <1>7
  DEF DeliverTask, DeliverPod, DeliverOwned, TimerFires, Resync, Kubelet, PullFails,
      StartContainer, ExitContainer, EvictPod, DrainPod, RemovePod, PodBecomes,
      CollectGarbage, Tick, User, CreateTask, UpdateSpec, DeleteTask, userVars, vars,
      controlVars
<1> QED
  BY <1>1, <1>2, <1>3, <1>4, <1>5, <1>6, <1>7
  DEF Next, ReconcileStep, WakeUp, Environment

\* As long as nothing was counted and no fault came, a terminal status is on its
\* way to the count that follows the deletion of the pod.
Counted ==
    \/ used.faults > 0
    \/ tasksTotal > 0
    \/ /\ task.phase \in Terminal => pc = "deletePod"
       /\ pc = "status" /\ fresh /\ obj.phase \in Terminal => after = "deletePod"

\* Every step keeps it, if the counter can show anything at all.
LEMMA CountedStep ==
    ASSUME MetricCap > 0, HInv, Counted, [Next]_vars
    PROVE  Counted'
<1>1. /\ used.faults \in Nat /\ used'.faults \in {used.faults, used.faults + 1}
      /\ tasksTotal \in Nat /\ MetricCap \in Nat
  BY PodStep, MeterStep, BoundsAssumption
<1>2. Inc => tasksTotal' > 0
  BY <1>1 DEF Inc
<1>3. used'.faults = used.faults + 1 => used'.faults > 0
  BY <1>1
<1>4. CASE used.faults > 0
  BY <1>1, <1>3, <1>4 DEF Counted
<1>5. CASE Inc \/ used'.faults = used.faults + 1
  BY <1>2, <1>3, <1>5 DEF Counted
<1>6. CASE tasksTotal > 0
  BY <1>5, <1>6, MeterStep DEF Counted
<1>7. ASSUME /\ task.phase \in Terminal => pc = "deletePod"
             /\ pc = "status" /\ fresh /\ obj.phase \in Terminal => after = "deletePod",
             ~Inc, used'.faults # used.faults + 1
      PROVE  Counted'
  <2>1. pc = "deletePod" => pc' = "deletePod"
    BY <1>7, MeterStep
  <2>2. NoTask.phase \notin Terminal /\ \A u, s : NewTask(u, s).phase \notin Terminal
    BY DEF NoTask, NewTask, Terminal
  <2>3. StatusWritten /\ obj.phase \in Terminal => pc' = "deletePod"
    BY <1>7 DEF StatusWritten, UpdateStatus
  <2>4. task'.phase \in Terminal => pc' = "deletePod"
    BY <1>7, <2>1, <2>2, <2>3, StatusStep DEF SameStatus, StatusWritten
  <2>5. pc' = "status" /\ fresh' /\ obj'.phase \in Terminal => after' = "deletePod"
    BY <1>7, StatusPrepared DEF Terminal
  <2> QED  BY <2>4, <2>5 DEF Counted
<1> QED  BY <1>4, <1>5, <1>6, <1>7 DEF Counted

\* A task that has ended has been counted in agenttask_total_tasks, is about to
\* be, or a fault came between.
THEOREM FinishedTasksCounted ==
    ASSUME MetricCap > 0
    PROVE  Spec => []FinishedCounted
<1>1. Init => HInv /\ Counted
  <2> SUFFICES ASSUME Init PROVE Counted
    BY HistoryInit
  <2>1. pc = "idle" /\ task = NoTask
    BY DEF Init, task, Stored
  <2> QED  BY <2>1 DEF Counted, NoTask, NewTask, Terminal
<1>2. HInv /\ Counted /\ [Next]_vars => HInv' /\ Counted'
  BY HistoryNext, CountedStep
<1>3. Counted => FinishedCounted
  BY DEF Counted, FinishedCounted
<1> QED  BY <1>1, <1>2, <1>3, PTL DEF Spec

(* ------------------------------ The expiry --------------------------------- *)

\* What the reconcile in flight will write, if it still can, changes the stored
\* task or comes from a deadline that has passed: a write that changes nothing
\* sends no event, and nobody would look at the task again.
Changes ==
    fresh => /\ pc = "update" => obj # task
             /\ pc = "timeoutPod" => checkTimeout(task)
             /\ pc = "status" => obj # task \/ checkTimeout(task)

\* ExpiryArmed does not only hold between reconciles, but also while the last one
\* deletes the pod.
Armed ==
    (/\ pc \in {"idle", "deletePod"} /\ ~queued /\ CacheCurrent(taskLog)
     /\ InPhase(task, Terminal) /\ hasTTL(task) /\ now < expirationTime(task))
    => timer # NoTime /\ timer <= expirationTime(task)

\* A deadline that has passed stays so.
LEMMA DeadlineKept ==
    ASSUME NEW t \in AgentTask, now \in Nat, now' \in {now, now + 1}
    PROVE  checkTimeout(t) => checkTimeout(t)'
<1>1. t.startTime \in Nat /\ t.spec.timeoutSeconds \in Int
  BY DEF AgentTask, AgentTaskSpec
<1> QED  BY <1>1 DEF checkTimeout, TimeoutBuffer

\* Where the points of a reconcile that bear on the expiry come from, as long as
\* it holds the stored resourceVersion: nobody has written the task then.
LEMMA FreshStep ==
    ASSUME HInv, [Next]_vars
    PROVE  /\ now' \in {now, now + 1}
           /\ fresh' /\ pc' # "deletePod" => task' = task
           /\ pc' = "update" /\ fresh' => (fresh /\ UNCHANGED <<pc, obj>>) \/ obj' # task
           /\ pc' = "timeoutPod" /\ fresh' =>
                (fresh /\ UNCHANGED pc) \/ (checkTimeout(task) /\ now' = now)
<1>1. /\ TypeOK /\ Held /\ task \in AgentTask /\ obj \in AgentTask
      /\ taskLog \in Seq(AgentTask) /\ taskLog # <<>> /\ now \in Nat
      /\ Cached(taskLog) \in AgentTask
  BY HTypes
<1>2. CacheCurrent(taskLog) => Cached(taskLog) = task
  BY <1>1, LogReads DEF task
<1>3. ASSUME \/ ReconcileGone \/ ReconcileDeleted \/ InitializePhase
             \/ IgnoreCancel \/ ReconcileCanceled
             \/ ReconcilePending \/ AwaitPod \/ ScheduledToRunning
             \/ ScheduledImagePullFailed \/ PodMissing \/ PodSucceeded \/ PodFailed
             \/ FinishedWait
      PROVE  task' = task /\ now' = now /\ pc' \notin {"update", "timeoutPod"}
  <2>1. task' = task
    BY <1>1, <1>3, StartEffects DEF task
  <2>2. now' = now /\ pc' \notin {"update", "timeoutPod"}
    BY <1>3
    DEF ReconcileGone, ReconcileDeleted, InitializePhase, IgnoreCancel,
        ReconcileCanceled, ReconcilePending, AwaitPod, ScheduledToRunning,
        ScheduledImagePullFailed, PodMissing, PodSucceeded, PodFailed, FinishedWait,
        Hold, HoldStatus, Dequeue, controlVars
  <2> QED  BY <2>1, <2>2
<1>4. CASE AddFinalizer
  <2>1. /\ task' = task /\ now' = now /\ pc' = "update"
        /\ obj' = [Cached(taskLog) EXCEPT !.finalizer = TRUE]
        /\ fresh' = CacheCurrent(taskLog) /\ ~Cached(taskLog).finalizer
    BY <1>4 DEF AddFinalizer, Hold, hasFinalizer, objectVars, task
  <2>2. obj'.finalizer = TRUE
    BY <1>1, <2>1 DEF AgentTask
  <2> QED  BY <1>2, <2>1, <2>2
<1>5. CASE ReconcileTimeout
  <2>1. /\ task' = task /\ now' = now /\ pc' = "timeoutPod"
        /\ fresh' = CacheCurrent(taskLog) /\ checkTimeout(Cached(taskLog))
    BY <1>5 DEF ReconcileTimeout, Hold, objectVars, task
  <2> QED  BY <1>2, <2>1
<1>6. CASE FinalizeAgentTask
  <2>1. /\ task' = task /\ now' = now /\ pc = "finalize" /\ pc' = "update"
        /\ obj' = [obj EXCEPT !.finalizer = FALSE] /\ fresh' = fresh
    BY <1>6 DEF FinalizeAgentTask, RemoveFinalizer, task
  <2>2. fresh => obj = task /\ task.finalizer
    BY <1>1, <2>1 DEF Held
  <2>3. obj'.finalizer = FALSE
    BY <1>1, <2>1 DEF AgentTask
  <2> QED  BY <2>1, <2>2, <2>3
<1>7. ASSUME \/ DeleteFinishedPod \/ CancelPod \/ TimeoutPod
             \/ EnsureCodeConfigMap \/ EnsureNetworkPolicy
      PROVE  task' = task /\ now' = now /\ pc' \notin {"update", "timeoutPod"}
  BY <1>7
  DEF DeleteFinishedPod, CancelPod, TimeoutPod, EnsureCodeConfigMap,
      EnsureNetworkPolicy, Return, ReturnRequeue, task
<1>8. ASSUME Dispatch
      PROVE  task' = task /\ now' = now /\ pc' \notin {"update", "timeoutPod"}
  BY <1>8
  DEF Dispatch, EnsureSandbox, EnsurePod, ThenStatus, Return, ReturnRequeue, task
<1>9. ASSUME UpdateTask \/ UpdateStatus \/ FinishedExpired \/ User
      PROVE  /\ ~fresh' \/ pc' = "deletePod"
             /\ now' = now
  <2>1. fresh' = FALSE \/ pc' = "deletePod"
    BY <1>9, WriteEffects
  <2>2. now' = now
    BY <1>9
    DEF UpdateTask, UpdateStatus, FinishedExpired, User, CreateTask, UpdateSpec,
        DeleteTask, userVars
  <2> QED  BY <2>1, <2>2
<1>10. ASSUME Fault  PROVE ~fresh' /\ now' = now
  BY <1>10 DEF Fault, CallFails, Crash, Return, ReturnRequeue
<1>11. ASSUME \/ DeliverTask \/ DeliverPod \/ DeliverOwned \/ TimerFires \/ Resync
              \/ Kubelet \/ CollectGarbage \/ Tick \/ UNCHANGED vars
       PROVE  UNCHANGED controlVars /\ task' = task /\ now' \in {now, now + 1}
  <2>1. CASE DeliverTask
    BY <1>1, <2>1, LogDeliver DEF DeliverTask, task
  <2>2. CASE ~DeliverTask
    BY <1>11, <2>2
    DEF DeliverPod, DeliverOwned, TimerFires, Resync, Kubelet, PullFails,
        StartContainer, ExitContainer, EvictPod, DrainPod, RemovePod, PodBecomes,
        CollectGarbage, Tick, vars, objectVars, task
  <2> QED  BY <2>1, <2>2
<1> QED
  BY <1>3, <1>4, <1>5, <1>6, <1>7, <1>8, <1>9, <1>10, <1>11
  DEF Next, ReconcileStep, WakeUp, Environment, controlVars

\* Every step keeps what the writes depend on.
LEMMA ChangesStep ==
    ASSUME HInv, Changes, [Next]_vars
    PROVE  Changes'
<1> SUFFICES ASSUME fresh', pc' # "deletePod"
             PROVE  /\ pc' = "update" => obj' # task'
                    /\ pc' = "timeoutPod" => checkTimeout(task)'
                    /\ pc' = "status" => obj' # task' \/ checkTimeout(task)'
  BY DEF Changes
<1>1. /\ task \in AgentTask /\ now \in Nat /\ now' \in {now, now + 1} /\ task' = task
  BY HTypes, FreshStep
<1>2. checkTimeout(task) => checkTimeout(task)'
  BY <1>1, DeadlineKept DEF checkTimeout
<1>3. pc' = "update" => obj' # task'
  BY <1>1, FreshStep DEF Changes
<1>4. pc' = "timeoutPod" => checkTimeout(task)'
  BY <1>1, <1>2, FreshStep DEF Changes
<1>5. ASSUME pc' = "status"  PROVE obj' # task' \/ checkTimeout(task)'
  <2>1. Held'
    BY HistoryNext DEF HInv, IInv
  <2>2. obj'.phase \in Lifecycle!Successors[task.phase]
    BY <1>1, <1>5, <2>1 DEF Held, Lifecycle!MayAdvance
  <2>3. task.phase \in {"", "Pending", "Scheduled", "Running", "Succeeded", "Failed",
                        "Timeout", "Canceled"}
    BY <1>1 DEF AgentTask, Phase, Active, Terminal
  <2>4. obj'.phase = task.phase => obj'.phase = "Timeout"
    BY <2>2, <2>3, SuccessorFacts
  <2>5. CASE UNCHANGED <<pc, obj, after>> /\ fresh' = fresh
    BY <1>1, <1>2, <1>5, <2>5 DEF Changes
  <2>6. CASE pc = "timeoutPod" /\ fresh' = fresh
    BY <1>2, <2>6 DEF Changes
  <2>7. CASE obj'.phase # "Timeout"
    BY <1>1, <2>4, <2>7
  <2> QED  BY <1>5, <2>5, <2>6, <2>7, StatusPrepared
<1> QED  BY <1>3, <1>4, <1>5

\* The time of expiry is a number (before the epoch for a negative TTL).
LEMMA ExpirationType ==
    ASSUME NEW t \in AgentTask
    PROVE  expirationTime(t) \in Int
<1>1. t.completionTime \in Nat /\ t.spec \in AgentTaskSpec
  BY DEF AgentTask
<1>2. t.spec.ttlSecondsAfterFinished \in Int
  BY <1>1 DEF AgentTaskSpec
<1> QED  BY <1>1, <1>2 DEF expirationTime

\* A reconcile that returns without having written anything has armed the timer,
\* or leaves a task that is not waiting for its expiry.
LEMMA ArmedStart ==
    ASSUME HInv, ReconcileGone \/ IgnoreCancel \/ AwaitPod \/ FinishedWait
    PROVE  Armed'
<1>1. /\ TypeOK /\ Held /\ task \in AgentTask /\ now \in Nat /\ now # NoTime
      /\ taskLog \in Seq(AgentTask) /\ taskLog # <<>> /\ timer \in Nat
  BY HTypes DEF TypeOK, QueueTypes
<1>2. CacheCurrent(taskLog) => Cached(taskLog) = task
  BY <1>1, LogReads DEF task
<1>3. task' = task /\ taskLog' = taskLog /\ now' = now
  BY DEF ReconcileGone, IgnoreCancel, AwaitPod, FinishedWait, objectVars, task
<1>4. InPhase(task, Terminal)' = InPhase(task, Terminal)
  BY <1>3 DEF InPhase, Initialized, hasFinalizer, checkTimeout
<1>5. CASE ReconcileGone \/ IgnoreCancel \/ AwaitPod
  <2>1. \/ Cached(taskLog).uid = 0 \/ Cached(taskLog).deleting
        \/ Cached(taskLog).spec.canceled
        \/ Cached(taskLog).phase \in {"Scheduled", "Running"}
    BY <1>5 DEF ReconcileGone, IgnoreCancel, AwaitPod, InPhase
  <2>2. CacheCurrent(taskLog) => ~InPhase(task, Terminal)
    BY <1>2, <2>1 DEF InPhase, Initialized, Terminal
  <2> QED  BY <1>3, <1>4, <2>2 DEF Armed
<1>6. CASE FinishedWait
  <2>1. timer' = requeueAfter(Cached(taskLog))
    BY <1>6 DEF FinishedWait
  <2> SUFFICES ASSUME CacheCurrent(taskLog), hasTTL(task), now < expirationTime(task)
               PROVE  timer' # NoTime /\ timer' <= expirationTime(task)
    BY <1>3 DEF Armed, hasTTL, expirationTime
  <2>2. timer' = requeueAfter(task)
    BY <1>2, <2>1
  <2>3. expirationTime(task) \in Int
    BY <1>1, ExpirationType
  <2> QED  BY <1>1, <2>2, <2>3 DEF requeueAfter, NoTime
<1> QED  BY <1>5, <1>6

\* A write that ends a reconcile, or that a user makes, leaves the cache behind or
\* a task that is not waiting for its expiry.
LEMMA ArmedWrite ==
    ASSUME HInv, Changes, UpdateTask \/ UpdateStatus \/ FinishedExpired \/ User
    PROVE  \/ queued' = TRUE \/ ~CacheCurrent(taskLog)' \/ ~InPhase(task, Terminal)'
<1>1. /\ TypeOK /\ Held /\ task \in AgentTask /\ obj \in AgentTask /\ NoTask \in AgentTask
      /\ taskLog \in Seq(AgentTask) /\ taskLog # <<>> /\ lastUid \in Nat
      /\ deletedTask(task) \in AgentTask /\ fresh \in BOOLEAN
  BY HTypes, NewTaskValues, TaskValues
<1>2. ASSUME NEW v \in AgentTask, taskLog' = Write(taskLog, v)
      PROVE  task' = v
  BY <1>1, <1>2, LogWrite DEF task
<1>3. ASSUME NEW v \in AgentTask, taskLog' = Write(taskLog, v), v # task
      PROVE  ~CacheCurrent(taskLog)'
  BY <1>1, <1>3, LogVersions DEF task, CacheCurrent
<1>4. /\ NoTask.uid = 0
      /\ \A u, s : NewTask(u, s).phase = ""
      /\ deletedTask(task) = NoTask \/ deletedTask(task).deleting
  BY <1>1 DEF NoTask, NewTask, deletedTask, AgentTask
<1>5. CASE FinishedExpired \/ DeleteTask
  <2>1. task' = deletedTask(task)
    BY <1>1, <1>2, <1>5 DEF FinishedExpired, DeleteTask, task
  <2> QED  BY <1>4, <2>1 DEF InPhase, Initialized
<1>6. ASSUME NEW s \in Specs, CreateTask(s)  PROVE ~InPhase(task, Terminal)'
  <2>1. lastUid + 1 \in Nat /\ s \in AgentTaskSpec
    BY <1>1, SpecsAssumption
  <2>2. task' = NewTask(lastUid + 1, s)
    BY <1>2, <1>6, <2>1, NewTaskValues DEF CreateTask
  <2> QED  BY <1>4, <2>2 DEF InPhase, Initialized
<1>7. ASSUME NEW s \in Specs, UpdateSpec(s)  PROVE ~CacheCurrent(taskLog)'
  <2>1. [task EXCEPT !.spec = s] \in AgentTask /\ [task EXCEPT !.spec = s].spec = s
    BY <1>1, SpecsAssumption, TaskValues DEF AgentTask
  <2>2. taskLog' = Write(taskLog, [task EXCEPT !.spec = s]) /\ s # task.spec
    BY <1>7 DEF UpdateSpec, task
  <2> QED  BY <1>3, <2>1, <2>2
<1>8. CASE UpdateTask
  <2>1. CASE queued' = TRUE
    BY <2>1
  <2>2. CASE /\ fresh /\ pc = "update"
             /\ taskLog' = Write(taskLog, IF obj.deleting /\ ~obj.finalizer
                                          THEN NoTask ELSE obj)
    <3>1. obj # task
      BY <2>2 DEF Changes
    <3>2. CASE taskLog' = Write(taskLog, NoTask)
      BY <1>1, <1>2, <1>4, <3>2 DEF InPhase, Initialized
    <3>3. CASE taskLog' = Write(taskLog, obj)
      BY <1>1, <1>3, <3>1, <3>3
    <3> QED  BY <2>2, <3>2, <3>3
  <2> QED  BY <1>8, <2>1, <2>2 DEF UpdateTask, upToDate, ReturnRequeue
<1>9. CASE UpdateStatus
  <2>1. CASE queued' = TRUE
    BY <2>1
  <2>2. CASE fresh /\ pc = "status" /\ taskLog' = Write(taskLog, obj)
    <3>1. CASE obj # task
      BY <1>1, <1>3, <2>2, <3>1
    <3>2. CASE obj = task /\ checkTimeout(task)
      <4>1. task' = task /\ now' = now
        BY <1>1, <1>2, <1>9, <2>2, <3>2 DEF UpdateStatus
      <4> QED  BY <3>2, <4>1 DEF InPhase, checkTimeout
    <3> QED  BY <2>2, <3>1, <3>2 DEF Changes
  <2> QED  BY <1>9, <2>1, <2>2 DEF UpdateStatus, upToDate, ReturnRequeue
<1> QED  BY <1>5, <1>6, <1>7, <1>8, <1>9 DEF User

\* Every step keeps the timer armed.
LEMMA ArmedStep ==
    ASSUME HInv, Changes, Armed, [Next]_vars
    PROVE  Armed'
<1>1. /\ TypeOK /\ task \in AgentTask /\ now \in Nat /\ taskLog \in Seq(AgentTask)
      /\ taskLog # <<>>
  BY HTypes
<1>2. CASE queued' = TRUE
  BY <1>2 DEF Armed
<1>3. CASE pc' \notin {"idle", "deletePod"}
  BY <1>3 DEF Armed
<1>4. ASSUME UNCHANGED <<taskLog, queued, timer>>, pc \in {"idle", "deletePod"},
             now' \in {now, now + 1}
      PROVE  Armed'
  <2>1. task' = task
    BY <1>4 DEF task
  <2>2. checkTimeout(task) => checkTimeout(task)'
    BY <1>1, <1>4, <2>1, DeadlineKept DEF checkTimeout
  <2>3. InPhase(task, Terminal)' => InPhase(task, Terminal)
    BY <2>1, <2>2 DEF InPhase, Initialized, hasFinalizer
  <2>4. expirationTime(task) \in Int
    BY <1>1, ExpirationType
  <2>5. /\ expirationTime(task)' = expirationTime(task) /\ hasTTL(task)' = hasTTL(task)
        /\ CacheCurrent(taskLog)' = CacheCurrent(taskLog)
    BY <1>4, <2>1 DEF expirationTime, hasTTL, CacheCurrent
  <2>6. now' < expirationTime(task)' => now < expirationTime(task)
    BY <1>1, <1>4, <2>4, <2>5
  <2> QED  BY <1>4, <2>3, <2>5, <2>6 DEF Armed
<1>5. ASSUME \/ AddFinalizer \/ ReconcileDeleted \/ InitializePhase
             \/ ReconcileCanceled \/ ReconcileTimeout \/ ReconcilePending
             \/ ScheduledToRunning \/ ScheduledImagePullFailed \/ PodMissing
             \/ PodSucceeded \/ PodFailed
      PROVE  pc' \notin {"idle", "deletePod"}
  BY <1>5
  DEF AddFinalizer, ReconcileDeleted, InitializePhase, ReconcileCanceled,
      ReconcileTimeout, ReconcilePending, ScheduledToRunning,
      ScheduledImagePullFailed, PodMissing, PodSucceeded, PodFailed, Hold, HoldStatus
<1>6. ASSUME UpdateTask \/ UpdateStatus \/ FinishedExpired \/ User  PROVE Armed'
  BY <1>6, ArmedWrite DEF Armed
<1>7. ASSUME \/ FinalizeAgentTask \/ CancelPod \/ TimeoutPod \/ EnsureCodeConfigMap
             \/ EnsureNetworkPolicy
      PROVE  queued' = TRUE \/ pc' \notin {"idle", "deletePod"}
  BY <1>7
  DEF FinalizeAgentTask, CancelPod, TimeoutPod, EnsureCodeConfigMap,
      EnsureNetworkPolicy, ReturnRequeue
<1>8. ASSUME Dispatch  PROVE queued' = TRUE \/ pc' \notin {"idle", "deletePod"}
  BY <1>8 DEF Dispatch, EnsureSandbox, EnsurePod, ThenStatus, ReturnRequeue
<1>9. ASSUME Fault \/ DeliverTask \/ DeliverPod \/ TimerFires \/ Resync
      PROVE  queued' = TRUE
  BY <1>9
  DEF Fault, CallFails, Crash, DeliverTask, DeliverPod, TimerFires, Resync, Enqueue,
      ReturnRequeue
<1>10. ASSUME DeleteFinishedPod  PROVE Armed'
  <2>1. UNCHANGED <<taskLog, queued, timer, now>> /\ pc = "deletePod"
    BY <1>10 DEF DeleteFinishedPod
  <2> QED  BY <1>4, <2>1
<1>11. ASSUME DeliverOwned \/ Kubelet \/ CollectGarbage \/ Tick \/ UNCHANGED vars
       PROVE  Armed'
  <2>1. UNCHANGED <<taskLog, queued, timer, pc>> /\ now' \in {now, now + 1}
    BY <1>11
    DEF DeliverOwned, Kubelet, PullFails, StartContainer, ExitContainer, EvictPod,
        DrainPod, RemovePod, PodBecomes, CollectGarbage, Tick, vars, objectVars,
        controlVars
  <2> QED  BY <1>3, <1>4, <2>1
<1> QED
  BY <1>2, <1>3, <1>5, <1>6, <1>7, <1>8, <1>9, <1>10, <1>11, ArmedStart
  DEF Next, ReconcileStep, WakeUp, Environment

\* A finished task whose TTL has not run out is never forgotten: if nothing else
\* will wake the operator, the timer will, no later than the expiry.
THEOREM ExpiryStaysArmed == Spec => []ExpiryArmed
<1> DEFINE P == HInv /\ Changes /\ Armed
<1>1. Init => P
  <2> SUFFICES ASSUME Init PROVE Changes /\ Armed
    BY HistoryInit
  <2>1. fresh = FALSE /\ task = NoTask
    BY DEF Init, task, Stored
  <2> QED  BY <2>1 DEF Changes, Armed, InPhase, Terminal, NoTask, NewTask
<1>2. P /\ [Next]_vars => P'
  BY HistoryNext, ChangesStep, ArmedStep
<1>3. P => ExpiryArmed
  BY DEF Armed, ExpiryArmed
<1> QED  BY <1>1, <1>2, <1>3, PTL DEF Spec
================================================================================
