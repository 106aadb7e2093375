--------------------------- MODULE TaskHistoryProofs ---------------------------
(***************************************************************************)
(* What a version of the task in the cache says about the stored one.  The *)
(* reconciler acts on cached copies; deletions by name and creations are   *)
(* not protected by a resourceVersion.  They are safe because the finalizer *)
(* keeps a task in place until the operator itself has seen its deletion.  *)
(***************************************************************************)
EXTENDS AgentTaskOperatorProofs

(* ------------------------ Older and newer versions ------------------------- *)

\* The task has left Pending.
Past(t) == t.phase \notin {"", "Pending"}

\* b is a version of the name no older than a: while a holds the finalizer and is
\* not deleted, b is the same task and at least as far; deletion is final.
Later(a, b) ==
    /\ a.finalizer /\ ~a.deleting =>
         /\ b.uid = a.uid /\ b.finalizer
         /\ (a.phase # "" => b.phase # "") /\ (Past(a) => Past(b))
    /\ a.deleting /\ b.uid = a.uid => b.deleting

\* What every version is on its own.
Sound(t) ==
    Consistent(t) /\ (t.uid = 0 => t = NoTask) /\ (t.deleting => t.finalizer)

\* Every version on its way to the cache is sound, and newer ones are later.
History ==
    \A i \in 1..Len(taskLog) :
      /\ Sound(taskLog[i]) /\ taskLog[i].uid <= lastUid
      /\ \A j \in i..Len(taskLog) : Later(taskLog[i], taskLog[j])

\* A reconcile whose resourceVersion is the stored one read it from a cache that
\* is current still, except after its own write.
FreshCurrent == fresh => pc = "deletePod" \/ CacheCurrent(taskLog)

HInv == IInv /\ History /\ task.uid \in {0, lastUid} /\ FreshCurrent

\* What a step does to the versions: nothing, an event, a list, or a write.
TaskLogMoves ==
    \/ taskLog' = taskLog
    \/ Lagging(taskLog) /\ taskLog' = Deliver(taskLog)
    \/ taskLog' = Relist(taskLog)
    \/ \E v \in AgentTask : taskLog' = Write(taskLog, v)

\* The versions after a step are versions before it, or the newly stored one.
LEMMA MovesVersions ==
    ASSUME taskLog \in Seq(AgentTask), taskLog # <<>>, TaskLogMoves
    PROVE  /\ task = taskLog[Len(taskLog)] /\ Len(taskLog) \in 1..Len(taskLog)
           /\ \A i \in 1..Len(taskLog') : \A j \in i..Len(taskLog') :
                \/ taskLog'[i] = task' /\ taskLog'[j] = task'
                \/ /\ \E k \in 1..Len(taskLog) : taskLog'[i] = taskLog[k]
                   /\ taskLog'[j] = task'
                \/ \E k \in 1..Len(taskLog) : \E l \in k..Len(taskLog) :
                     taskLog'[i] = taskLog[k] /\ taskLog'[j] = taskLog[l]
<1>1. Len(taskLog) \in Nat \ {0}
  OBVIOUS
<1>2. task = taskLog[Len(taskLog)] /\ Len(taskLog) \in 1..Len(taskLog)
  BY <1>1 DEF task, Stored
<1>3. task' = Stored(taskLog')
  BY DEF task
<1> SUFFICES ASSUME NEW i \in 1..Len(taskLog'), NEW j \in i..Len(taskLog')
             PROVE  \/ taskLog'[i] = task' /\ taskLog'[j] = task'
                    \/ /\ \E k \in 1..Len(taskLog) : taskLog'[i] = taskLog[k]
                       /\ taskLog'[j] = task'
                    \/ \E k \in 1..Len(taskLog) : \E l \in k..Len(taskLog) :
                         taskLog'[i] = taskLog[k] /\ taskLog'[j] = taskLog[l]
  BY <1>2
<1>4. CASE taskLog' = taskLog
  BY <1>1, <1>4
<1>5. CASE Lagging(taskLog) /\ taskLog' = Deliver(taskLog)
  <2>1. /\ taskLog' \in Seq(AgentTask) /\ Len(taskLog') \in Nat
        /\ \A n \in 1..Len(taskLog') :
             n + 1 \in 1..Len(taskLog) /\ taskLog'[n] = taskLog[n + 1]
    BY <1>5, LogForgets, LogDeliver
  <2>2. j \in 1..Len(taskLog') /\ i + 1 \in 1..Len(taskLog) /\ j + 1 \in (i + 1)..Len(taskLog)
    BY <1>1, <2>1
  <2> QED  BY <2>1, <2>2
<1>6. CASE taskLog' = Relist(taskLog)
  <2>1. Len(taskLog') = 1 /\ taskLog'[1] = task /\ task' = task
    BY <1>2, <1>3, <1>6, LogForgets, LogDeliver DEF task
  <2> QED  BY <2>1
<1>7. ASSUME NEW v \in AgentTask, taskLog' = Write(taskLog, v)
      PROVE  \/ taskLog'[i] = task' /\ taskLog'[j] = task'
             \/ /\ \E k \in 1..Len(taskLog) : taskLog'[i] = taskLog[k]
                /\ taskLog'[j] = task'
             \/ \E k \in 1..Len(taskLog) : \E l \in k..Len(taskLog) :
                  taskLog'[i] = taskLog[k] /\ taskLog'[j] = taskLog[l]
  <2>0. task' = v /\ Len(taskLog') \in Nat
    BY <1>3, <1>7, LogWrite
  <2>1. \A n \in 1..Len(taskLog') :
          \/ n = Len(taskLog') /\ taskLog'[n] = v
          \/ n \in 1..Len(taskLog) /\ taskLog'[n] = taskLog[n]
    BY <1>7, LogVersions
  <2>2. j \in 1..Len(taskLog')
    BY <2>0
  <2>3. CASE taskLog'[j] = v
    BY <2>0, <2>1, <2>3
  <2>4. CASE j \in 1..Len(taskLog) /\ taskLog'[j] = taskLog[j]
    <3>1. CASE i \in 1..Len(taskLog) /\ taskLog'[i] = taskLog[i]
      BY <1>1, <2>4, <3>1
    <3>2. CASE i = Len(taskLog') /\ taskLog'[i] = v
      BY <2>0, <2>1, <2>2, <3>2
    <3> QED  BY <2>1, <3>1, <3>2
  <2> QED  BY <2>1, <2>2, <2>3, <2>4
<1> QED  BY <1>4, <1>5, <1>6, <1>7 DEF TaskLogMoves

(* ------------------------------ The history -------------------------------- *)

\* The newest version is later than every version it was later than before: only
\* the operator takes the finalizer off, and it has seen the deletion.
LEMMA LaterStep ==
    ASSUME IInv, Sound(task), LifecycleStep, lastUid \in Nat,
           NEW a \in AgentTask, a.deleting => a.uid # 0, a.uid <= lastUid,
           Later(a, task),
           task.finalizer /\ task'.uid # task.uid => a = task
    PROVE  Later(a, task')
<1>1. task \in AgentTask /\ a.uid \in Nat
  BY LogTypes DEF IInv, AgentTask, task
<1>2. NoTask.uid = 0 /\ NoTask.finalizer = FALSE /\ NoTask.deleting = FALSE
  BY DEF NoTask, NewTask
<1>3. a.deleting => a.uid # 0
  OBVIOUS
<1>4. CASE task' = task
  BY <1>4
<1>5. CASE Lifecycle!Submit
  <2>1. task = NoTask /\ task'.uid = lastUid + 1
    BY <1>5, LifecycleTypes, OthersConsistent DEF Lifecycle!Submit, Sound
  <2>2. ~(a.finalizer /\ ~a.deleting)
    BY <1>2, <2>1, Zenon DEF Later
  <2>3. task'.uid # a.uid
    BY <1>1, <2>1
  <2> QED  BY <2>2, <2>3 DEF Later
<1>6. CASE Lifecycle!EditSpec \/ Lifecycle!Claim
  <2>1. /\ task'.uid = task.uid
        /\ task.finalizer => task'.finalizer
        /\ task'.deleting = task.deleting /\ task'.phase = task.phase
    BY <1>1, <1>6 DEF Lifecycle!EditSpec, Lifecycle!Claim, AgentTask
  <2> QED  BY <2>1 DEF Later, Past
<1>7. CASE Lifecycle!Advance
  <2>1. /\ task'.uid = task.uid /\ task'.finalizer = task.finalizer
        /\ task'.deleting = task.deleting
        /\ task'.phase \in Lifecycle!Successors[task.phase]
    BY <1>7 DEF Lifecycle!Advance, Lifecycle!MayAdvance
  <2>2. task.phase \in {"", "Pending", "Scheduled", "Running", "Succeeded", "Failed",
                        "Timeout", "Canceled"}
    BY <1>1 DEF AgentTask, Phase, Active, Terminal
  <2>3. task'.phase # "" /\ (Past(task) => Past(task'))
    BY <2>1, <2>2, SuccessorFacts DEF Past
  <2> QED  BY <2>1, <2>3 DEF Later
<1>8. CASE Lifecycle!Delete
  <2>1. task' = deletedTask(task) /\ task.uid # 0
    BY <1>8, LifecycleTypes DEF Lifecycle!Delete
  <2>2. CASE task.finalizer
    <3>1. task' = [task EXCEPT !.deleting = TRUE]
      BY <2>1, <2>2 DEF deletedTask
    <3>2. /\ task'.uid = task.uid /\ task'.finalizer = task.finalizer
          /\ task'.deleting /\ task'.phase = task.phase
      BY <1>1, <3>1 DEF AgentTask
    <3> QED  BY <3>2 DEF Later, Past
  <2>3. CASE ~task.finalizer
    <3>1. task' = NoTask
      BY <2>1, <2>3 DEF deletedTask
    <3> QED  BY <1>2, <1>3, <2>3, <3>1 DEF Later
  <2> QED  BY <2>2, <2>3
<1>9. CASE Lifecycle!Finalize
  <2>1. task' = NoTask /\ task.deleting /\ task.finalizer
    BY <1>9, LifecycleTypes DEF Lifecycle!Finalize
  <2>2. a = task
    BY <1>2, <2>1 DEF Sound
  <2> QED  BY <1>2, <1>3, <2>1, <2>2 DEF Later
<1> QED
  BY <1>4, <1>5, <1>6, <1>7, <1>8, <1>9 DEF LifecycleStep, Lifecycle!Next

\* A version that a step of the lifecycle makes of a sound task is sound.
LEMMA SoundStep ==
    ASSUME IInv, IInv', LifecycleStep, Sound(task), lastUid \in Nat,
           task.uid \in {0, lastUid}
    PROVE  /\ Sound(task') /\ lastUid' \in Nat /\ lastUid <= lastUid'
           /\ task'.uid \in {0, lastUid'} /\ task'.uid <= lastUid'
<1>1. /\ task \in AgentTask /\ Consistent(task')
      /\ task'.uid = 0 => task' = NoTask
  BY LogTypes DEF IInv, Settled, StatusConsistent, task
<1>2. NoTask.uid = 0 /\ NoTask.finalizer = FALSE /\ NoTask.deleting = FALSE
  BY DEF NoTask, NewTask
<1>3. CASE task' = task /\ lastUid' = lastUid
  BY <1>3
<1>4. CASE Lifecycle!Submit
  <2>1. task' = NewTask(lastUid + 1, task'.spec) /\ lastUid' = lastUid + 1
    BY <1>4, LifecycleTypes DEF Lifecycle!Submit
  <2>2. task'.uid = lastUid'
    BY <2>1, OthersConsistent
  <2>3. \A u, s : NewTask(u, s).deleting = FALSE
    BY DEF NewTask
  <2> QED  BY <1>1, <2>1, <2>2, <2>3 DEF Sound
<1>5. CASE Lifecycle!EditSpec \/ Lifecycle!Claim \/ Lifecycle!Advance
  <2>1. /\ task'.uid = task.uid
        /\ task.finalizer => task'.finalizer
        /\ task'.deleting = task.deleting /\ lastUid' = lastUid
    BY <1>1, <1>5
    DEF Lifecycle!EditSpec, Lifecycle!Claim, Lifecycle!Advance, Lifecycle!MayAdvance,
        AgentTask
  <2>2. Sound(task')
    BY <1>1, <2>1, Zenon DEF Sound
  <2> QED  BY <2>1, <2>2
<1>6. CASE Lifecycle!Delete \/ Lifecycle!Finalize
  <2>1. /\ lastUid' = lastUid
        /\ \/ task' = NoTask
           \/ task.finalizer /\ task' = [task EXCEPT !.deleting = TRUE]
    BY <1>6, LifecycleTypes DEF Lifecycle!Delete, Lifecycle!Finalize, deletedTask
  <2>2. CASE task' = NoTask
    BY <1>1, <1>2, <2>1, <2>2 DEF Sound
  <2>3. CASE task.finalizer /\ task' = [task EXCEPT !.deleting = TRUE]
    <3>1. task'.uid = task.uid /\ task'.finalizer
      BY <1>1, <2>3 DEF AgentTask
    <3> QED  BY <1>1, <2>1, <3>1 DEF Sound
  <2> QED  BY <2>1, <2>2, <2>3
<1> QED
  BY <1>3, <1>4, <1>5, <1>6 DEF LifecycleStep, Lifecycle!Next

\* Every step of the lifecycle keeps the history, if a task that still had its
\* finalizer only goes away when the cache shows what is stored.
LEMMA HistoryStep ==
    ASSUME IInv, IInv', History, task.uid \in {0, lastUid}, LifecycleStep, TaskLogMoves,
           task.finalizer /\ task'.uid # task.uid => CacheCurrent(taskLog)
    PROVE  /\ History' /\ task'.uid \in {0, lastUid'}
           /\ \A a \in AgentTask :
                /\ (a.deleting => a.uid # 0) /\ a.uid <= lastUid /\ Later(a, task)
                /\ task.finalizer /\ task'.uid # task.uid => a = task
                => Later(a, task')
<1>1. /\ taskLog \in Seq(AgentTask) /\ taskLog # <<>> /\ lastUid \in Nat
      /\ Len(taskLog) \in Nat
      /\ \A i \in 1..Len(taskLog) : taskLog[i] \in AgentTask /\ taskLog[i].uid \in Nat
  <2>1. /\ taskLog \in Seq(AgentTask) /\ taskLog # <<>> /\ lastUid \in Nat
        /\ Len(taskLog) \in Nat
    BY DEF IInv, TypeOK, ObjectTypes
  <2>2. \A i \in 1..Len(taskLog) : taskLog[i] \in AgentTask
    BY <2>1
  <2> QED  BY <2>1, <2>2 DEF AgentTask
<1>2. task = taskLog[Len(taskLog)] /\ Len(taskLog) \in 1..Len(taskLog)
  BY <1>1, MovesVersions
<1>3. Sound(task)
  BY <1>2 DEF History
<1>4. /\ Sound(task') /\ lastUid' \in Nat /\ lastUid <= lastUid'
      /\ task'.uid \in {0, lastUid'} /\ task'.uid <= lastUid'
  BY <1>1, <1>3, SoundStep
<1>5. \A a \in AgentTask :
        /\ (a.deleting => a.uid # 0) /\ a.uid <= lastUid /\ Later(a, task)
        /\ task.finalizer /\ task'.uid # task.uid => a = task
        => Later(a, task')
  BY <1>1, <1>3, LaterStep
<1>6. ASSUME NEW k \in 1..Len(taskLog)  PROVE Later(taskLog[k], task')
  <2>1. CacheCurrent(taskLog) => taskLog[k] = task
    BY <1>1, <1>2 DEF CacheCurrent
  <2>2. /\ Sound(taskLog[k]) /\ taskLog[k].uid <= lastUid /\ Later(taskLog[k], task)
        /\ taskLog[k] \in AgentTask
    BY <1>1, <1>2 DEF History
  <2>3. taskLog[k].deleting => taskLog[k].uid # 0
    <3>1. NoTask.deleting = FALSE
      BY DEF NoTask, NewTask
    <3> QED  BY <2>2, <3>1 DEF Sound
  <2> QED  BY <1>5, <2>1, <2>2, <2>3
<1>7. \A k \in 1..Len(taskLog) : /\ Sound(taskLog[k]) /\ taskLog[k].uid <= lastUid'
                                 /\ \A l \in k..Len(taskLog) :
                                      Later(taskLog[k], taskLog[l])
  BY <1>1, <1>4 DEF History
<1>8. Later(task', task')
  BY DEF Later
<1>9. \A i \in 1..Len(taskLog') :
        /\ Sound(taskLog'[i]) /\ taskLog'[i].uid <= lastUid'
        /\ \A j \in i..Len(taskLog') : Later(taskLog'[i], taskLog'[j])
  <2> SUFFICES ASSUME NEW i \in 1..Len(taskLog')
               PROVE  /\ Sound(taskLog'[i]) /\ taskLog'[i].uid <= lastUid'
                      /\ \A j \in i..Len(taskLog') : Later(taskLog'[i], taskLog'[j])
    OBVIOUS
  <2>1. i \in i..Len(taskLog')
    <3>1. taskLog' \in Seq(AgentTask) /\ Len(taskLog') \in Nat
      BY DEF IInv, TypeOK, ObjectTypes
    <3> QED  BY <3>1
  <2>2. \/ taskLog'[i] = task' \/ \E k \in 1..Len(taskLog) : taskLog'[i] = taskLog[k]
    BY <1>1, <2>1, MovesVersions
  <2>3. Sound(taskLog'[i]) /\ taskLog'[i].uid <= lastUid'
    BY <1>4, <1>7, <2>2
  <2>4. ASSUME NEW j \in i..Len(taskLog')  PROVE Later(taskLog'[i], taskLog'[j])
    BY <1>1, <1>6, <1>7, <1>8, MovesVersions
  <2> QED  BY <2>3, <2>4
<1> QED  BY <1>4, <1>5, <1>9 DEF History

(* ---------------------------- Steps of the operator ------------------------ *)

\* The first action of a reconcile neither writes the task nor keeps anything of
\* the reconcile before it, which is over.
LEMMA StartEffects ==
    ASSUME TypeOK, Held,
           \/ ReconcileGone \/ AddFinalizer \/ ReconcileDeleted \/ InitializePhase
           \/ IgnoreCancel \/ ReconcileCanceled \/ ReconcileTimeout
           \/ ReconcilePending \/ AwaitPod \/ ScheduledToRunning
           \/ ScheduledImagePullFailed \/ PodMissing \/ PodSucceeded \/ PodFailed
           \/ FinishedWait
    PROVE  /\ taskLog' = taskLog /\ lastUid' = lastUid
           /\ pc = "idle" /\ ~fresh /\ fresh' \in {FALSE, CacheCurrent(taskLog)}
<1>1. pc = "idle" /\ ~fresh /\ fresh \in BOOLEAN
  BY DEF ReconcileGone, AddFinalizer, ReconcileDeleted, InitializePhase, IgnoreCancel,
         ReconcileCanceled, ReconcileTimeout, ReconcilePending, AwaitPod,
         ScheduledToRunning, ScheduledImagePullFailed, PodMissing, PodSucceeded,
         PodFailed, FinishedWait, Dequeue, Held, TypeOK, ControlTypes
<1> QED
  BY <1>1
  DEF ReconcileGone, AddFinalizer, ReconcileDeleted, InitializePhase, IgnoreCancel,
      ReconcileCanceled, ReconcileTimeout, ReconcilePending, AwaitPod,
      ScheduledToRunning, ScheduledImagePullFailed, PodMissing, PodSucceeded,
      PodFailed, FinishedWait, Hold, HoldStatus, objectVars, controlVars

\* The steps of a reconcile between reading and writing the task.
LEMMA BetweenEffects ==
    ASSUME \/ DeleteFinishedPod \/ FinalizeAgentTask \/ CancelPod \/ TimeoutPod
           \/ EnsureCodeConfigMap \/ EnsureNetworkPolicy \/ Dispatch
    PROVE  /\ taskLog' = taskLog /\ lastUid' = lastUid
           /\ fresh' = FALSE \/ (fresh' = fresh /\ pc # "deletePod")
BY DEF DeleteFinishedPod, FinalizeAgentTask, CancelPod, TimeoutPod,
       EnsureCodeConfigMap, EnsureNetworkPolicy, Dispatch, EnsureSandbox, EnsurePod,
       ThenStatus, Return, ReturnRequeue

\* The steps that write the task, and only they, add a version.  A task that still
\* has its finalizer goes away in UpdateTask alone.
LEMMA WriteEffects ==
    ASSUME HInv, UpdateTask \/ UpdateStatus \/ FinishedExpired \/ User
    PROVE  /\ \/ taskLog' = taskLog \/ \E v \in AgentTask : taskLog' = Write(taskLog, v)
           /\ fresh' = FALSE \/ pc' = "deletePod"
           /\ task.finalizer /\ task'.uid # task.uid
                => CacheCurrent(taskLog) /\ pc = "update" /\ pc' = "idle"
<1>1. /\ IInv /\ task \in AgentTask /\ obj \in AgentTask /\ NoTask \in AgentTask
      /\ lastUid \in Nat /\ deletedTask(task) \in AgentTask
      /\ taskLog \in Seq(AgentTask) /\ taskLog # <<>> /\ fresh \in BOOLEAN
      /\ task.uid = 0 => task = NoTask
  BY LogTypes, NewTaskValues, TaskValues
  DEF HInv, IInv, TypeOK, ObjectTypes, ControlTypes, Settled, task
<1>2. \A v \in AgentTask : taskLog' = Write(taskLog, v) => task' = v
  BY <1>1, LogWrite DEF task
<1>3. NoTask.uid = 0 /\ NoTask.finalizer = FALSE
  BY DEF NoTask, NewTask
<1>4. task.finalizer => task.uid # 0 /\ deletedTask(task).uid = task.uid
  BY <1>1, <1>3 DEF deletedTask, AgentTask
<1>5. CASE FinishedExpired
  <2>1. taskLog' = Write(taskLog, deletedTask(task)) /\ fresh' = fresh /\ pc = "idle"
    BY <1>5 DEF FinishedExpired, Dequeue, controlVars, task
  <2>2. ~fresh
    BY <1>1, <2>1 DEF IInv, Held
  <2> QED  BY <1>1, <1>2, <1>4, <2>1, <2>2
<1>6. CASE DeleteTask
  <2>1. taskLog' = Write(taskLog, deletedTask(task)) /\ fresh' = FALSE
    BY <1>6 DEF DeleteTask, task
  <2> QED  BY <1>1, <1>2, <1>4, <2>1
<1>7. ASSUME NEW s \in Specs, CreateTask(s)
      PROVE  /\ \E v \in AgentTask : taskLog' = Write(taskLog, v)
             /\ fresh' = FALSE /\ ~task.finalizer
  <2>1. NewTask(lastUid + 1, s) \in AgentTask
    BY <1>1, SpecsAssumption, NewTaskValues
  <2> QED  BY <1>1, <1>3, <1>7, <2>1 DEF CreateTask, task
<1>8. ASSUME NEW s \in Specs, UpdateSpec(s)
      PROVE  /\ \E v \in AgentTask : taskLog' = Write(taskLog, v)
             /\ fresh' = FALSE /\ task'.uid = task.uid
  <2>1. [task EXCEPT !.spec = s] \in AgentTask /\ [task EXCEPT !.spec = s].uid = task.uid
    BY <1>1, SpecsAssumption, TaskValues DEF AgentTask
  <2>2. taskLog' = Write(taskLog, [task EXCEPT !.spec = s]) /\ fresh' = FALSE
    BY <1>8 DEF UpdateSpec, task
  <2> QED  BY <1>2, <2>1, <2>2
<1>9. CASE UpdateTask
  <2>1. pc = "update" /\ pc' = "idle" /\ fresh' = FALSE
    BY <1>9 DEF UpdateTask, Return, ReturnRequeue
  <2>2. CASE taskLog' = taskLog
    BY <2>1, <2>2 DEF task
  <2>3. CASE fresh /\ \E v \in AgentTask : taskLog' = Write(taskLog, v)
    BY <2>1, <2>3 DEF HInv, FreshCurrent
  <2> QED  BY <1>1, <1>9, <2>2, <2>3 DEF UpdateTask, upToDate
<1>10. CASE UpdateStatus
  <2>1. fresh' = FALSE \/ pc' = "deletePod"
    BY <1>10 DEF UpdateStatus, Return, ReturnRequeue
  <2>2. CASE taskLog' = taskLog
    BY <2>1, <2>2 DEF task
  <2>3. CASE fresh /\ pc = "status" /\ taskLog' = Write(taskLog, obj)
    <3>1. obj.uid = task.uid
      BY <1>1, <2>3 DEF IInv, Held, Lifecycle!MayAdvance
    <3> QED  BY <1>1, <1>2, <2>1, <2>3, <3>1
  <2> QED  BY <1>1, <1>10, <2>2, <2>3 DEF UpdateStatus, upToDate
<1> QED  BY <1>5, <1>6, <1>7, <1>8, <1>9, <1>10 DEF User

\* What any step does to the versions of the task and to the reconcile's hold on
\* the newest one.
LEMMA StepEffects ==
    ASSUME HInv, [Next]_vars
    PROVE  /\ TaskLogMoves /\ FreshCurrent'
           /\ task.finalizer /\ task'.uid # task.uid
                => CacheCurrent(taskLog) /\ pc = "update" /\ pc' = "idle"
<1>1. /\ TypeOK /\ Held /\ FreshCurrent
      /\ taskLog \in Seq(AgentTask) /\ taskLog # <<>>
  BY DEF HInv, IInv, TypeOK, ObjectTypes
<1>2. ASSUME \/ ReconcileGone \/ AddFinalizer \/ ReconcileDeleted \/ InitializePhase
             \/ IgnoreCancel \/ ReconcileCanceled \/ ReconcileTimeout
             \/ ReconcilePending \/ AwaitPod \/ ScheduledToRunning
             \/ ScheduledImagePullFailed \/ PodMissing \/ PodSucceeded \/ PodFailed
             \/ FinishedWait
      PROVE  taskLog' = taskLog /\ FreshCurrent'
  BY <1>1, <1>2, StartEffects DEF FreshCurrent
<1>3. ASSUME \/ DeleteFinishedPod \/ FinalizeAgentTask \/ CancelPod \/ TimeoutPod
             \/ EnsureCodeConfigMap \/ EnsureNetworkPolicy \/ Dispatch
      PROVE  taskLog' = taskLog /\ FreshCurrent'
  <2>1. taskLog' = taskLog /\ (fresh' = FALSE \/ (fresh' = fresh /\ pc # "deletePod"))
    BY <1>3, BetweenEffects
  <2>2. FreshCurrent
    BY <1>1
  <2> QED  BY <2>1, <2>2 DEF FreshCurrent, CacheCurrent
<1>4. ASSUME UpdateTask \/ UpdateStatus \/ FinishedExpired \/ User
      PROVE  /\ TaskLogMoves /\ FreshCurrent'
             /\ task.finalizer /\ task'.uid # task.uid
                  => CacheCurrent(taskLog) /\ pc = "update" /\ pc' = "idle"
  BY <1>4, WriteEffects DEF TaskLogMoves, FreshCurrent
<1>5. ASSUME Fault
      PROVE  /\ taskLog' = taskLog \/ taskLog' = Relist(taskLog)
             /\ FreshCurrent'
  BY <1>5 DEF Fault, CallFails, Crash, ReturnRequeue, Return, objectVars, FreshCurrent
<1>6. ASSUME DeliverTask
      PROVE  Lagging(taskLog) /\ taskLog' = Deliver(taskLog) /\ FreshCurrent'
  <2>1. Lagging(taskLog) => ~CacheCurrent(taskLog)
    BY <1>1, LogForgets
  <2> QED  BY <1>1, <1>6, <2>1 DEF DeliverTask, controlVars, FreshCurrent
<1>7. ASSUME \/ DeliverPod \/ DeliverOwned \/ TimerFires \/ Resync
             \/ Kubelet \/ CollectGarbage \/ Tick \/ UNCHANGED vars
      PROVE  taskLog' = taskLog /\ FreshCurrent'
  <2>1. taskLog' = taskLog /\ UNCHANGED controlVars
    BY <1>7
    DEF DeliverPod, DeliverOwned, TimerFires, Resync, Kubelet, PullFails,
        StartContainer, ExitContainer, EvictPod, DrainPod, RemovePod, PodBecomes,
        CollectGarbage, Tick, vars, objectVars, controlVars
  <2> QED  BY <1>1, <2>1 DEF controlVars, FreshCurrent
<1>8. \/ taskLog' = taskLog \/ taskLog' = Relist(taskLog)
      \/ Lagging(taskLog) /\ taskLog' = Deliver(taskLog)
      => task' = task /\ TaskLogMoves
  BY <1>1, LogDeliver DEF task, TaskLogMoves
<1> QED
  BY <1>2, <1>3, <1>4, <1>5, <1>6, <1>7, <1>8
  DEF Next, ReconcileStep, WakeUp, Environment

\* Every step keeps the history.
LEMMA HistoryNext ==
    ASSUME HInv, [Next]_vars
    PROVE  HInv'
BY InvariantStep, StepEffects, HistoryStep DEF HInv

\* It holds at the start.
LEMMA HistoryInit == Init => HInv
<1> SUFFICES ASSUME Init PROVE HInv
  OBVIOUS
<1>1. /\ IInv /\ taskLog = <<NoTask>> /\ lastUid = 0 /\ fresh = FALSE /\ task = NoTask
      /\ Len(taskLog) = 1 /\ taskLog[1] = NoTask
  BY InvariantInit DEF Init, task, Stored
<1>2. NoTask.uid = 0 /\ NoTask.deleting = FALSE
  BY DEF NoTask, NewTask
<1>3. Sound(NoTask) /\ Later(NoTask, NoTask)
  BY <1>2, OthersConsistent DEF Sound, Later
<1>4. \A i \in 1..1 : i = 1 /\ \A j \in i..1 : j = 1
  OBVIOUS
<1>5. History
  BY <1>1, <1>2, <1>3, <1>4 DEF History
<1> QED  BY <1>1, <1>2, <1>5 DEF HInv, FreshCurrent

\* An initialised task that the cache shows is the stored one.
LEMMA CachedOwn ==
    ASSUME HInv, Initialized(Cached(taskLog))
    PROVE  task.uid = Cached(taskLog).uid
<1>1. taskLog \in Seq(AgentTask) /\ taskLog # <<>>
  BY DEF HInv, IInv, TypeOK, ObjectTypes
<1>2. 1 \in 1..Len(taskLog) /\ Len(taskLog) \in 1..Len(taskLog)
  BY <1>1
<1>3. Later(Cached(taskLog), task)
  BY <1>2 DEF HInv, History, Cached, Stored, task
<1> QED  BY <1>3 DEF Later, Initialized, hasFinalizer

\* A cache that shows the stored version still does after a step that stores none.
LEMMA CurrentStays ==
    ASSUME taskLog \in Seq(AgentTask), taskLog # <<>>,
           TaskLogMoves, task' = task, CacheCurrent(taskLog)
    PROVE  CacheCurrent(taskLog')
<1>1. ASSUME NEW v \in AgentTask, taskLog' = Write(taskLog, v)
      PROVE  taskLog' = taskLog
  <2>1. v = Stored(taskLog)
    BY <1>1, LogWrite DEF task
  <2> QED  BY <1>1, <2>1 DEF Write
<1>2. CASE taskLog' = Relist(taskLog)
  BY <1>2, LogForgets DEF CacheCurrent
<1>3. ~Lagging(taskLog)
  BY LogForgets
<1> QED  BY <1>1, <1>2, <1>3 DEF TaskLogMoves, CacheCurrent
================================================================================
