----------------------------- MODULE FirstTaskProofs -----------------------------
(***************************************************************************)
(* What the operator gives a task whose name is used for the first time,   *)
(* for every value of the constants: a NetworkPolicy, a result and logs of *)
(* its own.  ensurePod, ensureNetworkPolicy and ensureCodeConfigMap take   *)
(* whatever they find under the name, so that none of this holds once a    *)
(* name is reused before the garbage collector is done.                    *)
(***************************************************************************)
EXTENDS TaskEndProofs

\* No task of the name has been there before.
First == lastUid <= 1

(* --------------------------- Objects of the name --------------------------- *)

\* The main container has started, if only to end.
Started(p) == p.task \notin {"waiting", "pullErr"}

\* A container that started found the code volume set up; a pod that runs or has
\* succeeded is one whose main container does or did.
Ran(p) ==
    /\ p.phase = "Succeeded" => p.task = "ok"
    /\ p.phase = "Running" => Started(p)
    /\ Started(p) => p.code # 0

\* Unless p or q is no pod at all, q does not undo the start of p.
Follows(p, q) == p.owner # 0 /\ q.owner # 0 /\ Started(p) => Started(q)

\* The pod and its code belong to one of the first n tasks.
PodOf(p, n) == Ran(p) /\ p.owner <= n /\ p.code <= n

\* Whatever is, or was, stored under the name belongs to a task that was created.
Owned ==
    /\ \A i \in 1..Len(podLog) : PodOf(podLog[i], lastUid)
    /\ \A i \in 1..Len(cmLog) : cmLog[i] <= lastUid
    /\ \A i \in 1..Len(npLog) : npLog[i] <= lastUid
    /\ sandbox <= lastUid

\* What a status of the kubelet does to a pod.
LEMMA StatusOfPod ==
    ASSUME NEW p \in Pod, NEW c \in Containers, NEW s \in ContainerState
    PROVE  /\ withStatus(p, c, s) \in Pod
           /\ withStatus(p, c, s).owner = p.owner /\ withStatus(p, c, s).code = p.code
           /\ withStatus(p, c, s).task = IF c = "task" THEN s ELSE p.task
           /\ withStatus(p, c, s).phase = "Succeeded" => withStatus(p, c, s).task = "ok"
           /\ withStatus(p, c, s).phase = "Running" => Started(withStatus(p, c, s))
<1>1. \A a, b : /\ podPhase(a, b) = "Succeeded" => a = "ok"
                /\ podPhase(a, b) = "Running" => a \notin {"waiting", "pullErr"}
  BY DEF podPhase
<1> DEFINE a == IF c = "task" THEN s ELSE p.task
           b == IF c = "collector" THEN s ELSE p.collector
           w == [p EXCEPT !.task = a, !.collector = b, !.phase = podPhase(a, b)]
<1>2. withStatus(p, c, s) = w
  BY DEF withStatus
<1>3. withStatus(p, c, s) \in Pod
  BY PodValues
<1> HIDE DEF a, b
<1>4. w.owner = p.owner /\ w.code = p.code /\ w.task = a /\ w.phase = podPhase(a, b)
  BY DEF Pod
<1> QED  BY <1>1, <1>2, <1>3, <1>4 DEF a, Started

\* What may become of the stored pod.
LEMMA PodOfValues ==
    ASSUME NEW n \in Nat, NEW p \in Pod, PodOf(p, n)
    PROVE  /\ PodOf([p EXCEPT !.deleting = TRUE], n)
           /\ PodOf([p EXCEPT !.phase = "Failed", !.task = killed(@),
                              !.collector = killed(@)], n)
           /\ \A u \in Nat : \A m : u <= n => PodOf(NewPod(u, m), n)
           /\ PodOf(NoPod, n)
           /\ \A c \in Containers, s \in ContainerState :
                s \in {"waiting", "pullErr"} \/ (c = "task" => p.code # 0)
                => PodOf(withStatus(p, c, s), n)
           /\ \A c \in Containers, s \in ContainerState, k \in Nat :
                k # 0 /\ k <= n => PodOf([withStatus(p, c, s) EXCEPT !.code = k], n)
<1>1. p.owner \in Nat /\ p.code \in Nat
  BY DEF Pod
<1>2. PodOf([p EXCEPT !.deleting = TRUE], n)
  BY DEF PodOf, Ran, Started, Pod
<1>3. PodOf([p EXCEPT !.phase = "Failed", !.task = killed(@),
                      !.collector = killed(@)], n)
  BY DEF PodOf, Ran, Started, Pod, killed
<1>4. \A u \in Nat : \A m : u <= n => PodOf(NewPod(u, m), n)
  BY DEF PodOf, Ran, Started, NewPod
<1>5. PodOf(NoPod, n)
  BY <1>4 DEF NoPod
<1>6. ASSUME NEW c \in Containers, NEW s \in ContainerState,
             s \in {"waiting", "pullErr"} \/ (c = "task" => p.code # 0)
      PROVE  PodOf(withStatus(p, c, s), n)
  BY <1>6, StatusOfPod DEF PodOf, Ran, Started
<1>7. ASSUME NEW c \in Containers, NEW s \in ContainerState, NEW k \in Nat,
             k # 0, k <= n
      PROVE  PodOf([withStatus(p, c, s) EXCEPT !.code = k], n)
  <2> DEFINE w == withStatus(p, c, s)
  <2>1. /\ w \in Pod /\ w.owner = p.owner
        /\ w.phase = "Succeeded" => w.task = "ok"
        /\ w.phase = "Running" => Started(w)
    BY StatusOfPod
  <2> HIDE DEF w
  <2>2. /\ [w EXCEPT !.code = k].owner = w.owner /\ [w EXCEPT !.code = k].task = w.task
        /\ [w EXCEPT !.code = k].phase = w.phase /\ [w EXCEPT !.code = k].code = k
    BY <2>1 DEF Pod
  <2> QED  BY <1>7, <2>1, <2>2 DEF PodOf, Ran, Started, w
<1> QED  BY <1>2, <1>3, <1>4, <1>5, <1>6, <1>7

\* The types of the objects, and their versions at both ends of the logs.
LEMMA OwnedTypes ==
    ASSUME HInv, Owned
    PROVE  /\ podLog \in Seq(Pod) /\ podLog # <<>>
           /\ cmLog \in Seq(Nat) /\ cmLog # <<>> /\ npLog \in Seq(Nat) /\ npLog # <<>>
           /\ sandbox \in Nat /\ lastUid \in Nat
           /\ PodOf(pod, lastUid) /\ PodOf(Cached(podLog), lastUid)
           /\ Stored(cmLog) \in Nat /\ Stored(cmLog) <= lastUid
           /\ Stored(npLog) \in Nat /\ Stored(npLog) <= lastUid
           /\ Cached(npLog) \in Nat
<1>1. /\ podLog \in Seq(Pod) /\ podLog # <<>>
      /\ cmLog \in Seq(Nat) /\ cmLog # <<>> /\ npLog \in Seq(Nat) /\ npLog # <<>>
      /\ sandbox \in Nat /\ lastUid \in Nat /\ TypeOK
  BY HTypes DEF TypeOK, ObjectTypes
<1>2. /\ Stored(podLog) = podLog[Len(podLog)] /\ Len(podLog) \in 1..Len(podLog)
      /\ Cached(podLog) = podLog[1] /\ 1 \in 1..Len(podLog)
  BY <1>1, LogMoves DEF Moves
<1>3. Stored(cmLog) = cmLog[Len(cmLog)] /\ Len(cmLog) \in 1..Len(cmLog)
  BY <1>1, LogMoves DEF Moves
<1>4. Stored(npLog) = npLog[Len(npLog)] /\ Len(npLog) \in 1..Len(npLog)
  BY <1>1, LogMoves DEF Moves
<1>5. Stored(cmLog) \in Nat /\ Stored(npLog) \in Nat /\ Cached(npLog) \in Nat
  BY <1>1, LogTypes
<1> QED  BY <1>1, <1>2, <1>3, <1>4, <1>5 DEF Owned, pod

\* Whatever happens to the pod, it stays the pod of a task that was created, and
\* runs nothing but the code of one.
LEMMA PodOfStep ==
    ASSUME HInv, InFlight, Owned, [Next]_vars
    PROVE  /\ Moves(Pod, podLog, podLog')
           /\ pod' \in Pod /\ PodOf(pod', lastUid) /\ Follows(pod, pod')
<1>1. /\ pod \in Pod /\ podLog \in Seq(Pod) /\ podLog # <<>> /\ lastUid \in Nat
      /\ PodOf(pod, lastUid) /\ Stored(cmLog) \in Nat /\ Stored(cmLog) <= lastUid
      /\ obj \in AgentTask
  BY HTypes, OwnedTypes
<1>2. /\ Follows(pod, [pod EXCEPT !.deleting = TRUE])
      /\ Follows(pod, [pod EXCEPT !.phase = "Failed", !.task = killed(@),
                                  !.collector = killed(@)])
      /\ Follows(pod, NoPod)
  BY <1>1 DEF Follows, Started, killed, NoPod, NewPod, Pod
<1> DEFINE Good == /\ Moves(Pod, podLog, podLog')
                   /\ PodOf(pod', lastUid) /\ Follows(pod, pod')
<1>3. ASSUME NEW q \in Pod, PodOf(q, lastUid), Follows(pod, q),
             podLog' = Write(podLog, q)
      PROVE  Good
  BY <1>1, <1>3, LogWrite DEF Moves, pod
<1>4. ASSUME podLog' = podLog  PROVE Good
  BY <1>1, <1>4 DEF Moves, Follows, pod
<1>5. ASSUME \/ podLog' = Relist(podLog)
             \/ Lagging(podLog) /\ podLog' = Deliver(podLog)
      PROVE  Good
  BY <1>1, <1>5, LogDeliver DEF Moves, Follows, pod
<1>6. ASSUME deleteStoredPod  PROVE Good
  <2>1. [pod EXCEPT !.deleting = TRUE] \in Pod /\ PodOf([pod EXCEPT !.deleting = TRUE], lastUid)
    BY <1>1, PodValues, PodOfValues
  <2> QED  BY <1>2, <1>3, <1>4, <1>6, <2>1 DEF deleteStoredPod, pod
<1> HIDE DEF Good
<1>7. ASSUME NEW c \in Containers, PullFails(c)  PROVE Good
  <2>1. podLog' = Write(podLog, withStatus(pod, c, "pullErr"))
    BY <1>7 DEF PullFails, PodBecomes, pod
  <2>2. "pullErr" \in ContainerState
    BY DEF ContainerState
  <2>3. /\ withStatus(pod, c, "pullErr") \in Pod
        /\ PodOf(withStatus(pod, c, "pullErr"), lastUid)
    BY <1>1, <2>2, StatusOfPod, PodOfValues
  <2>4. c = "task" => ~Started(pod)
    BY <1>7 DEF PullFails, Started, pod
  <2>5. Follows(pod, withStatus(pod, c, "pullErr"))
    BY <1>1, <2>2, <2>4, StatusOfPod DEF Follows, Started
  <2> QED  BY <1>3, <2>1, <2>3, <2>5
<1>8. ASSUME NEW c \in Containers, StartContainer(c)  PROVE Good
  <2> DEFINE k == codeVolume(pod)
             w == withStatus(pod, c, "running")
  <2>1. podLog' = Write(podLog, [w EXCEPT !.code = k]) /\ k # 0
    BY <1>8 DEF StartContainer, PodBecomes, pod
  <2>2. k \in Nat /\ k <= lastUid
    BY <1>1 DEF codeVolume, PodOf, Pod
  <2>3. "running" \in ContainerState
    BY DEF ContainerState
  <2> HIDE DEF k
  <2>4. w \in Pod /\ PodOf([w EXCEPT !.code = k], lastUid)
    BY <1>1, <2>1, <2>2, <2>3, StatusOfPod, PodOfValues
  <2>5. [w EXCEPT !.code = k] \in Pod
    BY <2>2, <2>4, PodValues
  <2>6. [w EXCEPT !.code = k].task = w.task
    BY <2>4 DEF Pod
  <2>7. Started(pod) => Started(w)
    BY <1>1, <2>3, StatusOfPod DEF Started
  <2>8. Follows(pod, [w EXCEPT !.code = k])
    BY <2>6, <2>7 DEF Follows, Started
  <2> QED  BY <1>3, <2>1, <2>4, <2>5, <2>8
<1>9. ASSUME NEW c \in Containers, ExitContainer(c)  PROVE Good
  <2>1. PICK e \in exits(c) : podLog' = Write(podLog, withStatus(pod, c, e))
    BY <1>9 DEF ExitContainer, PodBecomes, pod
  <2>2. e \in ContainerState
    BY <2>1, PodAssumption DEF exits, ContainerState
  <2>3. c = "task" => pod.task = "running"
    BY <1>9 DEF ExitContainer, pod
  <2>4. c = "task" => pod.code # 0
    BY <1>1, <2>3 DEF PodOf, Ran, Started
  <2>5. withStatus(pod, c, e) \in Pod /\ PodOf(withStatus(pod, c, e), lastUid)
    BY <1>1, <2>2, <2>4, StatusOfPod, PodOfValues
  <2>6. e \in {"ok", "err"}
    BY <2>1, PodAssumption DEF exits
  <2>7. Follows(pod, withStatus(pod, c, e))
    BY <1>1, <2>2, <2>6, StatusOfPod DEF Follows, Started
  <2> QED  BY <1>3, <2>1, <2>5, <2>7
<1>10. ASSUME EvictPod \/ DrainPod \/ RemovePod  PROVE Good
  <2>1. \/ podLog' = Write(podLog, [pod EXCEPT !.phase = "Failed", !.task = killed(@),
                                               !.collector = killed(@)])
        \/ podLog' = Write(podLog, [pod EXCEPT !.deleting = TRUE])
        \/ podLog' = Write(podLog, NoPod)
    BY <1>10 DEF EvictPod, DrainPod, RemovePod, PodBecomes, pod
  <2> QED  BY <1>2, <1>1, <1>3, <2>1, PodValues, NewPodValues, PodOfValues
<1>11. ASSUME CollectGarbage  PROVE Good
  <2>1. podLog' = podLog \/ podLog' = Write(podLog, [pod EXCEPT !.deleting = TRUE])
    BY <1>11 DEF CollectGarbage, pod
  <2> QED  BY <1>2, <1>1, <1>3, <1>4, <2>1, PodValues, PodOfValues
<1>12. ASSUME Dispatch  PROVE Good
  <2>1. \/ podLog' = podLog
        \/ /\ pod.owner = 0
           /\ \E m \in {"own", "ref"} : podLog' = Write(podLog, NewPod(obj.uid, m))
    BY <1>12 DEF Dispatch, EnsureSandbox, EnsurePod, podNameFree, pod
  <2>2. obj.uid \in Nat /\ obj.uid <= lastUid
    BY <1>1, <1>12 DEF Dispatch, InFlight, Creating, Read, AgentTask
  <2>3. \A m \in {"own", "ref"} : NewPod(obj.uid, m) \in Pod
                                  /\ PodOf(NewPod(obj.uid, m), lastUid)
    BY <1>1, <2>2, NewPodValues, PodOfValues
  <2>4. pod.owner = 0 => \A q : Follows(pod, q)
    BY DEF Follows
  <2> QED  BY <1>3, <1>4, <2>1, <2>3, <2>4
<1>13. ASSUME \/ DeleteFinishedPod \/ FinalizeAgentTask \/ CancelPod \/ TimeoutPod
       PROVE  Good
  BY <1>4, <1>6, <1>13 DEF DeleteFinishedPod, FinalizeAgentTask, CancelPod, TimeoutPod
<1>14. ASSUME Fault \/ DeliverPod  PROVE Good
  BY <1>4, <1>5, <1>14 DEF Fault, CallFails, Crash, DeliverPod, objectVars
<1>15. ASSUME \/ ReconcileGone \/ AddFinalizer \/ ReconcileDeleted \/ InitializePhase
              \/ IgnoreCancel \/ ReconcileCanceled \/ ReconcileTimeout
              \/ ReconcilePending \/ AwaitPod \/ ScheduledToRunning
              \/ ScheduledImagePullFailed \/ PodMissing \/ PodSucceeded \/ PodFailed
              \/ FinishedWait \/ FinishedExpired
       PROVE  podLog' = podLog
  BY <1>15
  DEF ReconcileGone, AddFinalizer, ReconcileDeleted, InitializePhase, IgnoreCancel,
      ReconcileCanceled, ReconcileTimeout, ReconcilePending, AwaitPod,
      ScheduledToRunning, ScheduledImagePullFailed, PodMissing, PodSucceeded,
      PodFailed, FinishedWait, FinishedExpired, objectVars
<1>16. ASSUME \/ UpdateTask \/ UpdateStatus \/ EnsureCodeConfigMap \/ EnsureNetworkPolicy
              \/ DeliverTask \/ DeliverOwned \/ TimerFires \/ Resync \/ Tick \/ User
              \/ UNCHANGED vars
       PROVE  podLog' = podLog
  BY <1>16
  DEF UpdateTask, UpdateStatus, EnsureCodeConfigMap, EnsureNetworkPolicy, DeliverTask,
      DeliverOwned, TimerFires, Resync, Tick, User, CreateTask, UpdateSpec, DeleteTask,
      userVars, vars, objectVars
<1>17. Good
  BY <1>4, <1>7, <1>8, <1>9, <1>10, <1>11, <1>12, <1>13, <1>14, <1>15, <1>16
  DEF Next, ReconcileStep, WakeUp, Environment, Kubelet
<1>18. podLog' \in Seq(Pod) /\ podLog' # <<>>
  BY <1>1, <1>17, LogMoves DEF Good
<1>19. pod' \in Pod
  BY <1>18, LogReads DEF pod
<1> QED  BY <1>17, <1>19 DEF Good

\* What may become of the ConfigMap: it is that of a task that was created.
CodeMapMove == Moves(Nat, cmLog, cmLog') /\ Stored(cmLog') <= lastUid

\* What may become of the NetworkPolicy, and when reconcilePending is past it.
PolicyMove ==
    /\ Moves(Nat, npLog, npLog')
    /\ \/ Stored(npLog') = Stored(npLog)
       \/ Stored(npLog') = obj.uid /\ pc = "ensureNetworkPolicy" /\ task' = task
       \/ Stored(npLog') = 0 /\ orphan(Stored(npLog)) /\ task' = task
    /\ pc' = "dispatch" =>
         \/ pc = "dispatch"
         \/ pc = "ensureNetworkPolicy" /\ Stored(npLog') = obj.uid
         \/ Cached(npLog) # 0 /\ npLog' = npLog /\ task' = task

\* What may become of the sandbox.
SandboxMove ==
    \/ sandbox' = sandbox
    \/ sandbox' = obj.uid /\ sandbox = 0 /\ pc = "dispatch" /\ task' = task
    \/ sandbox' = 0 /\ orphan(sandbox) /\ task' = task /\ UNCHANGED controlVars

\* Every step does one of these.
LEMMA OwnedMoves ==
    ASSUME HInv, InFlight, Owned, [Next]_vars
    PROVE  CodeMapMove /\ PolicyMove /\ SandboxMove
<1>1. /\ cmLog \in Seq(Nat) /\ cmLog # <<>> /\ npLog \in Seq(Nat) /\ npLog # <<>>
      /\ lastUid \in Nat /\ Stored(cmLog) \in Nat /\ Stored(cmLog) <= lastUid
      /\ Stored(npLog) \in Nat /\ obj \in AgentTask
  BY HTypes, OwnedTypes
<1>2. obj.uid \in Nat /\ (pc \in Creating => obj.uid # 0 /\ obj.uid <= lastUid)
  BY <1>1 DEF AgentTask, InFlight, Read
<1>3. ASSUME NEW log \in Seq(Nat), log # <<>>, NEW next,
             \/ next = log \/ next = Relist(log)
             \/ Lagging(log) /\ next = Deliver(log)
      PROVE  Moves(Nat, log, next) /\ Stored(next) = Stored(log)
  BY <1>3, LogDeliver DEF Moves
<1>4. ASSUME NEW log \in Seq(Nat), log # <<>>, NEW n \in Nat
      PROVE  Moves(Nat, log, Write(log, n)) /\ Stored(Write(log, n)) = n
  BY <1>4, LogWrite DEF Moves
<1>5. ASSUME \/ cmLog' = cmLog \/ cmLog' = Relist(cmLog)
             \/ Lagging(cmLog) /\ cmLog' = Deliver(cmLog)
      PROVE  CodeMapMove
  BY <1>1, <1>3, <1>5 DEF CodeMapMove
<1>6. ASSUME \/ npLog' = npLog \/ npLog' = Relist(npLog)
             \/ Lagging(npLog) /\ npLog' = Deliver(npLog),
             pc' = pc \/ pc' # "dispatch"
      PROVE  PolicyMove
  BY <1>1, <1>3, <1>6 DEF PolicyMove
<1>7. ASSUME EnsureCodeConfigMap  PROVE CodeMapMove /\ PolicyMove /\ SandboxMove
  <2>1. cmLog' = cmLog \/ cmLog' = Write(cmLog, obj.uid)
    BY <1>7 DEF EnsureCodeConfigMap, ensureOwned
  <2>2. pc \in Creating
    BY <1>7 DEF EnsureCodeConfigMap, Creating
  <2>3. cmLog' = Write(cmLog, obj.uid) => CodeMapMove
    BY <1>1, <1>2, <1>4, <2>2 DEF CodeMapMove
  <2>4. npLog' = npLog /\ sandbox' = sandbox /\ pc' # "dispatch"
    BY <1>7 DEF EnsureCodeConfigMap, Return, ReturnRequeue
  <2> QED  BY <1>5, <1>6, <2>1, <2>3, <2>4 DEF SandboxMove
<1>8. ASSUME EnsureNetworkPolicy  PROVE CodeMapMove /\ PolicyMove /\ SandboxMove
  <2>1. /\ cmLog' = cmLog /\ sandbox' = sandbox /\ pc = "ensureNetworkPolicy"
        /\ task' = task
        /\ \/ npLog' = npLog /\ pc' # "dispatch"
           \/ npLog' = npLog /\ Cached(npLog) # 0
           \/ npLog' = Write(npLog, obj.uid)
    BY <1>8 DEF EnsureNetworkPolicy, ensureOwned, missing, Return, ReturnRequeue, task
  <2>2. ASSUME npLog' = Write(npLog, obj.uid)  PROVE PolicyMove
    <3>1. Moves(Nat, npLog, npLog') /\ Stored(npLog') = obj.uid
      BY <1>1, <1>2, <1>4, <2>2
    <3> QED  BY <2>1, <3>1 DEF PolicyMove
  <2>3. ASSUME npLog' = npLog, Cached(npLog) # 0  PROVE PolicyMove
    <3>1. Moves(Nat, npLog, npLog') /\ Stored(npLog') = Stored(npLog)
      BY <1>1, <1>3, <2>3
    <3> QED  BY <2>1, <2>3, <3>1 DEF PolicyMove
  <2> QED  BY <1>5, <1>6, <2>1, <2>2, <2>3 DEF SandboxMove
<1>9. ASSUME CollectGarbage  PROVE CodeMapMove /\ PolicyMove /\ SandboxMove
  <2>1. /\ task' = task /\ UNCHANGED controlVars /\ pc' = pc
        /\ cmLog' = cmLog \/ cmLog' = Write(cmLog, 0)
        /\ npLog' = npLog \/ (orphan(Stored(npLog)) /\ npLog' = Write(npLog, 0))
        /\ sandbox' = sandbox \/ (orphan(sandbox) /\ sandbox' = 0)
    BY <1>9 DEF CollectGarbage, controlVars, task
  <2>2. cmLog' = Write(cmLog, 0) => CodeMapMove
    BY <1>1, <1>4 DEF CodeMapMove
  <2>3. ASSUME orphan(Stored(npLog)), npLog' = Write(npLog, 0)  PROVE PolicyMove
    <3>1. Moves(Nat, npLog, npLog') /\ Stored(npLog') = 0
      BY <1>1, <1>4, <2>3
    <3> QED  BY <2>1, <2>3, <3>1 DEF PolicyMove
  <2> QED  BY <1>5, <1>6, <2>1, <2>2, <2>3 DEF SandboxMove
<1>10. ASSUME Dispatch  PROVE CodeMapMove /\ PolicyMove /\ SandboxMove
  <2>1. cmLog' = cmLog /\ npLog' = npLog /\ task' = task /\ pc = "dispatch"
    BY <1>10 DEF Dispatch, task
  <2>2. sandbox' = sandbox \/ (sandbox' = obj.uid /\ sandbox = 0)
    BY <1>10 DEF Dispatch, EnsureSandbox, EnsurePod
  <2>3. pc' # "dispatch"
    BY <1>10 DEF Dispatch, EnsureSandbox, EnsurePod, ThenStatus, Return, ReturnRequeue
  <2> QED  BY <1>5, <1>6, <2>1, <2>2, <2>3 DEF SandboxMove
<1>11. ASSUME Fault \/ DeliverOwned  PROVE CodeMapMove /\ PolicyMove /\ SandboxMove
  <2>1. /\ sandbox' = sandbox /\ (pc' = pc \/ pc' # "dispatch")
        /\ \/ cmLog' = cmLog \/ cmLog' = Relist(cmLog)
           \/ Lagging(cmLog) /\ cmLog' = Deliver(cmLog)
        /\ \/ npLog' = npLog \/ npLog' = Relist(npLog)
           \/ Lagging(npLog) /\ npLog' = Deliver(npLog)
    BY <1>11
    DEF Fault, CallFails, Crash, DeliverOwned, objectVars, controlVars, Return,
        ReturnRequeue
  <2> QED  BY <1>5, <1>6, <2>1 DEF SandboxMove
<1>12. ASSUME UNCHANGED <<cmLog, npLog, sandbox>>, pc' = pc \/ pc' # "dispatch"
       PROVE  CodeMapMove /\ PolicyMove /\ SandboxMove
  BY <1>5, <1>6, <1>12 DEF SandboxMove
<1>13. ASSUME \/ ReconcileGone \/ AddFinalizer \/ ReconcileDeleted \/ InitializePhase
              \/ IgnoreCancel \/ ReconcileCanceled \/ ReconcileTimeout
              \/ ReconcilePending \/ AwaitPod \/ ScheduledToRunning
              \/ ScheduledImagePullFailed \/ PodMissing \/ PodSucceeded \/ PodFailed
              \/ FinishedWait \/ FinishedExpired
       PROVE  UNCHANGED <<cmLog, npLog, sandbox>> /\ (pc' = pc \/ pc' # "dispatch")
  BY <1>13
  DEF ReconcileGone, AddFinalizer, ReconcileDeleted, InitializePhase, IgnoreCancel,
      ReconcileCanceled, ReconcileTimeout, ReconcilePending, AwaitPod,
      ScheduledToRunning, ScheduledImagePullFailed, PodMissing, PodSucceeded,
      PodFailed, FinishedWait, FinishedExpired, Hold, HoldStatus, objectVars,
      controlVars
<1>14. ASSUME \/ UpdateTask \/ UpdateStatus \/ DeleteFinishedPod \/ FinalizeAgentTask
              \/ CancelPod \/ TimeoutPod
       PROVE  UNCHANGED <<cmLog, npLog, sandbox>> /\ (pc' = pc \/ pc' # "dispatch")
  BY <1>14
  DEF UpdateTask, UpdateStatus, DeleteFinishedPod, FinalizeAgentTask, CancelPod,
      TimeoutPod, Return, ReturnRequeue
<1>15. ASSUME \/ DeliverTask \/ DeliverPod \/ TimerFires \/ Resync \/ Kubelet \/ Tick
              \/ User \/ UNCHANGED vars
       PROVE  UNCHANGED <<cmLog, npLog, sandbox, pc>>
  BY <1>15
  DEF DeliverTask, DeliverPod, TimerFires, Resync, Kubelet, PullFails, StartContainer,
      ExitContainer, EvictPod, DrainPod, RemovePod, PodBecomes, Tick, User, CreateTask,
      UpdateSpec, DeleteTask, userVars, vars, objectVars, controlVars
<1> QED
  BY <1>7, <1>8, <1>9, <1>10, <1>11, <1>12, <1>13, <1>14, <1>15
  DEF Next, ReconcileStep, WakeUp, Environment

\* Tasks are numbered in the order of their creation.
LEMMA UidStep ==
    ASSUME HInv, [Next]_vars
    PROVE  /\ lastUid \in Nat /\ lastUid' \in {lastUid, lastUid + 1}
           /\ lastUid' = lastUid + 1 => task' = NewTask(lastUid + 1, task'.spec)
           /\ lastUid' = lastUid /\ task'.uid # 0 => task'.uid = task.uid
<1>1. NoTask.uid = 0 /\ lastUid \in Nat
  BY HTypes DEF NoTask, NewTask
<1>2. lastUid + 1 # lastUid
  BY <1>1
<1>3. SameStatus(task, task') \/ StatusWritten => task'.uid = task.uid
  BY DEF SameStatus, StatusWritten, Lifecycle!MayAdvance
<1> QED  BY <1>1, <1>2, <1>3, StatusStep

\* Every step keeps the owners.
LEMMA OwnedStep ==
    ASSUME HInv, InFlight, Owned, [Next]_vars
    PROVE  Owned'
<1>1. /\ podLog \in Seq(Pod) /\ podLog # <<>>
      /\ cmLog \in Seq(Nat) /\ cmLog # <<>> /\ npLog \in Seq(Nat) /\ npLog # <<>>
      /\ sandbox \in Nat /\ lastUid \in Nat /\ obj.uid \in Nat
      /\ Stored(npLog) \in Nat /\ Stored(npLog) <= lastUid
  BY HTypes, OwnedTypes DEF AgentTask
<1>2. lastUid' \in Nat /\ lastUid <= lastUid'
  BY UidStep
<1>3. pc \in Creating => obj.uid <= lastUid
  BY DEF InFlight, Read
<1>4. HInv' /\ TypeOK'
  BY HistoryNext DEF HInv, IInv
<1>5. ASSUME NEW i \in 1..Len(podLog')  PROVE PodOf(podLog'[i], lastUid')
  <2>1. \A p \in Pod : PodOf(p, lastUid) => PodOf(p, lastUid')
    BY <1>1, <1>2 DEF PodOf, Pod
  <2>2. Moves(Pod, podLog, podLog') /\ PodOf(Stored(podLog'), lastUid)
    BY PodOfStep DEF pod
  <2>3. podLog'[i] = Stored(podLog') \/ \E k \in 1..Len(podLog) : podLog'[i] = podLog[k]
    BY <1>1, <2>2, LogMoves
  <2>4. PodOf(podLog'[i], lastUid)
    BY <2>2, <2>3 DEF Owned
  <2>5. podLog' \in Seq(Pod)
    BY <1>4 DEF TypeOK, ObjectTypes
  <2>6. podLog'[i] \in Pod
    BY <2>5
  <2> QED  BY <2>1, <2>4, <2>6
<1>6. ASSUME NEW i \in 1..Len(cmLog')  PROVE cmLog'[i] <= lastUid'
  <2>1. cmLog'[i] = Stored(cmLog') \/ \E k \in 1..Len(cmLog) : cmLog'[i] = cmLog[k]
    BY <1>1, OwnedMoves, LogMoves DEF CodeMapMove
  <2>2. cmLog'[i] <= lastUid
    BY <2>1, OwnedMoves DEF CodeMapMove, Owned
  <2>3. cmLog' \in Seq(Nat)
    BY <1>4 DEF TypeOK, ObjectTypes
  <2>4. cmLog'[i] \in Nat
    BY <2>3
  <2> QED  BY <1>1, <1>2, <2>2, <2>4
<1>7. ASSUME NEW i \in 1..Len(npLog')  PROVE npLog'[i] <= lastUid'
  <2>1. npLog'[i] = Stored(npLog') \/ \E k \in 1..Len(npLog) : npLog'[i] = npLog[k]
    BY <1>1, OwnedMoves, LogMoves DEF PolicyMove
  <2>2. Stored(npLog') <= lastUid
    BY <1>1, <1>3, OwnedMoves DEF PolicyMove, Creating
  <2>3. npLog' \in Seq(Nat)
    BY <1>4 DEF TypeOK, ObjectTypes
  <2>4. npLog'[i] \in Nat
    BY <2>3
  <2> QED  BY <1>1, <1>2, <2>1, <2>2, <2>4 DEF Owned
<1>8. sandbox' <= lastUid'
  BY <1>1, <1>2, <1>3, OwnedMoves DEF SandboxMove, Creating, Owned
<1> QED  BY <1>5, <1>6, <1>7, <1>8 DEF Owned

(* ----------------------------- Network isolation --------------------------- *)

\* Until the name is reused nobody removes the NetworkPolicy of a stored task, and
\* whoever creates the pod has seen it.
Isolated ==
    First /\ task.uid # 0 =>
      /\ \A i \in 1..Len(npLog) : npLog[i] # 0 => Stored(npLog) # 0
      /\ pc = "dispatch" \/ pod.owner # 0 => Stored(npLog) # 0

\* Every step keeps it.
LEMMA IsolatedStep ==
    ASSUME HInv, InFlight, Owned, Isolated, [Next]_vars
    PROVE  Isolated'
<1> SUFFICES ASSUME lastUid' <= 1, task'.uid # 0
             PROVE  /\ \A i \in 1..Len(npLog') : npLog'[i] # 0 => Stored(npLog') # 0
                    /\ pc' = "dispatch" \/ pod'.owner # 0 => Stored(npLog') # 0
  BY DEF Isolated, First
<1>1. /\ npLog \in Seq(Nat) /\ npLog # <<>> /\ lastUid \in Nat
      /\ Stored(npLog) \in Nat /\ Stored(npLog) <= lastUid
      /\ task.uid \in {0, lastUid} /\ obj \in AgentTask /\ PolicyMove
  BY HTypes, OwnedTypes, OwnedMoves
<1>2. /\ Cached(npLog) = npLog[1] /\ 1 \in 1..Len(npLog)
      /\ \A i \in 1..Len(npLog') :
           npLog'[i] = Stored(npLog') \/ \E k \in 1..Len(npLog) : npLog'[i] = npLog[k]
  BY <1>1, LogMoves DEF PolicyMove
<1>3. /\ obj.uid \in Nat
      /\ pc \in {"ensureNetworkPolicy", "dispatch"} => obj.uid # 0 /\ obj.uid <= lastUid
  BY <1>1 DEF InFlight, Creating, Read, AgentTask
<1>4. \A k \in 1..Len(npLog) : npLog[k] \in Nat /\ npLog[k] <= lastUid
  BY <1>1 DEF Owned
<1>5. CASE lastUid' = lastUid + 1
  <2>1. lastUid = 0
    BY <1>1, <1>5
  <2>2. /\ Stored(npLog') = 0 /\ pc \notin {"ensureNetworkPolicy", "dispatch"}
        /\ \A k \in 1..Len(npLog) : npLog[k] = 0
    BY <1>1, <1>3, <1>4, <2>1 DEF PolicyMove
  <2>3. \A i \in 1..Len(npLog') : npLog'[i] = 0
    BY <1>2, <2>2
  <2>4. pc' # "dispatch"
    BY <1>1, <1>2, <2>2 DEF PolicyMove
  <2>5. pod'.owner <= 0
    BY <2>1, PodOfStep DEF PodOf
  <2>6. pod'.owner \in Nat
    BY PodOfStep DEF Pod
  <2> QED  BY <2>3, <2>4, <2>5, <2>6
<1>6. CASE lastUid' = lastUid
  <2>1. task'.uid = task.uid /\ task.uid = lastUid /\ lastUid = 1 /\ First
    BY <1>1, <1>6, UidStep DEF First
  <2>2. /\ \A k \in 1..Len(npLog) : npLog[k] # 0 => Stored(npLog) # 0
        /\ pc = "dispatch" \/ pod.owner # 0 => Stored(npLog) # 0
    BY <2>1 DEF Isolated
  <2>3. Stored(npLog) \in {0, task.uid}
    BY <1>1, <2>1
  <2>4. ~orphan(Stored(npLog))
    BY <2>3 DEF orphan, task
  <2>5. Stored(npLog) # 0 => Stored(npLog') # 0
    BY <1>1, <1>3, <2>4 DEF PolicyMove
  <2>6. \A i \in 1..Len(npLog') : npLog'[i] # 0 => Stored(npLog') # 0
    BY <1>2, <2>2, <2>5
  <2>7. pc' = "dispatch" => Stored(npLog') # 0
    BY <1>1, <1>2, <1>3, <2>2, <2>5 DEF PolicyMove
  <2>8. pod'.owner # 0 => Stored(npLog') # 0
    <3>1. NoPod.owner = 0
      BY DEF NoPod, NewPod
    <3> QED  BY <2>2, <2>5, <3>1, PodStep DEF PodSame, PodStopped, PodCreated
  <2> QED  BY <2>6, <2>7, <2>8
<1> QED  BY <1>5, <1>6, UidStep

\* Nothing is there at the start.
LEMMA OwnedInit == Init => Owned /\ InFlight
<1> SUFFICES ASSUME Init PROVE Owned /\ InFlight
  OBVIOUS
<1>1. /\ podLog = <<NoPod>> /\ cmLog = <<0>> /\ npLog = <<0>> /\ sandbox = 0
      /\ lastUid = 0 /\ pc = "idle" /\ after = "done"
  BY DEF Init
<1>2. /\ Len(podLog) = 1 /\ podLog[1] = NoPod /\ Len(cmLog) = 1 /\ cmLog[1] = 0
      /\ Len(npLog) = 1 /\ npLog[1] = 0
  BY <1>1
<1>3. PodOf(NoPod, 0)
  BY DEF PodOf, Ran, Started, NoPod, NewPod
<1>4. \A i \in 1..1 : i = 1
  OBVIOUS
<1>5. Owned
  BY <1>1, <1>2, <1>3, <1>4 DEF Owned
<1> QED  BY <1>1, <1>5 DEF InFlight, EndsPod, Creating

\* From its creation until the task object is removed, a task's pod has a
\* NetworkPolicy, whether or not it is being deleted, if the name has not been used
\* before (ensureNetworkPolicy precedes ensurePod in reconcilePending, each on a
\* cache of its own).
THEOREM FirstTaskIsolated == Spec => [](First => NetworkIsolated)
<1> DEFINE P == HInv /\ InFlight /\ Owned /\ Isolated
<1>1. Init => P
  <2> SUFFICES ASSUME Init PROVE Isolated
    BY HistoryInit, OwnedInit
  <2>1. task = NoTask
    BY DEF Init, task, Stored
  <2> QED  BY <2>1 DEF Isolated, NoTask, NewTask
<1>2. P /\ [Next]_vars => P'
  BY HistoryNext, InFlightStep, OwnedStep, IsolatedStep
<1>3. P => (First => NetworkIsolated)
  BY DEF Isolated, NetworkIsolated
<1> QED  BY <1>1, <1>2, <1>3, PTL DEF Spec

(* ---------------------------------- Results -------------------------------- *)

\* An active task has no exit code yet; a success that waits to be written, or that
\* is stored, is that of this task's own code.
RanCode ==
    /\ task.phase \notin Terminal => task.exitCode = 0
    /\ First => SucceededRanCode
    /\ First /\ pc = "status" /\ fresh /\ obj.phase = "Succeeded"
         => obj.result = obj.uid /\ obj.exitCode = 0

\* Nobody creates a task while a reconcile of the stored one is up to date.
LEMMA FreshSame ==
    ASSUME HInv, [Next]_vars, fresh', pc' = "status"
    PROVE  /\ task' = task /\ lastUid' = lastUid /\ task.uid # 0
           /\ Lifecycle!MayAdvance(task, obj')
<1>1. task' = task /\ task.uid \in {0, lastUid} /\ lastUid \in Nat
  BY HTypes, FreshStep
<1>2. Held'
  BY HistoryNext DEF HInv, IInv
<1>3. task.uid # 0 /\ Lifecycle!MayAdvance(task, obj')
  BY <1>1, <1>2 DEF Held, Lifecycle!MayAdvance
<1>4. \A u, s : NewTask(u, s).uid = u
  BY DEF NewTask
<1>5. lastUid' # lastUid + 1
  BY <1>1, <1>3, <1>4, UidStep
<1> QED  BY <1>1, <1>3, <1>5, UidStep

\* What handlePodSuccess reads off a pod that this task has to itself.
LEMMA SuccessRanCode ==
    ASSUME HInv, InFlight, Owned, RanCode, First, PodSucceeded, fresh'
    PROVE  obj'.result = obj'.uid /\ obj'.exitCode = 0
<1> DEFINE p == Cached(podLog)
<1>1. /\ task \in AgentTask /\ p \in Pod /\ PodOf(p, lastUid) /\ lastUid \in Nat
      /\ task.uid \in {0, lastUid} /\ taskLog \in Seq(AgentTask) /\ taskLog # <<>>
  BY HTypes, OwnedTypes
<1>2. /\ obj' = handlePodSuccess(Cached(taskLog), p) /\ CacheCurrent(taskLog)
      /\ InPhase(Cached(taskLog), {"Scheduled", "Running"})
      /\ podOutcome(Cached(taskLog), p) = "Succeeded"
  BY DEF PodSucceeded, HoldStatus
<1>3. Cached(taskLog) = task
  BY <1>1, <1>2, LogReads DEF task
<1> HIDE DEF p
<1>4. p.task = "ok"
  BY <1>1, <1>2 DEF podOutcome, PodOf, Ran
<1>5. p.code # 0 /\ p.code <= lastUid /\ p.code \in Nat
  BY <1>1, <1>4 DEF PodOf, Ran, Started, Pod
<1>6. task.uid # 0 /\ task.phase \notin Terminal
  BY <1>2, <1>3 DEF InPhase, Initialized, Terminal
<1>7. p.code = task.uid
  BY <1>1, <1>5, <1>6 DEF First
<1>8. task.exitCode = 0
  BY <1>6 DEF RanCode
<1>9. /\ obj'.uid = task.uid /\ obj'.result = p.code /\ obj'.exitCode = task.exitCode
  BY <1>1, <1>2, <1>3, <1>4 DEF handlePodSuccess, Terminated, AgentTask
<1> QED  BY <1>7, <1>8, <1>9

\* Every step keeps the results.
LEMMA RanCodeStep ==
    ASSUME HInv, InFlight, Owned, RanCode, [Next]_vars
    PROVE  RanCode'
<1>1. task \in AgentTask /\ lastUid \in Nat
  BY HTypes
<1>2. /\ NoTask.phase = "" /\ NoTask.exitCode = 0
      /\ \A u, s : NewTask(u, s).phase = "" /\ NewTask(u, s).exitCode = 0
      /\ "" \notin Terminal
  BY DEF NoTask, NewTask, Terminal
<1>3. ASSUME StatusWritten, obj.phase \notin Terminal
      PROVE  obj.exitCode = 0
  <2>1. task.phase \in {"", "Pending", "Scheduled", "Running", "Succeeded", "Failed",
                        "Timeout", "Canceled"}
    BY <1>1 DEF AgentTask, Phase, Active, Terminal
  <2>2. /\ obj.phase \in Lifecycle!Successors[task.phase]
        /\ obj.exitCode # task.exitCode => obj.phase \in {"Succeeded", "Failed"}
    BY <1>3 DEF StatusWritten, Lifecycle!MayAdvance
  <2>3. task.phase \notin Terminal
    BY <1>3, <2>1, <2>2, SuccessorFacts DEF Terminal
  <2> QED  BY <1>3, <2>2, <2>3 DEF RanCode, Terminal
<1>4. task'.phase \notin Terminal => task'.exitCode = 0
  BY <1>2, <1>3, StatusStep DEF SameStatus, StatusWritten, RanCode
<1>5. ASSUME First', task'.phase = "Succeeded"
      PROVE  task'.result = task'.uid /\ task'.exitCode = 0
  <2>1. /\ task' # NoTask /\ \A u : task' # NewTask(u, task'.spec)
    BY <1>2, <1>5
  <2>2. First
    BY <1>5, <2>1, StatusStep DEF First
  <2>3. CASE SameStatus(task, task')
    BY <1>5, <2>2, <2>3 DEF SameStatus, RanCode, SucceededRanCode
  <2>4. CASE StatusWritten
    BY <1>5, <2>2, <2>4 DEF StatusWritten, UpdateStatus, RanCode
  <2> QED  BY <2>1, <2>3, <2>4, StatusStep
<1>6. ASSUME First', pc' = "status", fresh', obj'.phase = "Succeeded"
      PROVE  obj'.result = obj'.uid /\ obj'.exitCode = 0
  <2>1. First
    BY <1>6, FreshSame DEF First
  <2>2. CASE PodSucceeded
    BY <1>6, <2>1, <2>2, SuccessRanCode
  <2>3. CASE UNCHANGED <<pc, obj, after>> /\ fresh' = fresh
    BY <1>6, <2>1, <2>3 DEF RanCode
  <2> QED  BY <1>6, <2>2, <2>3, StatusPrepared
<1> QED  BY <1>4, <1>5, <1>6 DEF RanCode, SucceededRanCode

\* Succeeded means that this task's own code ran and exited with 0, until the name
\* is used again.
THEOREM FirstTaskRanCode == Spec => [](First => SucceededRanCode)
<1> DEFINE P == HInv /\ InFlight /\ Owned /\ RanCode
<1>1. Init => P
  <2> SUFFICES ASSUME Init PROVE RanCode
    BY HistoryInit, OwnedInit
  <2>1. task = NoTask /\ fresh = FALSE
    BY DEF Init, task, Stored
  <2> QED  BY <2>1 DEF RanCode, SucceededRanCode, NoTask, NewTask
<1>2. P /\ [Next]_vars => P'
  BY HistoryNext, InFlightStep, OwnedStep, RanCodeStep
<1>3. P => (First => SucceededRanCode)
  BY DEF RanCode
<1> QED  BY <1>1, <1>2, <1>3, PTL DEF Spec

(* ------------------------------ Logs of the pod ---------------------------- *)

\* What an old copy of a task still tells about the stored one: without edits the
\* spec, and the start once there is one; and who stops the pod has a reason that
\* the stored task shares.
OldCopies ==
    /\ used.edits = 0 =>
         /\ \A i \in 1..Len(taskLog) : taskLog[i].uid = task.uid =>
              /\ taskLog[i].spec = task.spec
              /\ taskLog[i].phase # "" => taskLog[i].startTime = task.startTime
         /\ pc = "cancelPod" => task.spec.canceled
         /\ pc = "timeoutPod" => checkTimeout(task)
    /\ pc = "status" /\ after = "deletePod" => obj.phase \in Terminal
    /\ pc = "deletePod" => task.phase \in Terminal

\* The task that a reconcile with a pod at stake has read is the stored one.
LEMMA InFlightOwn ==
    ASSUME HInv, InFlight,
           pc \in Creating \cup {"cancelPod", "timeoutPod", "deletePod"}
    PROVE  task.uid = obj.uid /\ task.uid # 0 /\ task.phase # "" /\ task.finalizer
<1>1. Read(obj) /\ Initialized(obj)
  BY DEF InFlight, EndsPod, Creating
<1>2. Len(taskLog) \in 1..Len(taskLog) /\ task = taskLog[Len(taskLog)]
  BY Versions
<1>3. Later(obj, task)
  BY <1>1, <1>2 DEF Read
<1> QED  BY <1>1, <1>3 DEF Later, Initialized, hasFinalizer

\* Who may come to stop the pod of a canceled, a late or an ended task.
LEMMA StopStep ==
    ASSUME HInv, [Next]_vars
    PROVE  /\ pc' = "cancelPod" =>
                \/ pc = "cancelPod"
                \/ /\ Initialized(Cached(taskLog)) /\ Cached(taskLog).spec.canceled
                   /\ task' = task
           /\ pc' = "timeoutPod" =>
                \/ pc = "timeoutPod"
                \/ /\ Initialized(Cached(taskLog)) /\ checkTimeout(Cached(taskLog))
                   /\ task' = task /\ now' = now
           /\ pc' = "deletePod" =>
                pc = "deletePod" \/ (pc = "status" /\ after = "deletePod" /\ StatusWritten)
<1>1. HInv /\ task \in AgentTask /\ obj \in AgentTask /\ Held /\ fresh \in BOOLEAN
      /\ taskLog \in Seq(AgentTask) /\ taskLog # <<>>
  BY HTypes
<1>2. CASE pc' \notin {"cancelPod", "timeoutPod", "deletePod"}
  BY <1>2
<1>3. CASE pc' = pc
  BY <1>3
<1>4. CASE ReconcileCanceled \/ ReconcileTimeout
  BY <1>4 DEF ReconcileCanceled, ReconcileTimeout, Hold, objectVars, task
<1>5. CASE UpdateStatus
  <2>1. CASE pc' = "deletePod"
    <3>1. /\ pc = "status" /\ after = "deletePod" /\ fresh /\ taskLog' = Write(taskLog, obj)
          /\ obj' = obj
      BY <1>5, <2>1 DEF UpdateStatus, upToDate, Return, ReturnRequeue
    <3>2. Lifecycle!MayAdvance(task, obj) /\ Consistent(obj)
      BY <1>1, <3>1 DEF Held
    <3>3. task' = obj
      BY <1>1, <3>1, LogWrite DEF task
    <3> QED  BY <1>5, <2>1, <3>1, <3>2, <3>3 DEF StatusWritten
  <2> QED  BY <1>2, <1>5, <2>1 DEF UpdateStatus, Return, ReturnRequeue
<1>6. ASSUME \/ ReconcileGone \/ AddFinalizer \/ ReconcileDeleted \/ InitializePhase
             \/ IgnoreCancel \/ ReconcilePending \/ AwaitPod \/ ScheduledToRunning
             \/ ScheduledImagePullFailed \/ PodMissing \/ PodSucceeded \/ PodFailed
             \/ FinishedWait \/ FinishedExpired
      PROVE  pc' = pc \/ pc' \notin {"cancelPod", "timeoutPod", "deletePod"}
  BY <1>6
  DEF ReconcileGone, AddFinalizer, ReconcileDeleted, InitializePhase, IgnoreCancel,
      ReconcilePending, AwaitPod, ScheduledToRunning, ScheduledImagePullFailed,
      PodMissing, PodSucceeded, PodFailed, FinishedWait, FinishedExpired,
      Hold, HoldStatus, controlVars
<1>7. ASSUME \/ UpdateTask \/ DeleteFinishedPod \/ FinalizeAgentTask \/ CancelPod
             \/ TimeoutPod \/ EnsureCodeConfigMap \/ EnsureNetworkPolicy \/ Fault
      PROVE  pc' \notin {"cancelPod", "timeoutPod", "deletePod"}
  BY <1>7
  DEF UpdateTask, DeleteFinishedPod, FinalizeAgentTask, CancelPod, TimeoutPod,
      EnsureCodeConfigMap, EnsureNetworkPolicy, Fault, CallFails, Crash, Return,
      ReturnRequeue
<1>8. ASSUME Dispatch  PROVE pc' \notin {"cancelPod", "timeoutPod", "deletePod"}
  BY <1>8 DEF Dispatch, EnsureSandbox, EnsurePod, ThenStatus, Return, ReturnRequeue
<1>9. ASSUME \/ DeliverTask \/ DeliverPod \/ DeliverOwned \/ TimerFires \/ Resync
             \/ Kubelet \/ CollectGarbage \/ Tick \/ User \/ UNCHANGED vars
      PROVE  pc' = pc
  BY <1>9
  DEF DeliverTask, DeliverPod, DeliverOwned, TimerFires, Resync, Kubelet, PullFails,
      StartContainer, ExitContainer, EvictPod, DrainPod, RemovePod, PodBecomes,
      CollectGarbage, Tick, User, CreateTask, UpdateSpec, DeleteTask, userVars, vars,
      controlVars
<1> QED
  BY <1>2, <1>3, <1>4, <1>5, <1>6, <1>7, <1>8, <1>9
  DEF Next, ReconcileStep, WakeUp, Environment

\* Without edits a task keeps its spec, its start and, once over, its end.
LEMMA UneditedStep ==
    ASSUME HInv, [Next]_vars, used'.edits = 0, task'.uid = task.uid, task.uid # 0
    PROVE  /\ used.edits = 0 /\ task'.spec = task.spec
           /\ task.phase # "" \/ task.deleting => task'.startTime = task.startTime
           /\ task.phase \in Terminal => task'.phase \in Terminal
           /\ checkTimeout(task) => checkTimeout(task)'
<1>1. /\ task \in AgentTask /\ task.uid \in {0, lastUid} /\ lastUid \in Nat /\ now \in Nat
      /\ Consistent(task) /\ used.edits \in Nat
      /\ used'.edits \in {used.edits, used.edits + 1}
  BY HTypes, PodStep
<1>2. used.edits = 0 /\ used'.edits # used.edits + 1
  BY <1>1
<1>3. NoTask.uid = 0 /\ \A u, s : NewTask(u, s).uid = u
  BY DEF NoTask, NewTask
<1>4. lastUid + 1 # lastUid
  BY <1>1
<1>5. (SameStatus(task, task') /\ task'.spec = task.spec) \/ StatusWritten
  BY <1>1, <1>2, <1>3, <1>4, StatusStep
<1>6. ASSUME StatusWritten
      PROVE  /\ task'.spec = task.spec /\ ~task.deleting
             /\ task.phase # "" => task'.startTime = task.startTime
             /\ task.phase \in Terminal => task'.phase \in Terminal
  <2>1. task.phase \in {"", "Pending", "Scheduled", "Running", "Succeeded", "Failed",
                        "Timeout", "Canceled"}
    BY <1>1 DEF AgentTask, Phase, Active, Terminal
  <2>2. /\ task' = obj /\ obj.phase \in Lifecycle!Successors[task.phase]
        /\ obj.spec = task.spec /\ ~task.deleting
        /\ obj.startTime # task.startTime => task.phase = ""
    BY <1>6 DEF StatusWritten, Lifecycle!MayAdvance
  <2>3. task.phase \in Terminal => obj.phase \in Terminal
    BY <2>1, <2>2, SuccessorFacts DEF Terminal
  <2> QED  BY <2>2, <2>3
<1>7. /\ task'.spec = task.spec
      /\ task.phase # "" \/ task.deleting => task'.startTime = task.startTime
      /\ task.phase \in Terminal => task'.phase \in Terminal
  BY <1>5, <1>6 DEF SameStatus
<1>8. ASSUME checkTimeout(task)  PROVE checkTimeout(task)'
  <2>1. task.phase # ""
    BY <1>1, <1>8 DEF Consistent, checkTimeout
  <2>2. now' \in {now, now + 1}
    BY FreshStep
  <2>3. task.startTime \in Nat /\ task.spec \in AgentTaskSpec
    BY <1>1 DEF AgentTask
  <2>4. task.spec.timeoutSeconds \in Int
    BY <2>3 DEF AgentTaskSpec
  <2>5. /\ task'.spec.timeoutSeconds = task.spec.timeoutSeconds
        /\ task'.startTime = task.startTime
    BY <1>7, <2>1
  <2>6. \A s \in Nat, d \in Int : now > s + d + 2 => now' > s + d + 2
    BY <1>1, <2>2
  <2> QED  BY <1>8, <2>3, <2>4, <2>5, <2>6 DEF checkTimeout, TimeoutBuffer
<1> QED  BY <1>2, <1>7, <1>8

\* Every step keeps what an old copy tells.
LEMMA OldCopiesStep ==
    ASSUME HInv, InFlight, OldCopies, [Next]_vars
    PROVE  OldCopies'
<1>1. /\ HInv' /\ IInv' /\ TaskLogMoves
      /\ pc # "update" => ~(task.finalizer /\ task'.uid # task.uid)
  BY InvariantStep, StepEffects, HistoryNext DEF HInv
<1>2. /\ taskLog \in Seq(AgentTask) /\ taskLog # <<>> /\ lastUid \in Nat
      /\ task.uid \in {0, lastUid} /\ used.edits \in Nat
      /\ used'.edits \in {used.edits, used.edits + 1}
  BY HTypes, PodStep
<1>3. /\ NoTask.uid = 0
      /\ \A u, s : NewTask(u, s).uid = u
  BY DEF NoTask, NewTask
<1>4. /\ 1 \in 1..Len(taskLog) /\ Cached(taskLog) = taskLog[1]
      /\ \A i \in 1..Len(taskLog) : /\ Sound(taskLog[i]) /\ Later(taskLog[i], task)
                                    /\ taskLog[i] \in AgentTask
  BY Versions
<1>5. used'.edits = 0 => used.edits = 0
  BY <1>2
<1>6. /\ taskLog' \in Seq(AgentTask) /\ taskLog' # <<>> /\ Sound(task')
      /\ \A i \in 1..Len(taskLog') : Sound(taskLog'[i])
  <2>1. taskLog' \in Seq(AgentTask) /\ taskLog' # <<>>
    BY <1>1 DEF HInv, IInv, TypeOK, ObjectTypes
  <2>2. Len(taskLog') \in 1..Len(taskLog') /\ task' = taskLog'[Len(taskLog')]
    BY <2>1 DEF task, Stored
  <2>3. \A i \in 1..Len(taskLog') : Sound(taskLog'[i])
    BY <1>1 DEF HInv, History, Sound, Consistent
  <2> QED  BY <2>1, <2>2, <2>3
<1>7. ASSUME used'.edits = 0, NEW i \in 1..Len(taskLog'), taskLog'[i].uid = task'.uid
      PROVE  /\ taskLog'[i].spec = task'.spec
             /\ taskLog'[i].phase # "" => taskLog'[i].startTime = task'.startTime
  <2>1. i \in i..Len(taskLog')
    BY <1>6
  <2>2. taskLog'[i] = task' \/ \E k \in 1..Len(taskLog) : taskLog'[i] = taskLog[k]
    BY <1>1, <1>2, <2>1, MovesVersions
  <2>3. CASE task'.uid = 0
    BY <1>6, <1>7, <2>3 DEF Sound
  <2>4. ASSUME task'.uid # 0, NEW k \in 1..Len(taskLog), taskLog'[i] = taskLog[k]
        PROVE  /\ taskLog'[i].spec = task'.spec
               /\ taskLog'[i].phase # "" => taskLog'[i].startTime = task'.startTime
    <3>1. taskLog[k].uid \in Nat /\ taskLog[k].uid <= lastUid
      BY <1>4, HTypes DEF History, AgentTask
    <3>2. taskLog[k].uid # lastUid + 1
      BY <1>2, <3>1
    <3>3. StatusWritten => task'.uid = task.uid
      BY DEF StatusWritten, Lifecycle!MayAdvance
    <3>4. task'.uid = task.uid
      BY <1>3, <1>7, <2>4, <3>2, <3>3, StatusStep DEF SameStatus
    <3>5. /\ task'.spec = task.spec
          /\ task.phase # "" \/ task.deleting => task'.startTime = task.startTime
      BY <1>7, <2>4, <3>4, UneditedStep
    <3>6. /\ taskLog[k].spec = task.spec
          /\ taskLog[k].phase # "" => taskLog[k].startTime = task.startTime
      BY <1>5, <1>7, <2>4, <3>4 DEF OldCopies
    <3>7. taskLog[k].phase # "" => task.phase # "" \/ task.deleting
      BY <1>4, <1>7, <2>4, <3>4 DEF Later, Sound, Consistent
    <3> QED  BY <2>4, <3>5, <3>6, <3>7
  <2> QED  BY <2>2, <2>3, <2>4
<1>8. ASSUME pc \in {"cancelPod", "timeoutPod", "deletePod"}
      PROVE  task'.uid = task.uid /\ task.uid # 0
  <2>1. pc # "update" /\ task.finalizer /\ task.uid # 0
    BY <1>8, InFlightOwn
  <2> QED  BY <1>1, <2>1
<1>9. ASSUME used'.edits = 0, pc' = "cancelPod"  PROVE task'.spec.canceled
  <2>1. CASE pc = "cancelPod"
    BY <1>5, <1>8, <1>9, <2>1, UneditedStep DEF OldCopies
  <2>2. CASE /\ Initialized(Cached(taskLog)) /\ Cached(taskLog).spec.canceled
             /\ task' = task
    BY <1>4, <1>5, <1>9, <2>2, CachedOwn DEF OldCopies
  <2> QED  BY <1>9, <2>1, <2>2, StopStep
<1>10. ASSUME used'.edits = 0, pc' = "timeoutPod"  PROVE checkTimeout(task)'
  <2>1. CASE pc = "timeoutPod"
    BY <1>5, <1>8, <1>10, <2>1, UneditedStep DEF OldCopies
  <2>2. CASE /\ Initialized(Cached(taskLog)) /\ checkTimeout(Cached(taskLog))
             /\ task' = task /\ now' = now
    <3>1. Cached(taskLog).phase # ""
      BY <2>2 DEF Initialized
    <3>2. Cached(taskLog).spec = task.spec /\ Cached(taskLog).startTime = task.startTime
      BY <1>4, <1>5, <1>10, <2>2, <3>1, CachedOwn DEF OldCopies
    <3> QED  BY <2>2, <3>2 DEF checkTimeout
  <2> QED  BY <1>10, <2>1, <2>2, StopStep
<1>11. ASSUME pc' = "status", after' = "deletePod"  PROVE obj'.phase \in Terminal
  BY <1>11, StatusPrepared DEF OldCopies, Terminal
<1>12. ASSUME pc' = "deletePod"  PROVE task'.phase \in Terminal
  <2>1. CASE pc = "deletePod"
    <3>1. ~StatusWritten
      BY <2>1 DEF StatusWritten, UpdateStatus
    <3>2. task'.uid # 0 /\ task'.uid # lastUid + 1
      BY <1>2, <1>8, <2>1
    <3>3. SameStatus(task, task')
      BY <1>3, <3>1, <3>2, StatusStep
    <3> QED  BY <2>1, <3>3 DEF SameStatus, OldCopies
  <2>2. CASE pc = "status" /\ after = "deletePod" /\ StatusWritten
    BY <2>2 DEF StatusWritten, OldCopies
  <2> QED  BY <1>12, <2>1, <2>2, StopStep
<1> QED  BY <1>7, <1>9, <1>10, <1>11, <1>12 DEF OldCopies

\* Nobody has a reason yet to stop the task, whose name is used for the first time.
Live ==
    /\ First /\ used.edits = 0 /\ used.drains = 0
    /\ task.uid # 0 /\ ~task.deleting /\ ~task.spec.canceled /\ ~checkTimeout(task)
    /\ task.phase \notin Terminal

\* The pod that the cache shows is there, and has started if it shows that.
Kept ==
    \A i \in 1..Len(podLog) : podLog[i].owner # 0 =>
      /\ pod.owner # 0 /\ ~pod.deleting
      /\ Started(podLog[i]) => Started(pod)

\* The task is Running, or is about to be, with its pod to show for it.
Logged ==
    \/ task.phase = "Running" /\ task.podRef = "Pod"
    \/ pc = "status" /\ fresh /\ obj.phase = "Running" /\ obj.podRef = "Pod"
    => pod.owner # 0 /\ Started(pod)

PodKept == Live => Kept /\ Logged

\* A task that nobody has a reason to stop was so before, or has just been created.
LEMMA LiveBefore ==
    ASSUME HInv, [Next]_vars, Live'
    PROVE  \/ lastUid = 0 /\ lastUid' = 1 /\ task' = NewTask(1, task'.spec)
           \/ Live /\ used'.drains = used.drains /\ lastUid' = lastUid
<1>1. /\ used.drains \in Nat /\ used'.drains \in {used.drains, used.drains + 1}
      /\ used'.drains = 0
  BY PodStep DEF Live
<1>2. lastUid' = lastUid + 1 => lastUid = 0 /\ lastUid' = 1
  BY UidStep DEF Live, First
<1>3. ASSUME lastUid' = lastUid  PROVE Live
  <2>1. task'.uid = task.uid /\ task.uid # 0 /\ First
    BY <1>3, UidStep DEF Live, First
  <2>2. used'.edits = 0
    BY DEF Live
  <2>3. /\ used.edits = 0 /\ task'.spec = task.spec
        /\ task.phase \in Terminal => task'.phase \in Terminal
        /\ checkTimeout(task) => checkTimeout(task)'
    BY <2>1, <2>2, UneditedStep
  <2>4. ~task.deleting
    BY <2>1, DeletingKept DEF Live
  <2> QED  BY <1>1, <2>1, <2>3, <2>4 DEF Live
<1>4. Live => used.drains = 0
  BY DEF Live
<1> QED  BY <1>1, <1>2, <1>3, <1>4, UidStep

\* Nobody stops the pod of such a task.
LEMMA NobodyStops ==
    ASSUME HInv, InFlight, Owned, OldCopies, Live, pod.owner # 0,
           used'.drains = used.drains, MayStop
    PROVE  FALSE
<1>1. /\ task.uid \in {0, lastUid} /\ lastUid \in Nat /\ obj \in AgentTask /\ pod \in Pod
      /\ pod.owner <= lastUid /\ task.uid # 0 /\ lastUid <= 1
  BY HTypes, OwnedTypes DEF PodOf, Live, First
<1>2. task.uid = 1 /\ pod.owner = 1
  BY <1>1 DEF Pod
<1>3. ~(pc = "deletePod") /\ pc \notin {"cancelPod", "timeoutPod"}
  BY DEF OldCopies, Live
<1>4. ASSUME pc = "finalize"  PROVE FALSE
  <2>1. Read(obj) /\ obj.deleting
    BY <1>4 DEF InFlight
  <2>2. obj.uid = task.uid
    <3>1. obj.uid \in Nat /\ obj.uid # 0 /\ obj.uid <= lastUid
      BY <1>1, <2>1 DEF Read, AgentTask
    <3> QED  BY <1>1, <1>2, <3>1
  <2>3. Later(obj, task)
    BY <2>1, Versions DEF Read
  <2> QED  BY <2>1, <2>2, <2>3 DEF Later, Live
<1>5. ~orphan(pod.owner)
  BY <1>2 DEF orphan, task
<1>6. used'.drains # used.drains + 1
  BY DEF Live
<1> QED  BY <1>3, <1>4, <1>5, <1>6 DEF MayStop

\* Every step keeps the pod of such a task.
LEMMA PodKeptStep ==
    ASSUME HInv, InFlight, Owned, OldCopies, PodKept, [Next]_vars
    PROVE  PodKept'
<1> SUFFICES ASSUME Live'  PROVE Kept' /\ Logged'
  BY DEF PodKept
<1>1. /\ podLog \in Seq(Pod) /\ podLog # <<>> /\ pod \in Pod /\ lastUid \in Nat
      /\ Cached(podLog) \in Pod /\ Cached(taskLog) \in AgentTask
      /\ Moves(Pod, podLog, podLog') /\ pod' \in Pod /\ PodOf(pod', lastUid)
      /\ Follows(pod, pod') /\ PodOf(Cached(podLog), lastUid)
  BY HTypes, OwnedTypes, PodOfStep
<1>2. /\ 1 \in 1..Len(podLog) /\ Cached(podLog) = podLog[1]
      /\ Len(podLog) \in 1..Len(podLog) /\ pod = podLog[Len(podLog)]
      /\ \A i \in 1..Len(podLog') :
           podLog'[i] = pod' \/ \E k \in 1..Len(podLog) : podLog'[i] = podLog[k]
  BY <1>1, LogMoves DEF Moves, pod
<1>3. /\ \A u, s : NewTask(u, s).phase = ""
      /\ NoTask.phase = ""
  BY DEF NoTask, NewTask
<1>4. CASE lastUid = 0 /\ lastUid' = 1 /\ task' = NewTask(1, task'.spec)
  <2>1. pod'.owner = 0
    BY <1>1, <1>4 DEF PodOf, Pod
  <2>2. \A k \in 1..Len(podLog) : podLog[k].owner = 0
    <3> SUFFICES ASSUME NEW k \in 1..Len(podLog)  PROVE podLog[k].owner = 0
      OBVIOUS
    <3>1. podLog[k] \in Pod /\ podLog[k].owner <= 0
      BY <1>1, <1>4 DEF Owned, PodOf
    <3> QED  BY <3>1 DEF Pod
  <2>3. Kept'
    BY <1>2, <2>1, <2>2 DEF Kept
  <2>4. ~(pc' = "status" /\ fresh')
    BY <1>4, FreshSame
  <2>5. task'.phase = ""
    BY <1>3, <1>4
  <2> QED  BY <2>3, <2>4, <2>5 DEF Logged
<1>5. CASE Live /\ used'.drains = used.drains /\ lastUid' = lastUid
  <2>1. Kept /\ Logged
    BY <1>5 DEF PodKept
  <2>2. pod.owner # 0 => ~pod.deleting
    BY <1>2, <2>1 DEF Kept
  <2>3. NoPod.owner = 0
    BY DEF NoPod, NewPod
  <2>4. pod.owner # 0 => pod'.owner # 0
    BY <1>5, <2>2, PodStep, NobodyStops DEF PodSame, PodCreated
  <2>5. pod'.owner # 0 => ~pod'.deleting
    BY <1>5, <2>2, <2>3, PodStep, NobodyStops DEF PodSame, PodStopped, PodCreated
  <2>6. pod.owner # 0 /\ Started(pod) => pod'.owner # 0 /\ Started(pod')
    BY <1>1, <2>4 DEF Follows
  <2>7. Kept'
    <3> SUFFICES ASSUME NEW i \in 1..Len(podLog'), podLog'[i].owner # 0
                 PROVE  /\ pod'.owner # 0 /\ ~pod'.deleting
                        /\ Started(podLog'[i]) => Started(pod')
      BY DEF Kept, Started
    <3>1. CASE podLog'[i] = pod'
      BY <2>5, <3>1
    <3>2. ASSUME NEW k \in 1..Len(podLog), podLog'[i] = podLog[k]
          PROVE  /\ pod'.owner # 0 /\ ~pod'.deleting
                 /\ Started(podLog'[i]) => Started(pod')
      <4>1. pod.owner # 0 /\ (Started(podLog[k]) => Started(pod))
        BY <2>1, <3>2 DEF Kept
      <4> QED  BY <2>4, <2>5, <2>6, <3>2, <4>1
    <3> QED  BY <1>2, <3>1, <3>2
  <2>8. ASSUME task'.phase = "Running", task'.podRef = "Pod"
        PROVE  pod.owner # 0 /\ Started(pod)
    <3>1. SameStatus(task, task') \/ StatusWritten
      BY <1>3, <2>8, StatusStep
    <3>2. CASE SameStatus(task, task')
      BY <2>1, <2>8, <3>2 DEF SameStatus, Logged
    <3>3. CASE StatusWritten
      BY <2>1, <2>8, <3>3 DEF StatusWritten, UpdateStatus, Logged
    <3> QED  BY <3>1, <3>2, <3>3
  <2>9. ASSUME pc' = "status", fresh', obj'.phase = "Running", obj'.podRef = "Pod"
        PROVE  pod.owner # 0 /\ Started(pod)
    <3>1. CASE UNCHANGED <<pc, obj, after>> /\ fresh' = fresh
      BY <2>1, <2>9, <3>1 DEF Logged
    <3>2. CASE ScheduledToRunning
      <4>1. Cached(podLog).owner # 0 /\ Cached(podLog).phase = "Running"
        BY <1>1, <2>9, <3>2 DEF ScheduledToRunning, HoldStatus, AgentTask
      <4>2. Started(podLog[1]) /\ podLog[1].owner # 0
        BY <1>1, <1>2, <4>1 DEF PodOf, Ran
      <4> QED  BY <1>2, <2>1, <4>2 DEF Kept
    <3> QED  BY <2>9, <3>1, <3>2, StatusPrepared
  <2> QED  BY <2>6, <2>7, <2>8, <2>9 DEF Logged, Started
<1> QED  BY <1>4, <1>5, LiveBefore

\* agentctl prints the output of a Running task's own code, until the name is used
\* again, somebody stops the task, or somebody else removes its pod: the cache that
\* makes a task Running may be old, but no pod it shows is gone.
THEOREM FirstTaskLogs == Spec => [](First => LogsOfRunning)
<1> DEFINE P == HInv /\ InFlight /\ Owned /\ OldCopies /\ PodKept
<1>1. Init => P
  <2> SUFFICES ASSUME Init PROVE OldCopies /\ PodKept
    BY HistoryInit, OwnedInit
  <2>1. /\ task = NoTask /\ pc = "idle" /\ Len(taskLog) = 1 /\ taskLog[1] = NoTask
    BY DEF Init, task, Stored
  <2>2. \A i \in 1..1 : i = 1
    OBVIOUS
  <2>3. NoTask.uid = 0
    BY DEF NoTask, NewTask
  <2>4. OldCopies
    BY <2>1, <2>2 DEF OldCopies
  <2> QED  BY <2>1, <2>3, <2>4 DEF PodKept, Live
<1>2. P /\ [Next]_vars => P'
  BY HistoryNext, InFlightStep, OwnedStep, OldCopiesStep, PodKeptStep
<1>3. P => (First => LogsOfRunning)
  <2> SUFFICES ASSUME P, First, task.phase = "Running", task.podRef = "Pod",
                      ~task.deleting, ~task.spec.canceled, used.edits = 0,
                      used.drains = 0, ~checkTimeout(task)
               PROVE  logs(task, pod) = task.uid
    BY DEF LogsOfRunning
  <2>1. /\ lastUid \in Nat /\ task.uid \in {0, lastUid} /\ (task.uid = 0 => task = NoTask)
        /\ PodOf(pod, lastUid) /\ pod \in Pod
    BY HTypes, OwnedTypes
  <2>2. task.uid # 0
    <3>1. NoTask.phase = ""
      BY DEF NoTask, NewTask
    <3> QED  BY <2>1, <3>1
  <2>3. Live
    BY <2>2 DEF Live, Terminal
  <2>4. pod.owner # 0 /\ Started(pod)
    BY <2>3 DEF PodKept, Logged
  <2>5. pod.code \in Nat /\ pod.code # 0 /\ pod.code <= lastUid
    BY <2>1, <2>4 DEF PodOf, Ran, Pod
  <2>6. pod.code = task.uid
    BY <2>1, <2>2, <2>5 DEF First
  <2> QED  BY <2>4, <2>6 DEF logs, Started
<1> QED  BY <1>1, <1>2, <1>3, PTL DEF Spec
================================================================================
