--------------------------- MODULE ClusterEnvironment ---------------------------
(***************************************************************************)
(* Everything around the operator that touches the same objects: users,    *)
(* admitted by the webhook; the kubelet; node drains and evictions; the    *)
(* garbage collector that follows owner references; the clock.  Apart from *)
(* admission none of this is code of the repository: it is what the code   *)
(* relies on.                                                              *)
(***************************************************************************)
EXTENDS OperatorState

(* ---------------------------------- Users ---------------------------------- *)

\* Another writer changed or removed the task: the resourceVersion that the
\* reconcile in flight holds is stale.
userVars == <<podLog, cmLog, npLog, sandbox, queued, timer, pc, obj, after,
              tasksTotal, now>>

CreateTask(s) ==
    /\ Stored(taskLog).uid = 0 /\ lastUid < MaxUid
    /\ webhooksOn => validateAgentTask(s)
    /\ lastUid' = lastUid + 1 /\ made' = 0
    /\ taskLog' = Write(taskLog, NewTask(lastUid + 1, s))
    /\ fresh' = FALSE
    /\ UNCHANGED <<userVars, used>>

\* Cancelling a task is one such edit.
UpdateSpec(s) ==
    LET t == Stored(taskLog) IN
    /\ t.uid # 0 /\ s # t.spec /\ used.edits < MaxEdits
    /\ webhooksOn => ValidateUpdate(t.spec, s)
    /\ taskLog' = Write(taskLog, [t EXCEPT !.spec = s])
    /\ fresh' = FALSE
    /\ used' = [used EXCEPT !.edits = @ + 1]
    /\ UNCHANGED <<lastUid, made, userVars>>

\* ValidateDelete refuses nothing.
DeleteTask ==
    LET t == Stored(taskLog) IN
    /\ t.uid # 0 /\ ~t.deleting
    /\ taskLog' = Write(taskLog, deletedTask(t))
    /\ fresh' = FALSE
    /\ UNCHANGED <<lastUid, made, userVars, used>>

User == (\E s \in Specs : CreateTask(s) \/ UpdateSpec(s)) \/ DeleteTask

(* ----------------------------- Kubelet and nodes --------------------------- *)

\* The kubelet's pod phase for restartPolicy Never.
podPhase(task, collector) ==
    IF {task, collector} \cap {"waiting", "pullErr"} # {} THEN "Pending"
    ELSE IF "running" \in {task, collector} THEN "Running"
    ELSE IF {task, collector} = {"ok"} THEN "Succeeded" ELSE "Failed"

withStatus(p, c, s) ==
    LET task      == IF c = "task" THEN s ELSE p.task
        collector == IF c = "collector" THEN s ELSE p.collector
    IN  [p EXCEPT !.task = task, !.collector = collector,
                  !.phase = podPhase(task, collector)]

\* The stored pod, which exists, becomes p.
PodBecomes(p) ==
    /\ Stored(podLog).owner # 0
    /\ podLog' = Write(podLog, p)
    /\ UNCHANGED <<taskLog, cmLog, npLog, sandbox, lastUid, made, controlVars,
                   queued, timer, tasksTotal, now>>

live(p) == p.phase \in {"Pending", "Running"}

PullFails(c) ==
    LET p == Stored(podLog) IN
    /\ c \in Unpullable /\ live(p) /\ ~p.deleting /\ p[c] = "waiting"
    /\ PodBecomes(withStatus(p, c, "pullErr"))
    /\ UNCHANGED used

\* The code volume is set up before the first container starts, and waits for
\* the ConfigMap.  One that users supply holds what its owner meant to run.
codeVolume(p) ==
    IF p.code # 0 THEN p.code
    ELSE IF p.mounts = "own" THEN Stored(cmLog) ELSE p.owner

StartContainer(c) ==
    LET p == Stored(podLog) IN
    /\ live(p) /\ ~p.deleting /\ p[c] \in {"waiting", "pullErr"}
    /\ codeVolume(p) # 0
    /\ PodBecomes([withStatus(p, c, "running") EXCEPT !.code = codeVolume(p)])
    /\ UNCHANGED used

exits(c) == IF c = "task" THEN TaskExits ELSE CollectorExits

ExitContainer(c) ==
    LET p == Stored(podLog) IN
    /\ live(p) /\ p[c] = "running"
    /\ \E e \in exits(c) : PodBecomes(withStatus(p, c, e))
    /\ UNCHANGED used

spendDrain ==
    /\ used.drains < MaxDrains
    /\ used' = [used EXCEPT !.drains = @ + 1]

killed(s) == IF s = "running" THEN "err" ELSE s

EvictPod ==
    LET p == Stored(podLog) IN
    /\ live(p)
    /\ PodBecomes([p EXCEPT !.phase = "Failed", !.task = killed(@),
                            !.collector = killed(@)])
    /\ spendDrain

\* Somebody else deletes the pod.
DrainPod ==
    LET p == Stored(podLog) IN
    /\ ~p.deleting
    /\ PodBecomes([p EXCEPT !.deleting = TRUE])
    /\ spendDrain

\* A deleted pod's containers are gone.
RemovePod ==
    /\ Stored(podLog).deleting
    /\ PodBecomes(NoPod)
    /\ UNCHANGED used

Kubelet ==
    \/ \E c \in Containers : PullFails(c) \/ StartContainer(c) \/ ExitContainer(c)
    \/ EvictPod \/ DrainPod \/ RemovePod

(* ------------------------- Garbage collector and clock --------------------- *)

\* The owner is neither absent nor the stored task.
orphan(owner) == owner \notin {0, Stored(taskLog).uid}

CollectGarbage ==
    /\ \/ /\ orphan(Stored(podLog).owner) /\ ~Stored(podLog).deleting
          /\ podLog' = Write(podLog, [Stored(podLog) EXCEPT !.deleting = TRUE])
          /\ UNCHANGED <<cmLog, npLog, sandbox>>
       \/ /\ orphan(Stored(cmLog))
          /\ cmLog' = Write(cmLog, 0)
          /\ UNCHANGED <<podLog, npLog, sandbox>>
       \/ /\ orphan(Stored(npLog))
          /\ npLog' = Write(npLog, 0)
          /\ UNCHANGED <<podLog, cmLog, sandbox>>
       \/ /\ orphan(sandbox)
          /\ sandbox' = 0
          /\ UNCHANGED <<podLog, cmLog, npLog>>
    /\ UNCHANGED <<taskLog, lastUid, made, controlVars, queued, timer,
                   tasksTotal, now, used>>

Tick ==
    /\ now < MaxTime
    /\ now' = now + 1
    /\ UNCHANGED <<objectVars, controlVars, queued, timer, tasksTotal, used>>

Environment == User \/ Kubelet \/ CollectGarbage \/ Tick
================================================================================
