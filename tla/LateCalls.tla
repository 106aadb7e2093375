-------------------------------- MODULE LateCalls --------------------------------
(***************************************************************************)
(* A change of leader, or a restart, with an API call still on its way.    *)
(* The manager process that takes over (cmd/main.go, leader-elect) lists   *)
(* everything afresh and reconciles at once; the last call of its          *)
(* predecessor is served by the API server at any later time, or never,    *)
(* and nobody waits for its answer.                                        *)
(***************************************************************************)
EXTENDS AgentTaskOperator

\* The call of the predecessor: the point of its reconcile, the object it holds
\* and whether that still carries the stored resourceVersion.
VARIABLE late

lateVars == <<vars, late>>

NoCall == [at |-> "idle", obj |-> NoTask, fresh |-> FALSE]

LateInit == Init /\ late = NoCall

\* reconcilePending gets as far as creating the pod or the sandbox.
createsRuntime ==
    LET backend == selectBackend(obj.spec.backend, SandboxCRD) IN
    /\ resolveRuntimeProfile(obj.spec.runtimeProfile, backend, ProfileKeys)
    /\ \/ backend = "pod" /\ Cached(podLog).owner = 0
       \/ backend = "sandbox" /\ sandbox = 0

podDeletions == {"finalize", "cancelPod", "timeoutPod", "deletePod"}

\* The next step of the reconcile in flight sends a write.
sendsWrite ==
    \/ pc \in {"update", "status", "deletePod"}
    \/ pc \in podDeletions /\ podFound(obj)
    \/ pc = "ensureCodeConfigMap" /\ usesSource(obj.spec) /\ missing(cmLog)
    \/ pc = "ensureNetworkPolicy" /\ missing(npLog)
    \/ pc = "dispatch" /\ createsRuntime

\* The reconcile that starts now deletes the task after its TTL.
sendsExpiry == pc = "idle" /\ queued /\ InPhase(Cached(taskLog), Terminal)
               /\ expired(Cached(taskLog))

\* Deletions go by name alone, and only updates send a resourceVersion.
Takeover ==
    /\ late = NoCall
    /\ \/ /\ sendsWrite
          /\ late' = [at    |-> pc,
                      obj   |-> IF pc \in podDeletions THEN NoTask ELSE obj,
                      fresh |-> pc \in {"update", "status"} /\ fresh]
       \/ sendsExpiry /\ late' = [NoCall EXCEPT !.at = "expire"]
    /\ Crash

\* Mutant: the resourceVersion is not sent.
lateUpToDateName == Stored(taskLog).uid = late.obj.uid

lateUpToDate == late.fresh

\* What the API server makes of an object under its name: created if it is free.
createdBy(log) == IF Stored(log) = 0 THEN Write(log, late.obj.uid) ELSE log

LateUpdate ==
    /\ late.at \in {"update", "status"}
    /\ IF /\ lateUpToDate
          /\ late.at = "update" /\ webhooksOn
             => ValidateUpdate(Stored(taskLog).spec, late.obj.spec)
       THEN taskLog' = Write(taskLog, IF late.obj.deleting /\ ~late.obj.finalizer
                                      THEN NoTask ELSE late.obj)
       ELSE UNCHANGED taskLog
    /\ UNCHANGED <<podLog, cmLog, npLog, sandbox, made>>

LateExpiry ==
    /\ late.at = "expire"
    /\ taskLog' = Write(taskLog, deletedTask(Stored(taskLog)))
    /\ UNCHANGED <<podLog, cmLog, npLog, sandbox, made>>

LatePodDelete ==
    /\ late.at \in podDeletions
    /\ deleteStoredPod
    /\ UNCHANGED <<taskLog, cmLog, npLog, sandbox, made>>

LateCreate ==
    LET t == late.obj
        backend == selectBackend(t.spec.backend, SandboxCRD)
        makesPod == /\ late.at = "dispatch" /\ backend = "pod"
                    /\ podNameFree /\ t.spec.code # {}
    IN
    /\ late.at \in {"ensureCodeConfigMap", "ensureNetworkPolicy", "dispatch"}
    /\ cmLog' = IF late.at = "ensureCodeConfigMap" THEN createdBy(cmLog) ELSE cmLog
    /\ npLog' = IF late.at = "ensureNetworkPolicy" THEN createdBy(npLog) ELSE npLog
    /\ podLog' = IF makesPod
                 THEN Write(podLog, NewPod(t.uid, IF usesSource(t.spec)
                                                  THEN "own" ELSE "ref"))
                 ELSE podLog
    /\ made' = IF makesPod /\ t.uid = lastUid THEN made + 1 ELSE made
    /\ sandbox' = IF late.at = "dispatch" /\ backend = "sandbox" /\ sandbox = 0
                  THEN t.uid ELSE sandbox
    /\ UNCHANGED taskLog

\* The API server serves the call; to the reconcile that is in flight now it is
\* somebody else's write.
LateArrives ==
    /\ late # NoCall /\ late' = NoCall
    /\ LateUpdate \/ LateExpiry \/ LatePodDelete \/ LateCreate
    /\ fresh' = (fresh /\ Stored(taskLog') = task)
    /\ UNCHANGED <<lastUid, pc, obj, after, queued, timer, tasksTotal, now, used>>

\* Any step of the operator and its cluster; a write to the task makes the late
\* call's resourceVersion stale.
Meanwhile ==
    /\ Next
    /\ late' = [late EXCEPT !.fresh = @ /\ Stored(taskLog') = task]

LateNext == Meanwhile \/ Takeover \/ LateArrives

LateSpec == LateInit /\ [][LateNext]_lateVars

(* ------------------------------- Properties -------------------------------- *)

\* However late the predecessor's status or finalizer update is served, it is
\* either refused or a step of the lifecycle from what is stored then.  The new
\* leader's own writes move the task on meanwhile; the call and the reconcile in
\* flight may both carry the stored resourceVersion, and only one of them is
\* stored.
LateHeld ==
    late.fresh =>
      /\ late.at = "update" =>
           \/ ~task.deleting /\ task.uid # 0
              /\ late.obj = [task EXCEPT !.finalizer = TRUE]
           \/ /\ task.deleting /\ task.finalizer
              /\ late.obj = [task EXCEPT !.finalizer = FALSE]
      /\ late.at = "status" =>
           /\ Lifecycle!MayAdvance(task, late.obj)
           /\ Consistent(late.obj) /\ late.obj.startTime <= now
==================================================================================
