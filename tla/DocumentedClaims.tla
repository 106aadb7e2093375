---------------------------- MODULE DocumentedClaims ----------------------------
(***************************************************************************)
(* What the repository's documents, comments and messages say of the       *)
(* program and the program does not do.  Each formula is refuted by a run. *)
(***************************************************************************)
EXTENDS AgentTaskOperator

\* A task that has reached a terminal phase keeps it, and its completion time.
\* (checkTimeout comes before the terminal phases in Reconcile and is repeated by
\* every later event, and the guard of cancellation leaves out Timeout.)
TerminalStable ==
    [][task.phase \in Terminal /\ task'.uid = task.uid
         => /\ task'.phase = task.phase
            /\ task'.completionTime = task.completionTime]_vars

\* The pod of a task past its deadline is not left running with nothing under
\* way that would stop it.  (Reconcile never asks to be called again at the
\* deadline: only an unrelated event or the resync shows the overrun.)
TimeoutEnforced ==
    Quiet /\ OwnPod /\ pod.task = "running"
    => ~(task.phase \in Active /\ checkTimeout(task))

\* The pod of a canceled task is not left running.  (reconcileCanceled deletes
\* the pod PodRef names; a status conflict in reconcilePending leaves the created
\* pod unrecorded.)
CanceledPodStopped ==
    Quiet /\ task.phase = "Canceled" => ~(OwnPod /\ pod.task = "running")

\* PodMissing says that somebody deleted the pod.  (The cache of pods may be
\* behind the cache of tasks: the pod is there and reads as NotFound.)
PodMissingMeansDeleted == task.reason = "PodMissing" => used.drains > 0

\* A finished task is deleted once its TTL is over, however it finished.
\* (Reconcile returns before it looks at the TTL of a canceled task, and times a
\* timed-out one out again.)
ExpiryHonoured ==
    \A u \in 1..MaxUid :
      /\ task.uid = u /\ task.phase \in Terminal
      /\ hasTTL(task) /\ expirationTime(task) < MaxTime
      ~> task.uid # u \/ task.deleting
=================================================================================
