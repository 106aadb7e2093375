# A verification project for the AgentTask operator

TLA+ modules that model the operator and its cluster, TLC runs that check them
on small instances, and TLAPS proofs of the central properties for every value
of the constants.

## 1. The system

An `AgentTask` asks for a piece of code to be run once. The operator turns it
into a hardened pod (or a `Sandbox`), follows it to its end and records the
result in the task's status.

| Component | State it keeps | Operations | Talks to |
| --- | --- | --- | --- |
| Controller (`internal/controller`) | none of its own between two calls, except the work queue, the delayed requeue and a metrics counter | `Reconcile` and its handlers: finalizer, initial status, cancel, timeout, pending, scheduled, running, TTL | reads informer caches, writes to the API server; woken by events of tasks and owned pods |
| Sandbox manager (`internal/platform/sandbox`) | none | `EnsureSandbox` | API server, uncached |
| Webhook (`internal/webhook`) | none | `ValidateCreate` (static checks, limit on active tasks), `ValidateUpdate`, `ValidateDelete` | called by the API server for users and for the operator itself; the limit on active tasks reads the cache |
| API types (`api/v1alpha1`) | the stored task: spec, status, finalizer, deletion mark | - | - |
| Manager (`cmd/main.go`) | - | wires client, caches, webhook, leader election | - |
| `agentctl` (`cmd/agentctl`) | none | `run` and `delete` are one write each; `list`, `describe`, `get` and `logs` show stored objects | API server, uncached |
| Cluster (not in the repository) | pods, ConfigMaps, NetworkPolicies, Sandboxes | kubelet, evictions, garbage collection, clock | all of the above |

What is hard here is not a function but the interleaving: a reconcile acts on a
cached copy of the task and of the pod, each behind by its own amount; it makes
several writes, between any two of which users, the kubelet, the garbage
collector, a failed call or a restart may come; its only protection is the
conflict check of `Update`. Names are reused (`<task>-pod`, `<task>-code`,
`<task>-netpol`), so an object may belong to an earlier task of the same name.
Deadlines depend on somebody waking the operator up. `PROJECT.json` lists these
hazards line by line.

What makes it correct: the stored status is consistent in itself and moves only
along the lifecycle; a finished task stays finished; a retried reconcile repeats
no effect; a success is the success of this task's code; the pod is isolated as
long as its task exists; cancellation, deletion, completion and TTL take effect; the
operator undoes nobody's edit and deletes nobody else's object.

## 2. The modules

| Module | Models |
| --- | --- |
| `AgentTaskTypes` | the values of an AgentTask (`agenttask_types.go`) |
| `AgentTaskValidation` | `validateAgentTask`, `ValidateUpdate` |
| `WatchCache` | an API object and the informer in front of it |
| `OperatorState` | variables, pods, initial state, types |
| `AgentTaskReconciler` | `Reconcile`, all its handlers, `EnsureSandbox`, queue, faults |
| `ClusterEnvironment` | users behind the webhook, kubelet, evictions, garbage collector, clock |
| `AgentCtl` | what `agentctl run` submits, and what `agentctl logs` shows |
| `AgentTaskOperator` | composition of these, fairness, properties |
| `LateCalls` | the same with a change of leader while an API call is on its way |
| `AgentTaskAdmission` | the limit on active tasks of `ValidateCreate`, for several names |
| `TaskLifecycle` | abstract specification: how one stored task may change |
| `DocumentedClaims` | what documents and comments say and the program does not do |
| `MCOperator`, `MCLate`, `MCAdmission` | the task specs, names and phases that the runs use |
| `WatchCacheProofs` | lemmas about a log and its cache |
| `AgentTaskOperatorProofs` | theorems: types, the stored status, the refinement |
| `TaskHistoryProofs` | lemmas: what an old copy of a task says about the stored one |
| `TaskPodProofs` | theorem: one pod per task; lemmas about every step's effect on the pod |
| `TaskEndProofs` | theorems: the pod, the count and the timer of a task that ends |
| `FirstTaskProofs` | theorems about a task whose name is not shared with an earlier one |
| `LateCallsProofs`, `AgentTaskAdmissionProofs` | theorems about `LateCalls` and `AgentTaskAdmission` |

Correspondence with the code:

* **One object, one log.** `taskLog`, `podLog`, `cmLog` and `npLog` are the
  versions of an object that its cache has not seen yet, the first being the
  cached and the last the stored one. `Write` appends, `Deliver` drops the
  first. Beyond `MaxLag` undelivered events a write replaces the last version: the
  watch is closed and the reflector lists afresh, so the cache skips versions. A Sandbox is unstructured and read past the cache, so it is one value.
* **One task name.** Everything the operator makes is named after the task, so
  tasks of different names share only the single worker. One name with several
  incarnations (`uid`) shows the interactions that matter; the limit on active
  tasks is the exception and has a module of its own.
* **A reconcile is cut at its writes.** `pc` is the next API call, `obj` the
  in-memory `agentTask`, `after` what follows its status update. The first
  action reads the caches and runs up to the first write: `AddFinalizer`,
  `ReconcileDeleted`, `InitializePhase`, `ReconcileCanceled`, `ReconcileTimeout`,
  `ReconcilePending`, `ScheduledToRunning`, `ScheduledImagePullFailed`,
  `PodMissing`, `PodSucceeded`, `PodFailed`, `FinishedWait`, `FinishedExpired`,
  or it ends without one (`ReconcileGone`, `IgnoreCancel`, `AwaitPod`). The
  writes are `UpdateTask`, `UpdateStatus`, `DeleteFinishedPod`,
  `FinalizeAgentTask`, `CancelPod`, `TimeoutPod`, `EnsureCodeConfigMap`,
  `EnsureNetworkPolicy`, `Dispatch`. Reads are not separated from the write after
  them: a cache may lag by any amount, so an earlier read shows nothing new.
* **Conflicts.** `fresh` says that `obj` carries the stored resourceVersion. It
  is set from the cache when the task is read, and any writer other than the
  reconcile in flight clears it. `UpdateTask` and `UpdateStatus` succeed only
  when it holds; otherwise the error requeues the key.
* **Faults.** `CallFails` ends a reconcile at any of its calls, `Crash` loses
  locals, queue, timer and counter and lists everything afresh. `Dispatch` and
  `TimeoutPod` contain the two failures that the code swallows instead of
  returning (availability check and profile ConfigMap; `Get` of a pod). A first
  read or a TTL delete that fails leaves everything as it was, with the key
  queued, and needs no action.
* **Late calls.** `LateCalls` composes all of this with one call of a previous
  process. `Takeover` is `Crash` at a moment when the reconcile in flight was about
  to write; the call (`late`) is served by the API server at any later time, while
  the new leader reconciles. Updates carry a resourceVersion (`late.fresh`), which
  any write to the task in between makes stale; creations succeed if the name is
  free; deletions go by name. The same happens when a single replica restarts.
* **Switching webhooks on.** `webhooksOn` says whether the manager that runs now was
  started without `ENABLE_WEBHOOKS=false`. It becomes true at the time
  `WebhooksFrom`, over whatever is stored by then; status updates are never validated.
* **Admission.** In `AgentTaskAdmission` the namespace as a whole is one log: the
  stored phase of every name, and the list that the webhook's informer holds. A
  creation is sent, admitted or refused against that list, and stored later, so any
  number of them overlap. What the operator does to a task is abstracted to "any
  phase, but a finished task stays finished" (`TerminalAbsorbing`, proved). `blind`
  is a history variable.
* **Time.** `now` counts seconds from 1; 0 stands for an unset time, and -1 for
  an unset TTL. Negative TTLs are legal and all alike (over when the task ends), so -2
  stands for them. `RequeueAfter` is `timer`; it fires once the clock is past it.
  If the remaining time is not positive, nothing is armed, as in the code.
* **Data left out.** Messages, resources, tenant, the duration histogram, the
  bodies of ConfigMap, policy and pod spec except for whose code the pod mounts.
  `result` is not the JSON but the uid of the task whose code produced it, which
  is what a reader of the status takes for granted. The pod phase `Unknown`,
  which the handlers ignore like "nothing new", does not occur.

Operators introduced by a comment "Mutant" are small deliberate errors. No
specification uses them; a property is only kept if one of them breaks it.

## 3. The runs

Six runs check what holds.

| Run | Instance | Shows |
| --- | --- | --- |
| `pod_faults` | one task, submitted as canceled or not, failing pulls, both containers ending either way, one eviction or deletion of the pod, one crash or failed call | `TypeOK`, `StatusConsistent`, `OnePod`, `NetworkIsolated`, `SucceededRanCode`, `FinishedPodCleared`, `FinishedCounted`, `LogsOfRunning`, refinement of `TaskLifecycle` |
| `deadlines` | timeout 1 s, clock to 5; a pod whose container hangs, a sandbox, a pod that is always refused; one fault; resync | `Held`, `TerminalAbsorbing`, `TimedOutPodStopped`, `EveryTaskEnds` |
| `late_calls` | two tasks of one name whose TTL is over at once, one takeover or other fault | `LateHeld`, `ExpiryDeletesOwnTask`, refinement |
| `backends` | a sandbox, a pod that is always refused, a pod with TTL 1 that succeeds or is taken for missing, a profile known only to the override ConfigMap; clock to 3, webhook switched on at time 2; one fault; resync | `ExpiryArmed`, refinement, `DeletionCompletes`, `ExpiryHonouredInTime` |
| `liveness` | one edit (cancel or withdraw) at any moment, one fault, fair scheduling without resync | refinement with edits, `DeletionCompletes`, `CompletionObserved`, `CancelHonoured` |
| `admission` | three names, limit 2, tasks that time out and are deleted | `LimitUpToUnseen`, `RoomNoticed` |

Six runs each refute one documented claim; `PROJECT.json` quotes the documents.

| Run | What TLC finds |
| --- | --- |
| `terminal_flip` | Succeeded or Failed becomes Timeout when the deadline passes afterwards: `checkTimeout` comes before the terminal phases |
| `ttl_ignored` | a canceled task is never deleted by its TTL: `Reconcile` returns before it gets there |
| `timeout_unarmed` | nobody is woken at the deadline of a hanging container |
| `cancel_leaks_pod` | canceled between `ensurePod` and a refused status update, the pod runs on |
| `stale_result` | a reused name inherits the old pod and its result |
| `pod_cache_behind` | a lagging pod cache is taken for a deleted pod |

Two of these traces also contradict a second document:

* The last state of `terminal_flip` has the phase Timeout with the reason Timeout, and
  `StatusConsistent` says that this is how every timeout is stored. The repository's
  README shows `Failed` with the reason `Timeout` in its sample of `agentctl list` (line
  104); `docs/architecture.md:55` has the state the code uses.
* In `stale_result` the first task's object is removed while its pod runs. The README
  (line 18) says that finalizers ensure that Pods and Sandboxes are strictly cleaned up
  before API objects are removed. `finalizeAgentTask` passes over a pod that its cache
  does not show, waits for none, and never deletes a Sandbox.

What the properties leave open, on purpose, because the code does:

* A timed-out task goes through `reconcileTimeout` on every event, its own status
  update included: its completion time moves on and its TTL is never looked at.
  `ExpiryHonouredInTime` therefore excludes canceled tasks and tasks past their
  deadline. The repetition has one good effect, stated by `TimedOutPodStopped`: a pod
  that the first timeout took for missing, because `Get` failed or the cache had not
  seen it, is stopped by the next one.
* After a fault between the terminal status and the deletion of the pod nobody looks at
  the pod again (`FinishedPodCleared` excludes faults); it stays until the task is
  deleted. The pod of a task that failed with ImagePullFailed is left alone altogether:
  its pull may be retried and its code run, which the status does not show any more.
* `NetworkIsolated` ends with the task object. From then on pod and policy are both
  garbage, collected in any order, and the pod may run on without the policy.
* A pod that `PodRef` does not name is not deleted by `finalizeAgentTask` either, and no
  handler ever deletes a Sandbox. Both go only with their owner, by garbage collection.
* A reused name inherits the old NetworkPolicy, which is then collected:
  `NetworkIsolated` and `SucceededRanCode` hold with one incarnation and fail with two.
* A failed task is counted twice (lines 612 and 643), and once more for each refused
  status update; `FinishedCounted` says only that no end goes uncounted without a fault.
* `agentctl logs` has nothing to show for a finished task, whose pod is gone;
  `LogsOfRunning` is about Running ones.
* A task that the webhook would not accept and that was stored before it was switched on
  cannot have its finalizer added or removed: `DeletionCompletes` and
  `ExpiryHonouredInTime` are stated for acceptable specs.
* A reconcile of an old Pending copy repeats the choice of a backend and creates what it
  chooses before the conflict shows. With two different answers of the availability check
  the effects of both are there: a pod next to the sandbox, or the sandbox of a task that
  has failed with BackendSelectionFailed. Only what is recorded is protected (refinement).
* The limit on active tasks is not a limit on what runs: every admission that cannot see
  the others' tasks may add one, and a lagging list hides tasks from creations that come
  one after the other as well. The bound of `LimitUpToUnseen` is reached.
* A late TTL deletion goes by name and may hit the next task of the name;
  `ExpiryDeletesOwnTask` is about the deletion that is served at once. A late creation may
  make a pod again after the first has come and gone, so `OnePod` is checked without late
  calls.

**Bounds.** With `MaxLag = 1` a cache shows either the stored version or any
earlier one it once held, independently of the other caches, and catches up in one
step; a reconcile reads each object once between two writes and cannot notice more.
One fault at any point shows every partial failure. Edits, drains, incarnations and
clock are bounded by the cfgs; the clock reaches past timeout + buffer and TTL
wherever these matter. In `backends` the TTL comes due, and the timer fires, with the
webhook on, for a task that the webhook lets be finalized. A bound left out of one run is in another: edits in the middle
of a reconcile are in `liveness` and `cancel_leaks_pod`, containers that end in
`pod_faults`, `liveness` and `terminal_flip`; and the safety properties are proved for
every value of these bounds. `late_calls` uses a negative TTL, which nothing refuses, to let
tasks expire without a moving clock. `MetricCap` is 1 in `pod_faults` (counted or not)
and 0 elsewhere. Most runs use a task with its own ConfigMap (`configMapRef`);
`backends`, `stale_result` and `pod_cache_behind` use inline source and so exercise
`ensureCodeConfigMap`. In `admission` two phases, one active and one terminal, stand
for all: `ValidateCreate` tells no more apart, and three names with a limit of two
leave room for one task too many. `CHECK_DEADLOCK FALSE` is set in the operator's runs
because a task that is gone and not submitted again is a legal end.

**Fairness.** The worker goroutine, the watches, the delaying queue and the clock
are weakly fair: controller-runtime keeps them running as long as the process
lives. Nothing is assumed of users, images, containers, evictions, the garbage
collector or faults. `ResyncSpec` adds the informers' periodic resync (ten hours
by default). `backends` needs it because a reconcile at the very instant of expiry arms
no timer (`RequeueAfter: 0`), `deadlines` because no timer is armed for the deadline at
all. In `AgentTaskAdmission` only the informer is fair.

## 4. The proofs

The theorems hold for every set of specs, every lag, any number of incarnations,
edits, faults and drains, and any names and limit; they use only the named
assumptions about the constants.

| Theorem | States | Inductive invariant |
| --- | --- | --- |
| `TypeCorrect` | `Spec => []TypeOK` | itself |
| `StatusCorrect` | `Spec => []StatusConsistent` | `IInv` (with `Held`) |
| `HeldCorrect` | `Spec => []Held` | `IInv` |
| `ImplementsLifecycle` | `Spec => LifecycleSpec`, the refinement | `IInv` |
| `NeverActiveAgain` | `Spec => TerminalAbsorbing` | from the refinement |
| `OnePodCorrect` | `Spec => []OnePod` | `HInv`, `InFlight`, `PodOnce` |
| `FinishedPodsCleared` | `Spec => []FinishedPodCleared` | `HInv`, `InFlight`, `Cleared` |
| `FinishedTasksCounted` | `Spec => []FinishedCounted`, if `MetricCap > 0` | `HInv`, `Counted` |
| `ExpiryStaysArmed` | `Spec => []ExpiryArmed` | `HInv`, `Changes`, `Armed` |
| `FirstTaskIsolated` | `Spec => [](First => NetworkIsolated)` | `HInv`, `InFlight`, `Owned`, `Isolated` |
| `FirstTaskRanCode` | `Spec => [](First => SucceededRanCode)` | the same with `RanCode` |
| `FirstTaskLogs` | `Spec => [](First => LogsOfRunning)` | the same with `OldCopies`, `PodKept` |
| `LateHeldCorrect`, `LateImplementsLifecycle` | `Held` and the refinement for `LateSpec` | `LateInv` |
| `ExpiryHitsOwnTask` | `LateSpec => ExpiryDeletesOwnTask` | `LateHistory` |
| `LimitCorrect` | `AgentTaskAdmission!Spec => []LimitUpToUnseen` | itself, with the types |

Two statements are narrower than the property. `MetricCap > 0` only lets the model's
counter count (the code's has no cap; runs that do not look at it freeze it with 0).
`First` is `lastUid <= 1`: no earlier task had the name. The three properties under it
are false without it, as `stale_result` shows for `SucceededRanCode`, because the
operator takes whatever it finds under the name.

`StatusConsistent` is not inductive: `UpdateStatus` stores whatever `obj` holds.
`Held` is the strengthening. As long as `fresh` is true, what the reconcile will
write is a lifecycle step from the *stored* task, although it was computed from a
cached one. It is established when the cache is current (then the two are the same
version, lemma `LogReads`), carried along by the steps between read and write
(`HeldBetween`), given up as soon as anybody else writes (`TaskWritten`), and used
at the moment of the write. `HandlersAdvance` is the sequential core: what every
handler makes of a consistent task, in the phases in which it runs, is a lifecycle
step to a consistent task. `TaskVersions` says that storing such a version is a step
of `TaskLifecycle`. The rest of the inductive invariant is the clock: it is set, and
no start time is ahead of it.

**Old copies.** Creations and deletions of pods go by name and carry no
resourceVersion, so `Held` says nothing about them. What protects them is the
finalizer, and the argument is one about versions: `History` says that of two versions
in the log, or of the cached one and the stored one, the newer is `Later`: while the
older has the finalizer and is not being deleted, the newer is the same task, still has
the finalizer and is at least as far as the older; and deletion is final. It needs
`FreshCurrent` (an up-to-date reconcile has read a cache that is current still), because
the one step that removes a finalizer, `UpdateTask`, is safe only if no older version
remains on its way to the cache. `HInv` is `IInv` with the two. `InFlight` carries it to
the reconcile in flight: whatever `obj` was read, current or not, every version that the
cache may still show is `Later`.

**One pod.** `OnePod` counts creations, so the invariant must say why a second one fails:
`PodOnce` says that once a pod was made for the newest task and nobody else has deleted
it, it is there and not being deleted for as long as anybody `CanCreate` one, that is, a
reconcile is between its first write and its last, or some version of the task that the
cache may show is Pending. Nobody stops it in that time (`PodStays`): who deletes the pod
has read a task past Pending or being deleted, and by `Later` no version is Pending then.

**Ends.** `Cleared` adds to `FinishedPodCleared` that a task which has ended with its pod
gets no other one, and that the prepared status is followed by the deletion. `Counted`
follows a terminal status, before and after it is stored, to the point that counts.
`Armed` extends `ExpiryArmed` to the deletion of the pod after the last status update. It
rests on `Changes`: a write of an up-to-date reconcile changes the stored task (or comes
from a deadline that has passed), hence sends an event that wakes the operator again. A
write that changed nothing would end a reconcile with no event and no timer.

**The first task of a name.** `Owned` says that everything stored under the name, cached
versions included, belongs to a task that was created, and that a container that started
has the code of one; with `First` that can only be this task. `Isolated` and `RanCode`
follow the NetworkPolicy and the result from the call that makes them to the end of the
task object and to the stored status. `LogsOfRunning` takes the most: a task becomes Running on what
the pod cache shows, so `PodKept` says that while nobody has a reason to stop the task,
every pod in the cache's log is still there and has started if that version had. Who
stops a pod acts on an old copy of the task, so `OldCopies` says that without edits the
copy's reason (canceled, past its deadline, ended) is one the stored task has as well.

**Late calls.** `LateHeld` is the promise of `Held` for the late call: `Takeover` hands it
over from `Held`, every step of the operator keeps it or makes the call stale
(`LateFrame`, which needs that the clock does not go back), and `LateArrives` uses it
(`LateArrivesStep`). `LateHistory` carries `HInv` across a change of leader: a late
finalizer update that is still accepted meets a cache that is current, so that
`FinishedExpired` finds the task it has read.

`LimitUpToUnseen` is inductive with the types. Only `Admit` adds to the places held
(`OccupiedStep`). What is held after it is contained in what it counted, what it could
not see, and itself; the first is below the limit (`AdmitBounded`).

Only model-checked: the liveness properties (`EveryTaskEnds`, `TimedOutPodStopped`,
`DeletionCompletes`, `ExpiryHonouredInTime`, `CompletionObserved`, `CancelHonoured`,
`RoomNoticed`), since fairness and `ENABLED` are out of the prover's reach, and the
refuted claims. Every invariant and action property of the passing runs has a theorem.

## 5. Not modelled

Flags, TLS, certificates, probes and the metrics server of `main`; the duration
histogram; `agentctl get`, `list` and `describe`, which print fields of the stored object as they
are, and the formatting of the other commands; generated code, manifests, tests. None of these has a state or a
decision that another part depends on. Users who edit finalizers or owner references
by hand are left out.

## 6. Plan

1. `FirstTaskIsolated` and its companions for later tasks of a name, under a condition on
   what the garbage collector has removed by then instead of `First`.
2. The lemmas that the liveness properties rest on and that are not themselves temporal:
   that a task which is not at its end always has somebody to wake the operator.
