---------------------------- MODULE AgentTaskTypes ----------------------------
(***************************************************************************)
(* The AgentTask API (api/v1alpha1/agenttask_types.go): the values a task  *)
(* object can hold.  Spec and status are one record; a field that is a nil *)
(* pointer in Go has a reserved value here.                                *)
(***************************************************************************)
EXTENDS Integers

\* AgentTaskPhase.  The empty string is a status nobody has written yet.
Active   == {"Pending", "Scheduled", "Running"}
Terminal == {"Succeeded", "Failed", "Timeout", "Canceled"}
Phase    == {""} \cup Active \cup Terminal

\* AgentTaskReason.  "Terminated" stands for whatever reason the container
\* runtime gave (Error, OOMKilled, Completed...), which the code copies.
Reason ==
    {"", "PodFailed", "Timeout", "Canceled", "PodMissing", "ImagePullFailed",
     "ProfileResolutionFailed", "BackendSelectionFailed", "Terminated"}

\* Values of unset pointers: clocks start at 1, so 0 is a nil *metav1.Time.  A TTL
\* of -1, which nothing refuses, is over as soon as the task has finished, like
\* every negative TTL; -2 stands for all of them, and -1 for a nil *int32.
NoTime == 0
NoTTL  == -1

\* AgentTaskSpec without Resources and Tenant, which only reach the pod's
\* labels and limits.  "node18" stands for every profile that neither the
\* webhook nor the built-in images know; code is the set of CodeSource members that
\* are given; any other backend would be treated like "pod".
AgentTaskSpec ==
    [runtimeProfile : {"", "python3.10", "python3.11", "node18"},
     code           : SUBSET {"source", "configMapRef"},
     timeoutSeconds : Int,
     backend        : {"", "auto", "pod", "sandbox"},
     canceled       : BOOLEAN,
     ttlSecondsAfterFinished : Int]

\* The object: metadata (uid, deletionTimestamp, the operator's finalizer),
\* spec and status.  Message and Conditions are left out (nothing reads
\* them).  podRef is ObjectReference.Kind: the name follows from it.  result
\* names the task whose code ran in the container that Result and ExitCode
\* were read from, 0 before (a run without a result.json is not told apart).
AgentTask ==
    [uid : Nat, deleting : BOOLEAN, finalizer : BOOLEAN, spec : AgentTaskSpec,
     phase : Phase, podRef : {"", "Pod", "Sandbox"}, result : Nat,
     exitCode : Int, reason : Reason, startTime : Nat, completionTime : Nat]

NoSpec ==
    [runtimeProfile |-> "", code |-> {}, timeoutSeconds |-> 0,
     backend |-> "", canceled |-> FALSE, ttlSecondsAfterFinished |-> NoTTL]

\* A freshly submitted object: empty status, no finalizer.
NewTask(u, s) ==
    [uid |-> u, deleting |-> FALSE, finalizer |-> FALSE, spec |-> s,
     phase |-> "", podRef |-> "", result |-> 0, exitCode |-> 0, reason |-> "",
     startTime |-> NoTime, completionTime |-> NoTime]

\* "No object of this name": what a Get answers with NotFound.
NoTask == NewTask(0, NoSpec)

\* What the API server makes of a stored task that is deleted.
deletedTask(t) ==
    IF t.uid # 0 /\ t.finalizer THEN [t EXCEPT !.deleting = TRUE] ELSE NoTask
================================================================================
