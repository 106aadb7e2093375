-------------------------------- MODULE AgentCtl --------------------------------
(***************************************************************************)
(* agentctl (cmd/agentctl/cmd).  It keeps nothing between two commands and *)
(* talks to the API server past every cache: run and delete are one write  *)
(* each (CreateTask and DeleteTask of ClusterEnvironment), the others show *)
(* what is stored.                                                         *)
(***************************************************************************)
EXTENDS OperatorState

\* The spec that `agentctl run` submits, under a generated name.  The file's
\* content becomes the inline source, so that an empty file gives no code at
\* all; TTL, resources and configMapRef have no flag.
runSpec(profile, timeout, backend, emptyFile) ==
    [runtimeProfile |-> profile, timeoutSeconds |-> timeout, backend |-> backend,
     code |-> IF emptyFile THEN {} ELSE {"source"},
     canceled |-> FALSE, ttlSecondsAfterFinished |-> NoTTL]

\* The flags' defaults.
defaultProfile == "python3.11"
defaultTimeout == 60
defaultBackend == ""

\* `agentctl logs`: the task whose code wrote what is printed, 0 for an error
\* (no such task, no PodRef yet, no pod of that name, container not started).
logs(t, p) ==
    IF t.podRef = "Pod" /\ p.owner # 0 /\ p.task \notin {"waiting", "pullErr"}
    THEN p.code ELSE 0
================================================================================
