------------------------------- MODULE MCOperator -------------------------------
(***************************************************************************)
(* The specs that users submit in the runs.  A run picks a set of them and *)
(* the bounds in its cfg.                                                  *)
(***************************************************************************)
EXTENDS DocumentedClaims

\* `agentctl run --backend pod`: inline source, and a timeout no run's clock
\* reaches.
Plain == runSpec(defaultProfile, defaultTimeout, "pod", FALSE)

\* The same with the users' own ConfigMap, which saves the runs that are not
\* about the code's ConfigMap one object and its cache.
Ref       == [Plain EXCEPT !.code = {"configMapRef"}]
TTL(s, n) == [s EXCEPT !.ttlSecondsAfterFinished = n]
Short(s)  == [s EXCEPT !.timeoutSeconds = 1]
Cancel(s) == [s EXCEPT !.canceled = TRUE]

\* Runs and cancellations on the pod backend.
PlainSpecs == {Plain}
PodSpecs   == {Ref, Cancel(Ref)}

\* Timeouts within reach of the clock: a pod that runs, a sandbox, and a pod that
\* the API server refuses because an empty file was submitted.
DeadlineSpecs ==
    {Short(Ref), [Short(Ref) EXCEPT !.backend = "sandbox"],
     runSpec(defaultProfile, 1, "pod", TRUE)}
CanceledSpecs == {TTL(Ref, 1), Cancel(TTL(Ref, 1))}

\* A negative TTL, which neither the API nor the webhook refuses, is over as soon
\* as the task has finished.
AtOnceSpecs == {TTL(Ref, -2)}

\* Every way to choose a backend, an image and the code: a sandbox with inline
\* source, a pod that is refused, a pod that expires a second after it succeeds (or
\* fails because the cache does not show it yet), and an automatic choice for a
\* profile without an image, which the webhook does not accept either.
BackendSpecs ==
    {[Plain EXCEPT !.backend = "sandbox"],
     runSpec(defaultProfile, defaultTimeout, "pod", TRUE),
     TTL(Ref, 1),
     [Plain EXCEPT !.runtimeProfile = "node18", !.backend = defaultBackend,
                   !.code = {"source", "configMapRef"}]}
ProfileOverrides == {<<"node18", "pod">>}
================================================================================
