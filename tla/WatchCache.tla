------------------------------ MODULE WatchCache ------------------------------
(***************************************************************************)
(* The manager's client reads from informers and writes to the API server  *)
(* (cmd/main.go hands mgr.GetClient() to the reconciler and the webhook).  *)
(* One object and its informer are a log of versions: the last version is  *)
(* what the API server stores, the first one is what a read from the cache *)
(* returns, and the versions between them are watch events on their way.   *)
(* A cache therefore lags by any amount and never goes back.  A watch that *)
(* falls too far behind is closed and the reflector lists afresh, so that  *)
(* the cache skips versions.                                               *)
(***************************************************************************)
EXTENDS Integers, Sequences

\* Bound: the most watch events of one object that may be on their way before
\* the reflector lists afresh.
CONSTANT MaxLag
ASSUME MaxLagAssumption == MaxLag \in Nat \ {0}

Cached(log) == log[1]
Stored(log) == log[Len(log)]

\* The cache shows the version the API server stores.
CacheCurrent(log) == Len(log) = 1

\* The API server stores a new version; one that changes nothing keeps its
\* resourceVersion and sends no event.
Write(log, v) ==
    IF v = Stored(log) THEN log
    ELSE IF Len(log) <= MaxLag THEN Append(log, v)
    ELSE [log EXCEPT ![Len(log)] = v]

\* The next watch event reaches the cache.
Lagging(log) == Len(log) > 1
Deliver(log) == Tail(log)

\* A restarted informer lists the object afresh.
Relist(log) == <<Stored(log)>>
================================================================================
