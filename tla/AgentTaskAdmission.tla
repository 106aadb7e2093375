--------------------------- MODULE AgentTaskAdmission ---------------------------
(***************************************************************************)
(* The limit on active tasks: ValidateCreate of the webhook                *)
(* (internal/webhook/v1alpha1/agenttask_webhook.go) for several names in   *)
(* one namespace.  The API server asks the webhook before it stores a new  *)
(* task, for any number of creations at a time; the webhook counts in the  *)
(* list its informer holds.  That informer watches all tasks of the        *)
(* namespace, so the list is the namespace as it was at some earlier time. *)
(***************************************************************************)
EXTENDS AgentTaskTypes, WatchCache, FiniteSets

CONSTANTS
    Names,          \* names that users give to tasks
    Phases,         \* the phases that tasks of the namespace go through
    MaxActiveTasks  \* the limit; 5 in the code

ASSUME NamesAssumption  == IsFiniteSet(Names)
ASSUME PhasesAssumption == Phases \subseteq Phase /\ "" \in Phases
ASSUME LimitAssumption  == MaxActiveTasks \in Nat \ {0}

VARIABLES
    listLog,  \* versions of the namespace: the phase of each task, or "absent"
    request,  \* the creation of each name under way at the API server, if any
    blind     \* history: the most tasks that an admission did not see

vars == <<listLog, request, blind>>

Namespace == [Names -> Phases \cup {"absent"}]

Init ==
    /\ listLog = <<[n \in Names |-> "absent"]>>
    /\ request = [n \in Names |-> "none"]
    /\ blind = 0

\* Mutant: a timed-out task counts as active.
activeTimeout(phase) == phase \notin {"Succeeded", "Failed", "Canceled", "absent"}

\* A task that counts against the limit.
active(phase) ==
    phase \notin {"Succeeded", "Failed", "Timeout", "Canceled", "absent"}

activeTasks(list) == {n \in Names : active(list[n])}
activeCount(list) == Cardinality(activeTasks(list))

\* What holds a place: tasks that are active and creations that were admitted.
Occupied ==
    {n \in Names : Stored(listLog)[n] \notin Terminal \cup {"absent"}
                   \/ request[n] = "admitted"}

\* Of these, what the webhook's list does not show as active.
Unseen == Occupied \ activeTasks(Cached(listLog))

(* -------------------------------- Creations -------------------------------- *)

\* A user submits a task that passes the static checks.
SubmitTask(n) ==
    /\ request[n] = "none"
    /\ request' = [request EXCEPT ![n] = "sent"]
    /\ UNCHANGED <<listLog, blind>>

\* Mutant: the limit is off by one.
withinLimitInclusive(count) == count <= MaxActiveTasks

withinLimit(count) == count < MaxActiveTasks

\* ValidateCreate returns nil.
Admit(n) ==
    /\ request[n] = "sent"
    /\ withinLimit(activeCount(Cached(listLog)))
    /\ request' = [request EXCEPT ![n] = "admitted"]
    /\ blind' = IF Cardinality(Unseen) > blind THEN Cardinality(Unseen) ELSE blind
    /\ UNCHANGED listLog

\* ValidateCreate returns an error: too many active tasks, or List failed.
Refuse(n) ==
    /\ request[n] = "sent"
    /\ request' = [request EXCEPT ![n] = "none"]
    /\ UNCHANGED <<listLog, blind>>

\* The API server stores the admitted task, unless the name is taken.
StoreTask(n) ==
    /\ request[n] = "admitted"
    /\ request' = [request EXCEPT ![n] = "none"]
    /\ listLog' = IF Stored(listLog)[n] = "absent"
                  THEN Write(listLog, [Stored(listLog) EXCEPT ![n] = ""])
                  ELSE listLog
    /\ UNCHANGED blind

(* --------------------- The operator, deletion, the informer ---------------- *)

\* Any status update of the operator.  A finished task never becomes active again
\* (TerminalAbsorbing of AgentTaskOperator).
Advance(n) ==
    /\ Stored(listLog)[n] # "absent"
    /\ \E p \in Phases :
         /\ Stored(listLog)[n] \in Terminal => p \in Terminal
         /\ listLog' = Write(listLog, [Stored(listLog) EXCEPT ![n] = p])
    /\ UNCHANGED <<request, blind>>

\* A task is gone; until its finalizer is removed it counts like any other.
Remove(n) ==
    /\ Stored(listLog)[n] # "absent"
    /\ listLog' = Write(listLog, [Stored(listLog) EXCEPT ![n] = "absent"])
    /\ UNCHANGED <<request, blind>>

DeliverList ==
    /\ Lagging(listLog)
    /\ listLog' = Deliver(listLog)
    /\ UNCHANGED <<request, blind>>

Next ==
    \/ \E n \in Names : \/ SubmitTask(n) \/ Admit(n) \/ Refuse(n) \/ StoreTask(n)
                        \/ Advance(n) \/ Remove(n)
    \/ DeliverList

Spec == Init /\ [][Next]_vars /\ WF_vars(DeliverList)

(* ------------------------------- Properties -------------------------------- *)

\* The type of every variable.
TypeOK ==
    /\ listLog \in Seq(Namespace) /\ listLog # <<>>
    /\ request \in [Names -> {"none", "sent", "admitted"}]
    /\ blind \in Nat

\* The limit is exceeded by no more tasks than some admission did not see: those
\* created at the same time, or so recently that the webhook's cache did not have
\* them yet, which creations one after the other may be as well.
LimitUpToUnseen == Cardinality(Occupied) <= MaxActiveTasks + blind

\* A namespace that has room does not turn creations away for ever: the webhook
\* comes to see that there is room, or the room is taken.
RoomNoticed ==
    Cardinality(Occupied) < MaxActiveTasks
    ~> \/ withinLimit(activeCount(Cached(listLog)))
       \/ Cardinality(Occupied) >= MaxActiveTasks
=================================================================================
