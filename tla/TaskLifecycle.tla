----------------------------- MODULE TaskLifecycle -----------------------------
(***************************************************************************)
(* What users may rely on of one AgentTask name: how the stored object     *)
(* changes from one version to the next, whatever the operator, other      *)
(* users and the cluster do in between.                                    *)
(***************************************************************************)
EXTENDS AgentTaskTypes

VARIABLES task,   \* the stored object
          last    \* the newest uid given out

\* The phases that may follow each other (docs/architecture.md, "CRD State
\* Machine", with what the code adds: a finished task may still time out, and
\* a timed-out one be canceled).
Successors ==
    [p \in Phase |->
       CASE p = ""          -> {"Pending"}
         [] p = "Pending"   -> {"Scheduled", "Failed", "Timeout", "Canceled"}
         [] p = "Scheduled" -> {"Running"} \cup Terminal
         [] p = "Running"   -> Terminal
         [] p = "Timeout"   -> {"Timeout", "Canceled"}
         [] OTHER           -> {"Timeout"}]

Submit ==
    /\ task.uid = 0
    /\ last' = last + 1
    /\ task' = NewTask(last', task'.spec)

EditSpec ==
    /\ task.uid # 0
    /\ task' = [task EXCEPT !.spec = task'.spec]
    /\ UNCHANGED last

Claim ==
    /\ task.uid # 0 /\ ~task.deleting
    /\ task' = [task EXCEPT !.finalizer = TRUE]
    /\ UNCHANGED last

\* A status write, which turns t into o, touches nothing but the status, never
\* that of a task being deleted, and keeps what the phase gives it no right to
\* change.
MayAdvance(t, o) ==
    /\ t.uid # 0 /\ t.finalizer /\ ~t.deleting
    /\ o.uid = t.uid /\ o.finalizer = t.finalizer /\ o.deleting = t.deleting
    /\ o.spec = t.spec
    /\ o.phase \in Successors[t.phase]
    /\ o.startTime # t.startTime => t.phase = ""
    /\ o.podRef # t.podRef => o.phase = "Scheduled"
    /\ o.result # t.result => o.phase = "Succeeded"
    /\ o.exitCode # t.exitCode => o.phase \in {"Succeeded", "Failed"}
    /\ o.completionTime # t.completionTime => o.phase \in Terminal

Advance == MayAdvance(task, task') /\ UNCHANGED last

Delete ==
    /\ task.uid # 0
    /\ task' = deletedTask(task)
    /\ UNCHANGED last

Finalize ==
    /\ task.deleting /\ task.finalizer
    /\ task' = NoTask
    /\ UNCHANGED last

Init == task = NoTask /\ last = 0

Next == Submit \/ EditSpec \/ Claim \/ Advance \/ Delete \/ Finalize

Spec == Init /\ [][Next]_<<task, last>>
================================================================================
