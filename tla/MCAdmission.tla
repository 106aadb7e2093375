------------------------------- MODULE MCAdmission -------------------------------
(***************************************************************************)
(* The limit on active tasks for a handful of names.                       *)
(***************************************************************************)
EXTENDS AgentTaskAdmission

\* A new task, and a finished one.
MCPhases == {"", "Timeout"}
==================================================================================
