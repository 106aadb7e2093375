-------------------------- MODULE AgentTaskValidation --------------------------
(***************************************************************************)
(* The static half of the validating webhook                               *)
(* (internal/webhook/v1alpha1/agenttask_webhook.go).  The API server calls *)
(* it on every create and every update of an AgentTask, the operator's own *)
(* finalizer updates included, and not on the status subresource.          *)
(***************************************************************************)
EXTENDS AgentTaskTypes

allowedProfiles == {"python3.10", "python3.11"}
MaxTimeoutSeconds == 3600

validateAgentTask(s) ==
    /\ s.runtimeProfile \in allowedProfiles
    /\ s.timeoutSeconds > 0
    /\ s.timeoutSeconds <= MaxTimeoutSeconds

\* The inline source is the only code member the webhook freezes; the text of
\* a task's source is not told apart, so frozen means neither added nor removed.
ValidateUpdate(old, new) ==
    /\ new.runtimeProfile = old.runtimeProfile
    /\ ("source" \in new.code) = ("source" \in old.code)
    /\ validateAgentTask(new)
================================================================================
