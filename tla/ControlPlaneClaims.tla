-------------------------- MODULE ControlPlaneClaims --------------------------
(* What README.md and docs/design/ state of the control plane and the code   *)
(* does otherwise.  TLC finds each of these violated; the README of this     *)
(* directory tells how.                                                      *)
EXTENDS ControlPlaneProgress

(* The claims that something ends are put to the most eager clients one may  *)
(* hope for: every holder of a lease goes on for as long as it may, prepared  *)
(* work is leased and stops are finished as soon as they can be.  Neither the *)
(* coordinator nor planRecovery promises any of it (see ControlPlaneProgress), *)
(* and no property that holds rests on it: what fails even so, fails.        *)
EagerWorkers ==
  \A x \in RoleRuns, w \in Workers, n \in 1..MaxToken :
    WF_vars(WorkerStep([roleRun |-> x, worker |-> w, token |-> n]))

TakeWork == \E x \in RoleRuns, w \in Workers :
  roleRuns[x].status # "none" /\ AcquireRoleRunLease(x, w)

EagerRecovery == WF_vars(TakeWork) /\ WF_vars(\E r \in Runs : FinishStop(r))

EagerSpec == Spec /\ EagerWorkers /\ EagerRecovery

-----------------------------------------------------------------------------
(* docs/design/control-plane-persistence-and-recovery.md, startup recovery,  *)
(* items 3 and 7: a prepared RoleRun can be started, and a stopping Run goes *)
(* on to be aborted, reconciled and settled unless a RoleRun is blocked.     *)
StopEnds ==
  \A r \in Runs :
    (/\ runs[r].status = "stopping"
     /\ \A x \in UnsettledRoleRuns(r) : roleRuns[x].status # "blocked")
      ~> (runs[r].status = "settled")

(* The same list, item 4: a RoleRun found running after a restart becomes    *)
(* settling.                                                                 *)
LostSessionSettles ==
  \A x \in RoleRuns :
    (roleRuns[x].status = "running")
      ~> (roleRuns[x].status \in {"settling", "settled", "blocked"})

(* README.md, "verification pass": what the user accepts must be the exact   *)
(* ExecutionResult and VerificationResult the last handoff bound.            *)
AcceptsLastHandoff ==
  [][task'.outcome = "completed" /\ task.outcome = "none" =>
       /\ task'.execution = task.execution
       /\ task'.verification = task.verification]_vars

(* README.md, "execution handoff": the Verifier may only examine the exact   *)
(* output the handoff bound.                                                 *)
VerifierJudgesHandoff ==
  [][task.status = "verifying" /\ task'.status = "awaiting_acceptance" =>
       task'.execution = task.execution]_vars

(* docs/design/control-plane-state-and-run-manifest.md, "cases that cannot   *)
(* be routed directly": an implementation failure with no attempt left       *)
(* blocks the Task.                                                          *)
ReworkHasAttemptsLeft ==
  [][task.status = "verifying" /\ task'.status = "executing" =>
       \E r \in UnsettledRuns :
         /\ Cardinality(Attempts(r, "executor")) < MaxAttempts
         /\ Cardinality(RoleRunsOf(r)) < MaxRoleRuns]_vars

(* The same document, "cancel_task": an authorized, active or blocked Run    *)
(* that is cancelled is stopping before it is settled.                       *)
CancelStopsFirst ==
  [][\A r \in Runs :
       runs[r].status \in {"authorized", "active", "blocked"} =>
         runs'[r].outcome # "cancelled"]_vars

(* The same document, "Approval lifecycle": when the authorization or a      *)
(* prerequisite Approval of a Run under way becomes invalid, the Task and    *)
(* the Run first go on the path of stopping or blocking.                     *)
LostApprovalStopsRun ==
  \A r \in Runs : runs[r].status \in {"authorized", "active"} => ApprovalsEffective(r)

(* The same document, Task states: planning means the TRD is approved.       *)
PlanningHasApprovedTrd ==
  task.status = "planning" =>
    \E a \in Approvals :
      /\ IsEffective(a)
      /\ approvals[a].gate = "trd_approval" /\ approvals[a].subject = task.trd
=============================================================================
