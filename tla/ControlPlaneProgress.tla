------------------------- MODULE ControlPlaneProgress -------------------------
(* What remains possible in the control plane.  None of its clients is bound *)
(* to do anything: a coordinator whose command is refused, or whose session  *)
(* cannot be started, throws and leaves its RoleRun as it is, planRecovery   *)
(* only lists what could be done, and people may wait for ever.  So nothing  *)
(* is said here of what will happen, only of which command is open to whom.  *)
EXTENDS ControlPlane

(* What the holder of the lease g may do next with its RoleRun.              *)
WorkerStep(g) ==
  \/ MarkRoleRunRunning(g)
  \/ \E runtime \in {"completed", "unsuccessful"} : MarkRoleRunSettling(g, runtime)
  \/ SettleRoleRun(g)
  \/ BlockRoleRun(g)
  \/ \E e \in Artifacts : SubmitExecutionForVerification(g, e)
  \/ \E e, v \in Artifacts : SubmitVerification(g, e, v)

FinishStop(r) ==
  \/ FinishCancelledStop(r)
  \/ \E upstream \in ReturnStatus \cup {"planning"} : FinishSupersededStop(r, upstream)

HolderMayGoOn(x) == \E g \in grants : g.roleRun = x /\ ENABLED WorkerStep(g)

-----------------------------------------------------------------------------
(* As long as a lease lasts its holder has a command that takes the RoleRun  *)
(* on: cancelling, blocking or superseding the Run, revoking its Approvals   *)
(* and the results of others never leave a worker with nothing it may send.  *)
HeldWorkMayGoOn ==
  \A x \in RoleRuns : roleRuns[x].lease = "live" => HolderMayGoOn(x)

(* A RoleRun nobody can move while its Run is stopping: it was never leased, *)
(* it is blocked, or its lease was lost.                                     *)
Stranded(x) == roleRuns[x].status \in {"prepared", "blocked"} \/ roleRuns[x].lease = "expired"

(* A Run that was told to stop can be taken on to its end, by finishRunStop  *)
(* or by the worker it waits for, except in those three cases; and in them   *)
(* it cannot, by any command on the Run or its RoleRuns.                     *)
StopIsStuckOnStrandedWork ==
  \A r \in Runs : runs[r].status = "stopping" =>
    LET mayGoOn == \/ ENABLED FinishStop(r)
                   \/ ENABLED CancelIdleRun(r)
                   \/ \E x \in RoleRunsOf(r) :
                        HolderMayGoOn(x) \/ \E w \in Workers : ENABLED AcquireRoleRunLease(x, w)
    IN  mayGoOn <=> \A x \in UnsettledRoleRuns(r) : ~Stranded(x)
=============================================================================
