------------------------ MODULE ControlPlaneWorkProofs ------------------------
(* What RoleRuns, their leases and their results amount to: sessions are     *)
(* fenced, what is settled stays settled, a stopped Run gets no more work,   *)
(* and a completed Task was verified.                                        *)
EXTENDS ControlPlaneApprovalProofs

-----------------------------------------------------------------------------
(* How a step writes a RoleRun. *)

PreparedNow(x) ==
  /\ roleRuns[x].status = "none"
  /\ \E r \in Runs, role \in RuntimeRoles, inputs \in SUBSET Artifacts :
       /\ runs[r].status \in {"authorized", "active"}
       /\ roleRuns'[x] = [NoRoleRun EXCEPT !.status = "prepared", !.run = r, !.role = role,
                                           !.inputs = inputs]

(* What a lease, a session and their expiry leave as it is.                   *)
KeepsWork(x) ==
  /\ roleRuns'[x].run = roleRuns[x].run
  /\ roleRuns'[x].role = roleRuns[x].role
  /\ roleRuns'[x].output = roleRuns[x].output
  /\ roleRuns'[x].outcome = roleRuns[x].outcome

LeasedNow(x) ==
  /\ Leasable(x) /\ roleRuns'[x].status = "starting" /\ KeepsWork(x)

(* A step under a lease that is held keeps its token and owner.               *)
KeepsLease(x) ==
  /\ roleRuns'[x].token = roleRuns[x].token
  /\ roleRuns'[x].owner = roleRuns[x].owner

StartedNow(x) ==
  /\ \E g \in grants : /\ g.roleRun = x /\ RoleLeaseHeld(g, "starting")
                       /\ roleRuns'[x].session = g.token
  /\ roleRuns'[x].status = "running" /\ KeepsWork(x) /\ KeepsLease(x)

SettlingNow(x) ==
  /\ roleRuns[x].status = "running" /\ roleRuns'[x].status = "settling"
  /\ roleRuns'[x].session = roleRuns[x].session /\ KeepsWork(x) /\ KeepsLease(x)

ExpiredNow(x) ==
  /\ roleRuns[x].status \in {"starting", "running", "settling"}
  /\ roleRuns'[x].status = roleRuns[x].status
  /\ roleRuns'[x].session = roleRuns[x].session /\ KeepsWork(x) /\ KeepsLease(x)

EndedNow(x) ==
  /\ roleRuns[x].status = "settling"
  /\ roleRuns'[x].token = roleRuns[x].token
  /\ \/ roleRuns'[x] = RoleRunReleased(x, "settled", "unsuccessful", Nil)
     \/ roleRuns'[x] = RoleRunReleased(x, "blocked", "none", Nil)
     \/ /\ runs[roleRuns[x].run].status = "active"
        /\ \E e \in Artifacts : roleRuns'[x] = RoleRunReleased(x, "settled", "succeeded", e)

RoleRunStep(x) ==
  \/ PreparedNow(x) \/ LeasedNow(x) \/ StartedNow(x) \/ SettlingNow(x) \/ ExpiredNow(x)
  \/ EndedNow(x)

(* Ending a RoleRun that settles is one of the ways above.                    *)
LEMMA ReleaseEnds ==
  ASSUME TypeOK, NEW x \in RoleRuns, NEW y \in RoleRuns, NEW row,
         roleRuns[y].status = "settling", roleRuns' = [roleRuns EXCEPT ![y] = row],
         \/ row = RoleRunReleased(y, "settled", "unsuccessful", Nil)
         \/ row = RoleRunReleased(y, "blocked", "none", Nil)
         \/ /\ runs[roleRuns[y].run].status = "active"
            /\ \E e \in Artifacts : row = RoleRunReleased(y, "settled", "succeeded", e)
  PROVE  roleRuns'[x] = roleRuns[x] \/ EndedNow(x)
<1>1. CASE x # y
  BY <1>1 DEF TypeOK
<1>2. CASE x = y
  <2>1. roleRuns'[x] = row /\ roleRuns[x] \in RoleRun
    BY <1>2 DEF TypeOK
  <2>2. row.token = roleRuns[x].token
    BY <1>2, <2>1 DEF RoleRunReleased, RoleRun
  <2> QED BY <1>2, <2>1, <2>2 DEF EndedNow
<1> QED BY <1>1, <1>2

(* A worker's command writes the RoleRun of its lease in one of these ways.   *)
LEMMA WorkerWritesRoleRun ==
  ASSUME TypeOK, WorkerCommand, NEW x \in RoleRuns
  PROVE  roleRuns'[x] = roleRuns[x] \/ RoleRunStep(x)
<1> USE DEF RoleRunStep
<1>1. ASSUME NEW y \in RoleRuns, NEW w \in Workers, AcquireRoleRunLease(y, w)
      PROVE  roleRuns'[x] = roleRuns[x] \/ LeasedNow(x)
  BY <1>1 DEF AcquireRoleRunLease, LeasedNow, KeepsWork, TypeOK, RoleRun
<1>2. ASSUME NEW g \in grants, MarkRoleRunRunning(g)
      PROVE  roleRuns'[x] = roleRuns[x] \/ StartedNow(x)
  BY <1>2, GrantRows DEF MarkRoleRunRunning, StartedNow, KeepsWork, KeepsLease, TypeOK, RoleRun
<1>3. ASSUME NEW g \in grants, NEW runtime, MarkRoleRunSettling(g, runtime)
      PROVE  roleRuns'[x] = roleRuns[x] \/ SettlingNow(x)
  BY <1>3, GrantRows DEF MarkRoleRunSettling, RoleLeaseHeld, SettlingNow, KeepsWork, KeepsLease,
     TypeOK, RoleRun
<1>4. ASSUME NEW g \in grants, RoleLeaseHeld(g, "settling")
      PROVE  g.roleRun \in RoleRuns /\ roleRuns[g.roleRun].status = "settling"
  BY <1>4, GrantRows DEF RoleLeaseHeld
<1>5. ASSUME NEW g \in grants, SettleRoleRun(g)
      PROVE  roleRuns'[x] = roleRuns[x] \/ EndedNow(x)
  BY <1>4, <1>5, ReleaseEnds DEF SettleRoleRun
<1>6. ASSUME NEW g \in grants, BlockRoleRun(g)
      PROVE  roleRuns'[x] = roleRuns[x] \/ EndedNow(x)
  BY <1>4, <1>6, ReleaseEnds DEF BlockRoleRun
<1>7. ASSUME NEW g \in grants, NEW e \in Artifacts, SubmitExecutionForVerification(g, e)
      PROVE  roleRuns'[x] = roleRuns[x] \/ EndedNow(x)
  BY <1>4, <1>7, ReleaseEnds DEF SubmitExecutionForVerification
<1>8. ASSUME NEW g \in grants, NEW e \in Artifacts, NEW v \in Artifacts,
             SubmitVerification(g, e, v)
      PROVE  roleRuns'[x] = roleRuns[x] \/ EndedNow(x)
  <2>1. PICK verdict : SubmitVerificationResult(g, e, v, verdict)
    BY <1>8 DEF SubmitVerification, SubmitPass, SubmitImplementationFailure, SubmitBlocked,
       SubmitUpstreamFailure
  <2> QED BY <1>4, <2>1, ReleaseEnds DEF SubmitVerificationResult
<1> QED BY <1>1, <1>2, <1>3, <1>5, <1>6, <1>7, <1>8 DEF WorkerCommand

(* Commands of people do not touch RoleRuns.                                  *)
LEMMA PeopleLeaveRoleRuns ==
  ASSUME DesignCommand \/ RecordApprovalDecision \/ AcceptanceCommand \/ StopCommand
         \/ InvalidateApproval
  PROVE  UNCHANGED roleRuns
<1>1. CASE DesignCommand
  BY <1>1 DEF DesignCommand, StartContextualization, CompleteContextualization,
     SubmitTrdForApproval
<1>2. CASE RecordApprovalDecision
  <2>1. PICK a \in Approvals, p \in Actors, role \in RequiredRoles, decision \in Decisions :
          ApprovalDecision(a, p, role, decision)
    BY <1>2 DEF RecordApprovalDecision
  <2>2. PICK aggregate : Decide(a, p, role, decision, aggregate)
    BY <2>1 DEF ApprovalDecision, DecideInPart, ApproveTrd, RequestTrdChanges, RejectTrd,
       AuthorizeRun, RequestRunChanges, RejectRun
  <2> QED BY <2>2 DEF Decide
<1>3. CASE AcceptanceCommand
  BY <1>3 DEF AcceptanceCommand, ReworkImplementation, ReworkUnclassified, ReworkUpstream,
     AcceptDelivery
<1>4. CASE StopCommand
  BY <1>4 DEF StopCommand, CancelWithoutRun, CancelIdleRun, CancelBusyRun, FinishCancelledStop,
     FinishSupersededStop, StopSettles
<1>5. CASE InvalidateApproval
  BY <1>5 DEF InvalidateApproval, InvalidateAfterClose, InvalidateBeforeRun,
     InvalidateDuringRun, InvalidateWithoutRun, Invalidate
<1> QED BY <1>1, <1>2, <1>3, <1>4, <1>5

(* Every step writes a RoleRun in one of these ways or leaves it alone.       *)
LEMMA RoleRunIsStepped ==
  ASSUME TypeOK, Next, NEW x \in RoleRuns
  PROVE  roleRuns'[x] = roleRuns[x] \/ RoleRunStep(x)
<1>1. CASE RunCommand
  <2>1. ASSUME NEW y \in RoleRuns, NEW r \in Runs, NEW role \in RuntimeRoles,
               NEW inputs \in SUBSET Artifacts, PrepareRoleRun(y, r, role, inputs)
        PROVE  roleRuns'[x] = roleRuns[x] \/ PreparedNow(x)
    <3> DEFINE row == [NoRoleRun EXCEPT !.status = "prepared", !.run = r, !.role = role,
                                        !.inputs = inputs]
    <3>1. roleRuns' = [roleRuns EXCEPT ![y] = row] /\ roleRuns[y].status = "none"
          /\ runs[r].status \in {"authorized", "active"}
      BY <2>1 DEF PrepareRoleRun, MayPrepare
    <3>2. x # y => roleRuns'[x] = roleRuns[x]
      BY <3>1 DEF TypeOK
    <3>3. x = y => roleRuns'[x] = row
      BY <3>1 DEF TypeOK
    <3>4. x = y => PreparedNow(x)
      BY <3>1, <3>3 DEF PreparedNow
    <3> QED BY <3>2, <3>4
  <2>2. \A role : InputChoices(role) \subseteq SUBSET Artifacts
    BY DEF InputChoices, Registered
  <2> QED BY <1>1, <2>1, <2>2 DEF RunCommand, SealRunManifest, RoleRunStep
<1>2. CASE Environment
  <2>1. ASSUME NEW y \in RoleRuns, LeaseExpires(y)
        PROVE  roleRuns'[x] = roleRuns[x] \/ ExpiredNow(x)
    BY <2>1, BoundAssumption DEF LeaseExpires, ExpiredNow, KeepsWork, KeepsLease, TypeOK, RoleRun
  <2> QED BY <1>2, <2>1, OtherTaskLeaves DEF Environment, RegisterArtifact, MarkOutboxDelivered,
         DeadlinePasses, RoleRunStep
<1> QED BY <1>1, <1>2, WorkerWritesRoleRun, PeopleLeaveRoleRuns DEF Next

-----------------------------------------------------------------------------
(* Sessions are fenced. *)

(* No command takes a lease back from the worker that was told it: fencing    *)
(* rests on the token, not on forgetting.                                     *)
LEMMA GrantsGrow ==
  ASSUME Next
  PROVE  grants \subseteq grants'
<1>1. CASE DesignCommand
  BY <1>1 DEF DesignCommand, StartContextualization, CompleteContextualization,
     SubmitTrdForApproval
<1>2. CASE RecordApprovalDecision
  <2>1. PICK a \in Approvals, p \in Actors, role \in RequiredRoles, decision \in Decisions :
          ApprovalDecision(a, p, role, decision)
    BY <1>2 DEF RecordApprovalDecision
  <2>2. PICK aggregate : Decide(a, p, role, decision, aggregate)
    BY <2>1 DEF ApprovalDecision, DecideInPart, ApproveTrd, RequestTrdChanges, RejectTrd,
       AuthorizeRun, RequestRunChanges, RejectRun
  <2> QED BY <2>2 DEF Decide
<1>3. CASE RunCommand
  BY <1>3 DEF RunCommand, SealRunManifest, PrepareRoleRun
<1>4. CASE WorkerCommand
  <2>1. ASSUME NEW x \in RoleRuns, NEW w \in Workers, AcquireRoleRunLease(x, w)
        PROVE  grants \subseteq grants'
    BY <2>1 DEF AcquireRoleRunLease
  <2>2. ASSUME NEW g \in grants,
               \/ MarkRoleRunRunning(g)
               \/ \E runtime \in {"completed", "unsuccessful"} : MarkRoleRunSettling(g, runtime)
               \/ SettleRoleRun(g) \/ BlockRoleRun(g)
               \/ \E e \in Artifacts : SubmitExecutionForVerification(g, e)
        PROVE  UNCHANGED grants
    BY <2>2 DEF MarkRoleRunRunning, MarkRoleRunSettling, SettleRoleRun, BlockRoleRun,
       SubmitExecutionForVerification
  <2>3. ASSUME NEW g \in grants, NEW e \in Artifacts, NEW v \in Artifacts,
               SubmitVerification(g, e, v)
        PROVE  UNCHANGED grants
    BY <2>3 DEF SubmitVerification, SubmitVerificationResult, SubmitPass,
       SubmitImplementationFailure, SubmitBlocked, SubmitUpstreamFailure
  <2> QED BY <1>4, <2>1, <2>2, <2>3 DEF WorkerCommand
<1>5. CASE AcceptanceCommand
  BY <1>5 DEF AcceptanceCommand, ReworkImplementation, ReworkUnclassified, ReworkUpstream,
     AcceptDelivery
<1>6. CASE StopCommand
  BY <1>6 DEF StopCommand, CancelWithoutRun, CancelIdleRun, CancelBusyRun, FinishCancelledStop,
     FinishSupersededStop, StopSettles
<1>7. CASE InvalidateApproval
  BY <1>7 DEF InvalidateApproval, InvalidateAfterClose, InvalidateBeforeRun,
     InvalidateDuringRun, InvalidateWithoutRun, Invalidate
<1>8. CASE Environment
  BY <1>8, OtherTaskLeaves DEF Environment, RegisterArtifact, MarkOutboxDelivered,
     LeaseExpires, DeadlinePasses
<1> QED BY <1>1, <1>2, <1>3, <1>4, <1>5, <1>6, <1>7, <1>8 DEF Next

(* The lease a RoleRun is held under, as its worker was told it.              *)
HolderOf(x) == [roleRun |-> x, worker |-> roleRuns[x].owner, token |-> roleRuns[x].token]

(* Opening a session, ending it and losing it keep the fence.                 *)
LEMMA StepKeepsFence ==
  TypeOK /\ SessionIsFenced /\ [Next]_vars => SessionIsFenced'
<1> SUFFICES ASSUME TypeOK, SessionIsFenced, [Next]_vars, NEW x \in RoleRuns,
                    roleRuns'[x].status \in {"running", "settling"}
             PROVE  roleRuns'[x].session = roleRuns'[x].token /\ HolderOf(x)' \in grants'
  BY DEF SessionIsFenced, HolderOf
<1>1. grants \subseteq grants'
  BY GrantsGrow DEF vars
<1>2. CASE roleRuns'[x] = roleRuns[x]
  BY <1>1, <1>2 DEF SessionIsFenced, HolderOf
<1>3. CASE StartedNow(x)
  <2>1. PICK g \in grants : /\ g.roleRun = x /\ RoleLeaseHeld(g, "starting")
                            /\ roleRuns'[x].session = g.token
    BY <1>3 DEF StartedNow
  <2>2. /\ roleRuns'[x].token = g.token /\ roleRuns'[x].owner = g.worker
    BY <1>3, <2>1 DEF StartedNow, KeepsLease, RoleLeaseHeld
  <2>3. g = [roleRun |-> x, worker |-> g.worker, token |-> g.token]
    BY <2>1 DEF TypeOK, Grant
  <2> QED BY <1>1, <2>1, <2>2, <2>3 DEF HolderOf
<1>4. CASE SettlingNow(x) \/ ExpiredNow(x)
  <2>1. roleRuns[x].status \in {"running", "settling"}
    BY <1>4 DEF SettlingNow, ExpiredNow
  <2>2. /\ roleRuns'[x].token = roleRuns[x].token /\ roleRuns'[x].owner = roleRuns[x].owner
        /\ roleRuns'[x].session = roleRuns[x].session
    BY <1>4 DEF SettlingNow, ExpiredNow, KeepsLease
  <2> QED BY <1>1, <2>1, <2>2 DEF SessionIsFenced, HolderOf
<1>5. CASE PreparedNow(x) \/ LeasedNow(x) \/ EndedNow(x)
  <2>1. roleRuns'[x].status \in {"prepared", "starting", "settled", "blocked"}
    <3>1. CASE PreparedNow(x)
      BY <3>1 DEF PreparedNow, NoRoleRun
    <3>2. CASE LeasedNow(x)
      BY <3>2 DEF LeasedNow
    <3>3. CASE EndedNow(x)
      BY <3>3, RoleRunFields DEF EndedNow
    <3> QED BY <1>5, <3>1, <3>2, <3>3
  <2> QED BY <2>1
<1> QED BY <1>2, <1>3, <1>4, <1>5, RoleRunIsStepped DEF RoleRunStep, vars

(* Whatever number of workers takes leases, and whenever they run out: the    *)
(* session that runs is the one of the latest lease.  acquireRoleRunLease      *)
(* raises the token, assertRoleLease compares it, and no other command hands  *)
(* out a lease.                                                               *)
THEOREM SessionsAreFenced == Spec => []SessionIsFenced
<1>1. Init => SessionIsFenced
  BY DEF Init, NoRoleRun, SessionIsFenced
<1>2. TypeOK /\ SessionIsFenced /\ [Next]_vars => SessionIsFenced'
  BY StepKeepsFence
<1> QED BY <1>1, <1>2, TypeCorrect, PTL DEF Spec

-----------------------------------------------------------------------------
(* What is settled stays settled. *)

(* A RoleRun that was never prepared holds nothing, and a result is written   *)
(* only as its RoleRun settles.                                               *)
RoleRunsAreOrdered ==
  \A x \in RoleRuns :
    /\ roleRuns[x].status = "none" => roleRuns[x] = NoRoleRun
    /\ roleRuns[x].output # Nil => roleRuns[x].status = "settled"

(* Every step keeps a RoleRun that does not exist empty, and its output for  *)
(* the end.                                                                  *)
LEMMA StepKeepsOrder ==
  TypeOK /\ RoleRunsAreOrdered /\ [Next]_vars => RoleRunsAreOrdered'
<1> SUFFICES ASSUME TypeOK, RoleRunsAreOrdered, [Next]_vars, NEW x \in RoleRuns
             PROVE  /\ roleRuns'[x].status = "none" => roleRuns'[x] = NoRoleRun
                    /\ roleRuns'[x].output # Nil => roleRuns'[x].status = "settled"
  BY DEF RoleRunsAreOrdered
<1>1. CASE roleRuns'[x] = roleRuns[x]
  BY <1>1 DEF RoleRunsAreOrdered
<1>2. CASE PreparedNow(x)
  BY <1>2 DEF PreparedNow, NoRoleRun
<1>3. CASE LeasedNow(x) \/ StartedNow(x) \/ SettlingNow(x) \/ ExpiredNow(x)
  <2>1. /\ roleRuns[x].status \in {"prepared", "starting", "running", "settling"}
        /\ roleRuns'[x].status # "none" /\ roleRuns'[x].output = roleRuns[x].output
    BY <1>3 DEF LeasedNow, Leasable, StartedNow, RoleLeaseHeld, SettlingNow, ExpiredNow, KeepsWork
  <2> QED BY <2>1 DEF RoleRunsAreOrdered
<1>4. CASE EndedNow(x)
  <2>1. /\ roleRuns'[x].status \in {"settled", "blocked"}
        /\ roleRuns'[x].status = "blocked" => roleRuns'[x].output = Nil
    BY <1>4 DEF EndedNow, RoleRunReleased, TypeOK, RoleRun
  <2> QED BY <2>1
<1> QED BY <1>1, <1>2, <1>3, <1>4, RoleRunIsStepped DEF RoleRunStep, vars

(* RoleRunsAreOrdered in every reachable state.                              *)
LEMMA RoleRunsOrdered == Spec => []RoleRunsAreOrdered
<1>1. Init => RoleRunsAreOrdered
  BY DEF Init, NoRoleRun, RoleRunsAreOrdered
<1>2. TypeOK /\ RoleRunsAreOrdered /\ [Next]_vars => RoleRunsAreOrdered'
  BY StepKeepsOrder
<1> QED BY <1>1, <1>2, TypeCorrect, PTL DEF Spec

(* A RoleRun that has settled is not written again.                           *)
LEMMA SettledRoleRunStays ==
  ASSUME TypeOK, Next, NEW x \in RoleRuns, roleRuns[x].status = "settled"
  PROVE  roleRuns'[x] = roleRuns[x]
BY RoleRunIsStepped DEF RoleRunStep, PreparedNow, LeasedNow, Leasable, StartedNow, RoleLeaseHeld,
   SettlingNow, ExpiredNow, EndedNow

(* A RoleRun that is written is prepared, or is open and stays with its Run.  *)
LEMMA SteppedRoleRun ==
  ASSUME TypeOK, NEW x \in RoleRuns, RoleRunStep(x)
  PROVE  PreparedNow(x) \/ (Unsettled(roleRuns[x].status) /\ ~PreparedNow(x)
                            /\ roleRuns'[x].run = roleRuns[x].run)
<1>1. CASE PreparedNow(x)
  BY <1>1
<1>2. CASE LeasedNow(x) \/ StartedNow(x) \/ SettlingNow(x) \/ ExpiredNow(x)
  BY <1>2 DEF PreparedNow, LeasedNow, Leasable, StartedNow, RoleLeaseHeld, SettlingNow, ExpiredNow,
     KeepsWork, Unsettled
<1>3. CASE EndedNow(x)
  <2>1. roleRuns[x].status = "settling"
    BY <1>3 DEF EndedNow
  <2> QED BY <1>3, <2>1, RoleRunFields DEF EndedNow, PreparedNow, Unsettled
<1> QED BY <1>1, <1>2, <1>3 DEF RoleRunStep

(* A Run that is not to work is given no RoleRun, and loses none.             *)
LEMMA RoleRunsOfStay ==
  ASSUME TypeOK, RoleRunsAreOrdered, [Next]_vars, NEW r \in Runs,
         runs[r].status \notin {"authorized", "active"}
  PROVE  RoleRunsOf(r)' = RoleRunsOf(r)
<1>1. ASSUME NEW x \in RoleRuns
      PROVE  roleRuns'[x].run = r <=> roleRuns[x].run = r
  <2>1. CASE roleRuns'[x] = roleRuns[x]
    BY <2>1
  <2>2. CASE PreparedNow(x)
    <3>1. roleRuns[x].run = Nil
      BY <2>2 DEF PreparedNow, RoleRunsAreOrdered, NoRoleRun
    <3>2. roleRuns'[x].run # r
      BY <2>2 DEF PreparedNow, NoRoleRun
    <3> QED BY <3>1, <3>2, NilAssumption
  <2>3. CASE roleRuns'[x].run = roleRuns[x].run
    BY <2>3
  <2> QED BY <2>1, <2>2, <2>3, RoleRunIsStepped, SteppedRoleRun DEF vars
<1> QED BY <1>1 DEF RoleRunsOf

(* Once the Task is closed no command finds its Runs and RoleRuns open.       *)
LEMMA ClosedKeepsRuns ==
  ASSUME TypeOK, PhaseInv, Next, task.status = "closed"
  PROVE  UNCHANGED runs
<1>1. \A r \in Runs : runs[r].status \in {"none", "settled"}
  BY NoOpenRun
<1>2. CASE DesignCommand
  BY <1>2 DEF DesignCommand, StartContextualization, CompleteContextualization,
     SubmitTrdForApproval
<1>3. CASE RecordApprovalDecision
  BY <1>3 DEF RecordApprovalDecision, ApprovalDecision, DecideInPart, ApproveTrd,
     RequestTrdChanges, RejectTrd, AuthorizeRun, RequestRunChanges, RejectRun, AwaitsAuthorization
<1>4. CASE RunCommand
  BY <1>4 DEF RunCommand, SealRunManifest, PrepareRoleRun
<1>5. CASE WorkerCommand
  <2>1. ASSUME NEW x \in RoleRuns, roleRuns[x].status # "none", NEW w \in Workers,
               AcquireRoleRunLease(x, w)
        PROVE  FALSE
    BY <1>1, <2>1 DEF AcquireRoleRunLease, Leasable, PhaseInv, RoleRunsBelong
  <2>2. ASSUME NEW g \in grants, NEW e \in Artifacts, NEW v \in Artifacts,
               SubmitVerification(g, e, v)
        PROVE  FALSE
    BY <2>2 DEF SubmitVerification, SubmitVerificationResult, SubmitPass,
       SubmitImplementationFailure, SubmitBlocked, SubmitUpstreamFailure
  <2>3. ASSUME NEW g \in grants,
               \/ MarkRoleRunRunning(g)
               \/ \E runtime \in {"completed", "unsuccessful"} : MarkRoleRunSettling(g, runtime)
               \/ SettleRoleRun(g) \/ BlockRoleRun(g)
               \/ \E e \in Artifacts : SubmitExecutionForVerification(g, e)
        PROVE  UNCHANGED runs
    BY <2>3 DEF MarkRoleRunRunning, MarkRoleRunSettling, SettleRoleRun, BlockRoleRun,
       SubmitExecutionForVerification
  <2> QED BY <1>5, <2>1, <2>2, <2>3 DEF WorkerCommand
<1>6. CASE AcceptanceCommand
  BY <1>6 DEF AcceptanceCommand, AcceptableResults, ReworkImplementation, ReworkUnclassified,
     ReworkUpstream, AcceptDelivery
<1>7. CASE StopCommand
  BY <1>7 DEF StopCommand, CancelWithoutRun, CancelIdleRun, CancelBusyRun, FinishCancelledStop,
     FinishSupersededStop, StopSettles, StopIsDone
<1>8. CASE InvalidateApproval
  BY <1>8 DEF InvalidateApproval, InvalidateAfterClose, InvalidateBeforeRun,
     InvalidateDuringRun, InvalidateWithoutRun
<1>9. CASE Environment
  BY <1>9, OtherTaskLeaves DEF Environment, RegisterArtifact, MarkOutboxDelivered,
     LeaseExpires, DeadlinePasses
<1> QED BY <1>2, <1>3, <1>4, <1>5, <1>6, <1>7, <1>8, <1>9 DEF Next

(* Nor does any command write a RoleRun then.                                 *)
LEMMA ClosedKeepsRoleRuns ==
  ASSUME TypeOK, TypeOK', PhaseInv, Next, task.status = "closed"
  PROVE  UNCHANGED roleRuns
<1>1. \A r \in Runs : runs[r].status \in {"none", "settled"}
  BY NoOpenRun
<1>2. ASSUME NEW x \in RoleRuns, roleRuns'[x] # roleRuns[x]
      PROVE  FALSE
  <2>1. ~PreparedNow(x)
    BY <1>1 DEF PreparedNow
  <2>2. Unsettled(roleRuns[x].status)
    BY <1>2, <2>1, RoleRunIsStepped, SteppedRoleRun
  <2> QED BY <1>1, <2>2, OpenRoleRun
<1> QED BY <1>2 DEF TypeOK

ClosedStay ==
  /\ task.status = "closed" => UNCHANGED <<task, runs, roleRuns>>
  /\ \A r \in Runs : runs[r].status = "settled" =>
       /\ runs'[r] = runs[r]
       /\ RoleRunsOf(r)' = RoleRunsOf(r)
  /\ \A x \in RoleRuns : roleRuns[x].status = "settled" => roleRuns'[x] = roleRuns[x]

(* No command writes a row that is closed.                                   *)
LEMMA StepLeavesClosed ==
  TypeOK /\ TypeOK' /\ SchemaChecks /\ PhaseInv /\ RoleRunsAreOrdered /\ [Next]_vars =>
    [ClosedStay]_vars
<1> SUFFICES ASSUME TypeOK, TypeOK', SchemaChecks, PhaseInv, RoleRunsAreOrdered, Next
             PROVE  ClosedStay
  OBVIOUS
<1>1. task.status = "closed" => UNCHANGED <<task, runs, roleRuns>>
  BY ClosedKeepsRuns, ClosedKeepsRoleRuns, TaskIsWritten, SchemaParts DEF TaskWritten
<1>2. ASSUME NEW r \in Runs, runs[r].status = "settled"
      PROVE  runs'[r] = runs[r] /\ RoleRunsOf(r)' = RoleRunsOf(r)
  BY <1>2, RunIsWritten, SchemaParts, RoleRunsOfStay DEF RunWritten
<1>3. ASSUME NEW x \in RoleRuns, roleRuns[x].status = "settled"
      PROVE  roleRuns'[x] = roleRuns[x]
  BY <1>3, SettledRoleRunStays
<1> QED BY <1>1, <1>2, <1>3 DEF ClosedStay

(* What closes stays closed, for any number of Runs, workers and leases: no   *)
(* late command finds a row of a closed Task or of a settled Run it may       *)
(* write, though none of them looks at more than the rows it names.           *)
THEOREM SettledStaysFinal == Spec => SettledIsFinal
<1>1. [][ClosedStay]_vars <=> SettledIsFinal
  BY DEF ClosedStay, SettledIsFinal
<1> QED BY <1>1, StepLeavesClosed, RowsAreSound, PhaseCorrect, RoleRunsOrdered, PTL DEF Spec

StoppedGetNothing ==
  \A r \in Runs : runs[r].status \in {"blocked", "stopping"} =>
    /\ RoleRunsOf(r)' = RoleRunsOf(r)
    /\ \A x \in RoleRunsOf(r) :
         /\ roleRuns'[x].token = roleRuns[x].token
         /\ roleRuns'[x].output = roleRuns[x].output

(* No command gives a Run that is blocked or stopping anything.              *)
LEMMA StepGivesNoWork ==
  TypeOK /\ RoleRunsAreOrdered /\ [Next]_vars => [StoppedGetNothing]_vars
<1>1. ASSUME TypeOK, RoleRunsAreOrdered, Next, NEW r \in Runs,
             runs[r].status \in {"blocked", "stopping"}
      PROVE  /\ RoleRunsOf(r)' = RoleRunsOf(r)
             /\ \A x \in RoleRunsOf(r) :
                  /\ roleRuns'[x].token = roleRuns[x].token
                  /\ roleRuns'[x].output = roleRuns[x].output
  <2>1. RoleRunsOf(r)' = RoleRunsOf(r)
    BY <1>1, RoleRunsOfStay
  <2>2. ASSUME NEW x \in RoleRuns, roleRuns[x].run = r
        PROVE  /\ roleRuns'[x].token = roleRuns[x].token
               /\ roleRuns'[x].output = roleRuns[x].output
    <3>1. CASE roleRuns'[x] = roleRuns[x]
      BY <3>1
    <3>2. ~PreparedNow(x)
      <4>1. NoRoleRun.run = Nil
        BY DEF NoRoleRun
      <4>2. roleRuns[x].status # "none"
        BY <1>1, <2>2, <4>1, NilAssumption DEF RoleRunsAreOrdered
      <4> QED BY <4>2 DEF PreparedNow
    <3>3. ~LeasedNow(x)
      BY <1>1, <2>2 DEF LeasedNow, Leasable
    <3>4. CASE StartedNow(x) \/ SettlingNow(x) \/ ExpiredNow(x)
      BY <3>4 DEF StartedNow, SettlingNow, ExpiredNow, KeepsWork, KeepsLease
    <3>5. CASE EndedNow(x)
      <4>1. roleRuns[x].output = Nil
        BY <1>1, <3>5 DEF EndedNow, RoleRunsAreOrdered
      <4>2. \/ roleRuns'[x] = RoleRunReleased(x, "settled", "unsuccessful", Nil)
            \/ roleRuns'[x] = RoleRunReleased(x, "blocked", "none", Nil)
        BY <1>1, <2>2, <3>5 DEF EndedNow
      <4>3. roleRuns'[x].output = Nil
        BY <1>1, <4>2 DEF RoleRunReleased, TypeOK, RoleRun
      <4> QED BY <3>5, <4>1, <4>3 DEF EndedNow
    <3> QED BY <1>1, <3>1, <3>2, <3>3, <3>4, <3>5, RoleRunIsStepped DEF RoleRunStep
  <2> QED BY <2>1, <2>2 DEF RoleRunsOf
<1> QED BY <1>1 DEF StoppedGetNothing

(* A Run that is told to stop is given no RoleRun, no lease and no result by  *)
(* any worker, however late its commands arrive: the three writes each ask    *)
(* for a Run that works, in the transaction that makes them.                  *)
THEOREM StoppedRunsGetNoWork == Spec => NoNewWorkAfterStop
<1>1. [][StoppedGetNothing]_vars <=> NoNewWorkAfterStop
  BY DEF StoppedGetNothing, NoNewWorkAfterStop
<1> QED BY <1>1, StepGivesNoWork, TypeCorrect, RoleRunsOrdered, PTL DEF Spec

-----------------------------------------------------------------------------
(* A completed Task was verified. *)

HasExecuted(r) ==
  \E x \in RoleRunsOf(r) : roleRuns[x].role = "executor" /\ roleRuns[x].outcome = "succeeded"

HasPassed(r) ==
  \E y \in RoleRunsOf(r) :
    /\ roleRuns[y].role = "verifier" /\ roleRuns[y].outcome = "succeeded"
    /\ roleRuns[y].output \in Artifacts /\ artifacts[roleRuns[y].output].verdict = "pass"

(* The Task verifies only what an executor of the active Run handed over, and *)
(* waits for acceptance only of what a verifier of that Run passed.           *)
PhasesAreEarned ==
  \A r \in Runs : runs[r].status = "active" =>
    /\ task.status \in {"verifying", "awaiting_acceptance"} => HasExecuted(r)
    /\ task.status = "awaiting_acceptance" => HasPassed(r)

(* What a completed Task was accepted on.                                     *)
AcceptedOn(r) ==
  /\ runs[r].outcome = "completed"
  /\ task.execution \in Artifacts /\ task.verification \in Artifacts
  /\ artifacts[task.execution] = ExecutionResult(r)
  /\ artifacts[task.verification] = VerificationResult(r, task.execution, "pass")
  /\ HasExecuted(r) /\ HasPassed(r)

CompletionIsEarned ==
  /\ PhasesAreEarned
  /\ task.outcome = "completed" => \E r \in Runs : AcceptedOn(r)

(* A stored artifact is never written over.                                   *)
LEMMA ContentStays ==
  ASSUME TypeOK, Next, NEW e \in Artifacts, artifacts[e] # NoContent
  PROVE  artifacts'[e] = artifacts[e]
<1>1. ASSUME NEW f \in Artifacts, NEW content, InsertArtifact(f, content)
      PROVE  artifacts'[e] = artifacts[e]
  BY <1>1 DEF InsertArtifact, TypeOK
<1>2. CASE DesignCommand
  BY <1>2 DEF DesignCommand, StartContextualization, CompleteContextualization,
     SubmitTrdForApproval
<1>3. CASE RecordApprovalDecision
  <2>1. PICK a \in Approvals, p \in Actors, role \in RequiredRoles, decision \in Decisions :
          ApprovalDecision(a, p, role, decision)
    BY <1>3 DEF RecordApprovalDecision
  <2>2. PICK aggregate : Decide(a, p, role, decision, aggregate)
    BY <2>1 DEF ApprovalDecision, DecideInPart, ApproveTrd, RequestTrdChanges, RejectTrd,
       AuthorizeRun, RequestRunChanges, RejectRun
  <2> QED BY <2>2 DEF Decide
<1>4. CASE RunCommand
  BY <1>4 DEF RunCommand, SealRunManifest, PrepareRoleRun
<1>5. CASE WorkerCommand
  <2>1. ASSUME NEW x \in RoleRuns, NEW w \in Workers, AcquireRoleRunLease(x, w)
        PROVE  UNCHANGED artifacts
    BY <2>1 DEF AcquireRoleRunLease
  <2>2. ASSUME NEW g \in grants,
               \/ MarkRoleRunRunning(g)
               \/ \E runtime \in {"completed", "unsuccessful"} : MarkRoleRunSettling(g, runtime)
               \/ SettleRoleRun(g) \/ BlockRoleRun(g)
        PROVE  UNCHANGED artifacts
    BY <2>2 DEF MarkRoleRunRunning, MarkRoleRunSettling, SettleRoleRun, BlockRoleRun
  <2>3. ASSUME NEW g \in grants, NEW f \in Artifacts, SubmitExecutionForVerification(g, f)
        PROVE  artifacts'[e] = artifacts[e]
    BY <1>1, <2>3 DEF SubmitExecutionForVerification
  <2>4. ASSUME NEW g \in grants, NEW f \in Artifacts, NEW v \in Artifacts,
               SubmitVerification(g, f, v)
        PROVE  artifacts'[e] = artifacts[e]
    <3>1. PICK verdict : SubmitVerificationResult(g, f, v, verdict)
      BY <2>4 DEF SubmitVerification, SubmitPass, SubmitImplementationFailure, SubmitBlocked,
         SubmitUpstreamFailure
    <3> QED BY <1>1, <3>1 DEF SubmitVerificationResult
  <2> QED BY <1>5, <2>1, <2>2, <2>3, <2>4 DEF WorkerCommand
<1>6. CASE AcceptanceCommand
  BY <1>6 DEF AcceptanceCommand, ReworkImplementation, ReworkUnclassified, ReworkUpstream,
     AcceptDelivery
<1>7. CASE StopCommand
  BY <1>7 DEF StopCommand, CancelWithoutRun, CancelIdleRun, CancelBusyRun, FinishCancelledStop,
     FinishSupersededStop, StopSettles
<1>8. CASE InvalidateApproval
  BY <1>8 DEF InvalidateApproval, InvalidateAfterClose, InvalidateBeforeRun,
     InvalidateDuringRun, InvalidateWithoutRun, Invalidate
<1>9. CASE Environment
  BY <1>1, <1>9, OtherTaskLeaves DEF Environment, RegisterArtifact, MarkOutboxDelivered, LeaseExpires,
     DeadlinePasses
<1> QED BY <1>2, <1>3, <1>4, <1>5, <1>6, <1>7, <1>8, <1>9 DEF Next

(* The only commands that bring the Task to verification, to acceptance and   *)
(* to completion.                                                             *)
Handoff == \E g \in grants, e \in Artifacts : SubmitExecutionForVerification(g, e)
Passing == \E g \in grants, e \in Artifacts, v \in Artifacts : SubmitPass(g, e, v)
Accepting == \E r \in Runs, e \in Artifacts, v \in Artifacts : AcceptDelivery(r, e, v)

TaskEntered ==
  /\ task'.status = "verifying" => task.status = "verifying" \/ Handoff
  /\ task'.status = "awaiting_acceptance" => task.status = "awaiting_acceptance" \/ Passing
  /\ task'.outcome = "completed" => task.outcome = "completed" \/ Accepting

(* Every command writes the Task in one of the ways named above.             *)
LEMMA TaskIsEntered ==
  ASSUME TypeOK, Next
  PROVE  TaskEntered
<1>1. CASE UNCHANGED task
  BY <1>1 DEF TaskEntered
<1>2. ASSUME NEW e, NEW v, NEW s,
             \/ task' = TaskMoved(s, e, v) /\ s \notin {"verifying", "awaiting_acceptance"}
             \/ task' = TaskBlocked(s, e, v)
             \/ task' = TaskClosed("cancelled", e, v)
      PROVE  TaskEntered
  BY <1>2, TaskFields DEF TaskEntered
<1>3. CASE DesignCommand
  <2>1. CASE StartContextualization
    BY <1>2, <2>1 DEF StartContextualization
  <2>2. ASSUME NEW c \in Contexts, CompleteContextualization(c) PROVE TaskEntered
    BY <2>2 DEF CompleteContextualization, TaskMoved, TaskEntered, TypeOK, Task
  <2>3. ASSUME NEW t \in Trds, NEW a \in Approvals, NEW p \in Actors,
               NEW d \in DeadlineChoices, SubmitTrdForApproval(t, a, p, d)
        PROVE  TaskEntered
    BY <2>3 DEF SubmitTrdForApproval, TaskMoved, TaskEntered, TypeOK, Task
  <2> QED BY <1>3, <2>1, <2>2, <2>3 DEF DesignCommand
<1>4. CASE RecordApprovalDecision
  BY <1>1, <1>2, <1>4 DEF RecordApprovalDecision, ApprovalDecision, DecideInPart, ApproveTrd,
     RequestTrdChanges, RejectTrd, AuthorizeRun, RequestRunChanges, RejectRun, ReturnStatus
<1>5. CASE RunCommand
  BY <1>1, <1>5 DEF RunCommand, SealRunManifest, PrepareRoleRun
<1>6. CASE WorkerCommand
  <2>1. ASSUME NEW g \in grants, BlockRoleRun(g) PROVE TaskEntered
    BY <1>2, <2>1 DEF BlockRoleRun
  <2>2. ASSUME NEW g \in grants, NEW e \in Artifacts, SubmitExecutionForVerification(g, e)
        PROVE  TaskEntered
    <3>1. Handoff
      BY <2>2 DEF Handoff
    <3>2. task' = TaskMoved("verifying", e, Nil)
      BY <2>2 DEF SubmitExecutionForVerification
    <3> QED BY <3>1, <3>2, TaskFields DEF TaskEntered
  <2>3. ASSUME NEW g \in grants, NEW e \in Artifacts, NEW v \in Artifacts,
               SubmitVerification(g, e, v)
        PROVE  TaskEntered
    <3>1. CASE SubmitPass(g, e, v)
      <4>1. Passing
        BY <3>1 DEF Passing
      <4>2. task' = TaskMoved("awaiting_acceptance", e, v)
        BY <3>1 DEF SubmitPass
      <4> QED BY <4>1, <4>2, TaskFields DEF TaskEntered
    <3>2. CASE SubmitImplementationFailure(g, e, v)
      BY <1>2, <3>2 DEF SubmitImplementationFailure
    <3>3. CASE SubmitBlocked(g, e, v)
      BY <1>2, <3>3 DEF SubmitBlocked
    <3>4. ASSUME NEW f \in UpstreamFindings, SubmitUpstreamFailure(g, e, v, f)
          PROVE  TaskEntered
      BY <1>2, <3>4 DEF SubmitUpstreamFailure
    <3> QED BY <2>3, <3>1, <3>2, <3>3, <3>4 DEF SubmitVerification
  <2> QED BY <1>1, <1>6, <2>1, <2>2, <2>3 DEF WorkerCommand, AcquireRoleRunLease,
         MarkRoleRunRunning, MarkRoleRunSettling, SettleRoleRun
<1>7. CASE AcceptanceCommand
  <2>1. ASSUME NEW r \in Runs, NEW e \in Artifacts, NEW v \in Artifacts, AcceptDelivery(r, e, v)
        PROVE  TaskEntered
    <3>1. Accepting
      BY <2>1 DEF Accepting
    <3>2. task' = TaskClosed("completed", e, v)
      BY <2>1 DEF AcceptDelivery
    <3> QED BY <3>1, <3>2, TaskFields DEF TaskEntered
  <2>2. ASSUME NEW r \in Runs, NEW e \in Artifacts, NEW v \in Artifacts,
               \/ ReworkImplementation(r, e, v) \/ ReworkUnclassified(r, e, v)
               \/ \E f \in UpstreamFindings : ReworkUpstream(r, e, v, f)
        PROVE  TaskEntered
    BY <1>2, <2>2 DEF ReworkImplementation, ReworkUnclassified, ReworkUpstream
  <2> QED BY <1>7, <2>1, <2>2 DEF AcceptanceCommand
<1>8. CASE StopCommand
  <2>1. CASE CancelWithoutRun
    BY <1>2, <2>1 DEF CancelWithoutRun
  <2>2. ASSUME NEW r \in Runs, CancelIdleRun(r) \/ CancelBusyRun(r) \/ FinishCancelledStop(r)
        PROVE  TaskEntered
    BY <1>2, <2>2 DEF CancelIdleRun, CancelBusyRun, FinishCancelledStop
  <2>3. ASSUME NEW r \in Runs, NEW u \in ReturnStatus \cup {"planning"},
               FinishSupersededStop(r, u)
        PROVE  TaskEntered
    BY <1>2, <2>3 DEF FinishSupersededStop, ReturnStatus
  <2> QED BY <1>8, <2>1, <2>2, <2>3 DEF StopCommand
<1>9. CASE InvalidateApproval
  BY <1>1, <1>2, <1>9 DEF InvalidateApproval, InvalidateAfterClose, InvalidateBeforeRun,
     InvalidateDuringRun, InvalidateWithoutRun
<1>10. CASE Environment
  BY <1>1, <1>10, OtherTaskLeaves DEF Environment, RegisterArtifact, MarkOutboxDelivered, LeaseExpires,
     DeadlinePasses
<1> QED BY <1>3, <1>4, <1>5, <1>6, <1>7, <1>8, <1>9, <1>10 DEF Next

(* What a Run has earned it keeps: its RoleRuns that succeeded are settled.   *)
LEMMA EarnedStays ==
  ASSUME TypeOK, RoleRunChecks, Next, NEW r \in Runs
  PROVE  /\ HasExecuted(r) => HasExecuted(r)'
         /\ HasPassed(r) => HasPassed(r)'
<1>1. ASSUME NEW x \in RoleRunsOf(r), roleRuns[x].outcome = "succeeded"
      PROVE  x \in RoleRunsOf(r)' /\ roleRuns'[x] = roleRuns[x]
  <2>1. x \in RoleRuns /\ roleRuns[x].run = r
    BY DEF RoleRunsOf
  <2>2. roleRuns[x].status = "settled"
    BY <1>1, <2>1 DEF RoleRunChecks
  <2>3. roleRuns'[x] = roleRuns[x]
    BY <2>1, <2>2, SettledRoleRunStays
  <2> QED BY <2>1, <2>3 DEF RoleRunsOf
<1>2. ASSUME NEW e \in Artifacts, artifacts[e].verdict = "pass"
      PROVE  artifacts'[e] = artifacts[e]
  BY <1>2, ContentStays DEF NoContent
<1>3. HasExecuted(r) => HasExecuted(r)'
  BY <1>1 DEF HasExecuted
<1>4. HasPassed(r) => HasPassed(r)'
  <2>1. SUFFICES ASSUME HasPassed(r) PROVE HasPassed(r)'
    OBVIOUS
  <2>2. PICK y \in RoleRunsOf(r) :
          /\ roleRuns[y].role = "verifier" /\ roleRuns[y].outcome = "succeeded"
          /\ roleRuns[y].output \in Artifacts /\ artifacts[roleRuns[y].output].verdict = "pass"
    BY <2>1 DEF HasPassed
  <2>3. /\ y \in RoleRunsOf(r)' /\ roleRuns'[y] = roleRuns[y]
        /\ artifacts'[roleRuns[y].output] = artifacts[roleRuns[y].output]
    BY <1>1, <1>2, <2>2
  <2> QED BY <2>2, <2>3 DEF HasPassed
<1> QED BY <1>3, <1>4

(* A Run that is active after a step was active or has just been activated,   *)
(* while the Task executes.                                                   *)
LEMMA ActiveBefore ==
  ASSUME TypeOK, PhaseInv, Next, NEW r \in Runs, runs'[r].status = "active",
         task'.status # "executing"
  PROVE  runs[r].status = "active"
<1>1. CASE SealedNow(r)
  BY <1>1 DEF SealedNow, SealRunManifest, TypeOK
<1>2. CASE AuthorizedNow(r)
  BY <1>2, RunFields DEF AuthorizedNow, AuthorizeRun, TypeOK
<1>3. CASE RunAdvanced(r)
  BY <1>3 DEF RunAdvanced, PhaseInv, PhaseAgreement
<1> QED BY <1>1, <1>2, <1>3, RunIsAdvanced

(* The executor's handoff: its RoleRun has succeeded in the one open Run.     *)
LEMMA HandoffEarns ==
  ASSUME TypeOK, PhaseInv, Handoff, NEW r \in Runs, runs[r].status = "active"
  PROVE  HasExecuted(r)'
<1>1. PICK g \in grants, e \in Artifacts : SubmitExecutionForVerification(g, e)
  BY DEF Handoff
<1> DEFINE x == g.roleRun
<1>2. /\ x \in RoleRuns /\ roleRuns[x].run \in UnsettledRuns
      /\ roleRuns[x].role = "executor"
      /\ roleRuns' = [roleRuns EXCEPT ![x] = RoleRunReleased(x, "settled", "succeeded", e)]
  BY <1>1, HeldRoleRun DEF SubmitExecutionForVerification
<1>3. roleRuns[x].run = r
  BY <1>2 DEF PhaseInv, OneActiveRole, UnsettledRuns, Unsettled
<1>4. roleRuns'[x] = RoleRunReleased(x, "settled", "succeeded", e)
  BY <1>2 DEF TypeOK
<1>5. /\ roleRuns'[x].run = r /\ roleRuns'[x].role = "executor"
      /\ roleRuns'[x].outcome = "succeeded"
  BY <1>2, <1>3, <1>4, RoleRunFields
<1> QED BY <1>2, <1>5 DEF HasExecuted, RoleRunsOf

(* The verifier's PASS: its RoleRun has succeeded, and its verdict is stored. *)
LEMMA PassingEarns ==
  ASSUME TypeOK, PhaseInv, Passing, NEW r \in Runs, runs[r].status = "active"
  PROVE  HasPassed(r)' /\ task.status = "verifying"
<1>1. PICK g \in grants, e \in Artifacts, v \in Artifacts : SubmitPass(g, e, v)
  BY DEF Passing
<1> DEFINE x == g.roleRun
<1>2. SubmitVerificationResult(g, e, v, "pass")
  BY <1>1 DEF SubmitPass
<1>3. /\ x \in RoleRuns /\ roleRuns[x].run \in UnsettledRuns
      /\ roleRuns[x].role = "verifier" /\ task.status = "verifying"
      /\ roleRuns' = [roleRuns EXCEPT ![x] = RoleRunReleased(x, "settled", "succeeded", v)]
      /\ InsertArtifact(v, VerificationResult(roleRuns[x].run, e, "pass"))
  BY <1>2, HeldRoleRun DEF SubmitVerificationResult
<1>4. roleRuns[x].run = r
  BY <1>3 DEF PhaseInv, OneActiveRole, UnsettledRuns, Unsettled
<1>5. roleRuns'[x] = RoleRunReleased(x, "settled", "succeeded", v)
  BY <1>3 DEF TypeOK
<1>6. /\ roleRuns'[x].run = r /\ roleRuns'[x].role = "verifier"
      /\ roleRuns'[x].outcome = "succeeded"
  BY <1>3, <1>4, <1>5, RoleRunFields
<1>7. roleRuns'[x].output = v
  BY <1>3, <1>5 DEF RoleRunReleased, TypeOK, RoleRun
<1>8. artifacts'[v].verdict = "pass"
  BY <1>3 DEF InsertArtifact, VerificationResult, TypeOK
<1> QED BY <1>3, <1>6, <1>7, <1>8 DEF HasPassed, RoleRunsOf

(* Every step keeps what the phases were earned by.                           *)
LEMMA StepKeepsEarned ==
  ASSUME TypeOK, RoleRunChecks, PhaseInv, PhasesAreEarned, Next
  PROVE  PhasesAreEarned'
<1> SUFFICES ASSUME NEW r \in Runs, runs'[r].status = "active",
                    task'.status \in {"verifying", "awaiting_acceptance"}
             PROVE  /\ HasExecuted(r)'
                    /\ task'.status = "awaiting_acceptance" => HasPassed(r)'
  BY DEF PhasesAreEarned
<1>1. runs[r].status = "active"
  BY ActiveBefore
<1>2. TaskEntered
  BY TaskIsEntered
<1>3. CASE task.status \in {"verifying", "awaiting_acceptance"} /\ task.status = task'.status
  BY <1>1, <1>3, EarnedStays DEF PhasesAreEarned
<1>4. CASE task'.status = "verifying" /\ Handoff
  BY <1>1, <1>4, HandoffEarns
<1>5. CASE task'.status = "awaiting_acceptance" /\ Passing
  <2>1. HasPassed(r)' /\ task.status = "verifying"
    BY <1>1, <1>5, PassingEarns
  <2>2. HasExecuted(r)'
    BY <1>1, <2>1, EarnedStays DEF PhasesAreEarned
  <2> QED BY <2>1, <2>2
<1> QED BY <1>2, <1>3, <1>4, <1>5 DEF TaskEntered

(* Accepting a delivery closes the Task on what its Run has earned.           *)
LEMMA AcceptingCompletes ==
  ASSUME TypeOK, PhasesAreEarned, Accepting
  PROVE  \E r \in Runs : AcceptedOn(r)'
<1>1. PICK r \in Runs, e \in Artifacts, v \in Artifacts : AcceptDelivery(r, e, v)
  BY DEF Accepting
<1>2. /\ task.status = "awaiting_acceptance" /\ runs[r].status = "active"
      /\ artifacts[e] = ExecutionResult(r) /\ artifacts[v] = VerificationResult(r, e, "pass")
      /\ UNCHANGED <<roleRuns, artifacts>>
      /\ task' = TaskClosed("completed", e, v)
      /\ runs' = [runs EXCEPT ![r] = RunSettled(r, "completed")]
  BY <1>1 DEF AcceptDelivery, AcceptableResults
<1>3. HasExecuted(r)' /\ HasPassed(r)'
  BY <1>2 DEF PhasesAreEarned, HasExecuted, HasPassed, RoleRunsOf
<1>4. runs'[r].outcome = "completed"
  BY <1>2, RunFields DEF TypeOK
<1>5. task'.execution = e /\ task'.verification = v
  BY <1>2 DEF TaskClosed, TaskMoved, TypeOK, Task
<1>6. artifacts'[e] = ExecutionResult(r) /\ artifacts'[v] = VerificationResult(r, e, "pass")
  BY <1>2
<1>7. ExecutionResult(r)' = ExecutionResult(r)
      /\ VerificationResult(r, e, "pass")' = VerificationResult(r, e, "pass")
  BY DEF ExecutionResult, VerificationResult
<1> QED BY <1>3, <1>4, <1>5, <1>6, <1>7 DEF AcceptedOn

(* A completed Task keeps what it was accepted on.                            *)
LEMMA CompletedStays ==
  ASSUME TypeOK, TypeOK', SchemaChecks, PhaseInv, Next, task.outcome = "completed",
         NEW r \in Runs, AcceptedOn(r)
  PROVE  AcceptedOn(r)'
<1>1. task.status = "closed"
  BY DEF SchemaChecks
<1>2. UNCHANGED <<task, runs, roleRuns>>
  BY <1>1, ClosedKeepsRuns, ClosedKeepsRoleRuns, TaskIsWritten, SchemaParts DEF TaskWritten
<1>3. HasExecuted(r)' /\ HasPassed(r)'
  BY EarnedStays, SchemaParts DEF AcceptedOn
<1>4. /\ artifacts'[task.execution] = artifacts[task.execution]
      /\ artifacts'[task.verification] = artifacts[task.verification]
  BY ContentStays DEF AcceptedOn, ExecutionResult, VerificationResult, NoContent
<1> QED BY <1>2, <1>3, <1>4 DEF AcceptedOn

(* Every step keeps what a completed Task was accepted on.                    *)
LEMMA StepKeepsCompletion ==
  TypeOK /\ TypeOK' /\ SchemaChecks /\ PhaseInv /\ CompletionIsEarned /\ [Next]_vars
    => CompletionIsEarned'
<1>1. CASE UNCHANGED vars
  BY <1>1 DEF vars, CompletionIsEarned, PhasesAreEarned, AcceptedOn, HasExecuted, HasPassed,
     RoleRunsOf
<1>2. ASSUME TypeOK, TypeOK', SchemaChecks, PhaseInv, CompletionIsEarned, Next
      PROVE  CompletionIsEarned'
  <2>1. PhasesAreEarned'
    BY <1>2, StepKeepsEarned, SchemaParts DEF CompletionIsEarned
  <2>2. task'.outcome = "completed" => task.outcome = "completed" \/ Accepting
    BY <1>2, TaskIsEntered DEF TaskEntered
  <2>3. task'.outcome = "completed" => \E r \in Runs : AcceptedOn(r)'
    BY <1>2, <2>2, AcceptingCompletes, CompletedStays DEF CompletionIsEarned
  <2> QED BY <2>1, <2>3 DEF CompletionIsEarned
<1> QED BY <1>1, <1>2

(* CompletionIsEarned in every reachable state.                              *)
LEMMA CompletionEarned == Spec => []CompletionIsEarned
<1>1. Init => CompletionIsEarned
  BY DEF Init, NoRun, CompletionIsEarned, PhasesAreEarned
<1>2. TypeOK /\ TypeOK' /\ SchemaChecks /\ PhaseInv /\ CompletionIsEarned /\ [Next]_vars
        => CompletionIsEarned'
  BY StepKeepsCompletion
<1> QED BY <1>1, <1>2, RowsAreSound, PhaseCorrect, PTL DEF Spec

(* What is earned is what the run checks.                                    *)
LEMMA EarnedIsVerified == CompletionIsEarned => CompletionIsVerified
BY DEF CompletionIsEarned, AcceptedOn, HasExecuted, HasPassed, CompletionIsVerified

(* For any number of Runs, RoleRuns, attempts and reworks: a Task completes   *)
(* only after an executor and a verifier of one Run both succeeded, although  *)
(* acceptDelivery reads no RoleRun but the open ones, and the caller names    *)
(* the results it accepts.                                                    *)
THEOREM CompletionsAreVerified == Spec => []CompletionIsVerified
<1> QED BY EarnedIsVerified, CompletionEarned, PTL
=============================================================================
