-------------------------- MODULE ControlPlaneProofs --------------------------
(* Theorems about ControlPlane, for every value of its constants.            *)
EXTENDS ControlPlane, TLAPS

-----------------------------------------------------------------------------
(* What the row writers return. *)

(* The Task rows the transitions write.                                      *)
LEMMA TaskRows ==
  ASSUME TypeOK,
         NEW e \in Artifacts \cup {Nil}, NEW v \in Artifacts \cup {Nil}
  PROVE  /\ \A s \in TaskStatus : TaskMoved(s, e, v) \in Task
         /\ \A s \in ResumeStatus : TaskBlocked(s, e, v) \in Task
         /\ \A o \in {"completed", "cancelled"} : TaskClosed(o, e, v) \in Task
<1>1. \A s \in TaskStatus : TaskMoved(s, e, v) \in Task
  BY DEF TypeOK, TaskMoved, Task
<1>2. \A s \in ResumeStatus : TaskBlocked(s, e, v) \in Task
  BY <1>1 DEF TaskBlocked, Task, TaskStatus
<1>3. \A o \in {"completed", "cancelled"} : TaskClosed(o, e, v) \in Task
  BY <1>1 DEF TaskClosed, Task, TaskStatus
<1> QED BY <1>1, <1>2, <1>3

(* The rows a command writes for a Run are Run rows.                        *)
LEMMA RunRows ==
  ASSUME TypeOK, NEW r \in Runs
  PROVE  /\ \A s \in RunStatus : RunMoved(r, s) \in Run
         /\ \A p \in {"cancelled", "superseded"} : RunStopping(r, p) \in Run
         /\ RunBlocked(r) \in Run
         /\ \A o \in RunOutcome : RunSettled(r, o) \in Run
<1>1. \A s \in RunStatus : RunMoved(r, s) \in Run
  BY DEF TypeOK, RunMoved, Run
<1>2. \A p \in {"cancelled", "superseded"} : RunStopping(r, p) \in Run
  BY <1>1 DEF RunStopping, Run, RunStatus
<1>3. RunBlocked(r) \in Run
  BY <1>1 DEF RunBlocked, Run, RunStatus
<1>4. \A o \in RunOutcome : RunSettled(r, o) \in Run
  BY <1>1 DEF RunSettled, Run, RunStatus
<1> QED BY <1>1, <1>2, <1>3, <1>4

(* The row a RoleRun is left with when its lease ends is a RoleRun row.     *)
LEMMA RoleRunRows ==
  ASSUME TypeOK, NEW x \in RoleRuns,
         NEW o \in {"succeeded", "unsuccessful", "none"},
         NEW e \in Artifacts \cup {Nil}
  PROVE  \A s \in RoleRunStatus : RoleRunReleased(x, s, o, e) \in RoleRun
<1>1. roleRuns[x] \in RoleRun
  BY DEF TypeOK
<1> QED BY <1>1 DEF RoleRunReleased, RoleRun

(* The contents the two kinds of result carry are Artifact contents.        *)
LEMMA ResultRows ==
  ASSUME NEW r \in Runs \cup {Nil}, NEW e \in Artifacts, NEW verdict \in Verdicts
  PROVE  /\ ExecutionResult(r) \in Artifact
         /\ VerificationResult(r, e, verdict) \in Artifact
BY DEF ExecutionResult, VerificationResult, Artifact

(* Inserting an Artifact keeps the table of Artifacts well typed.           *)
LEMMA InsertedArtifacts ==
  ASSUME TypeOK, NEW e \in Artifacts, NEW content \in Artifact,
         InsertArtifact(e, content)
  PROVE  artifacts' \in [Artifacts -> Artifact]
BY DEF TypeOK, InsertArtifact

(* Announcing an event adds only Events to the outbox.                      *)
LEMMA AnnouncedEvents ==
  ASSUME TypeOK, NEW type \in EventTypes, NEW id \in Approvals \cup Runs,
         Announce(type, id)
  PROVE  outbox' \in SUBSET Event
<1>1. [type |-> type, id |-> id, delivered |-> FALSE] \in Event
  BY DEF Event
<1>2. outbox \in SUBSET Event
  BY DEF TypeOK
<1> QED BY <1>1, <1>2 DEF Announce

(* Requesting an Approval keeps the Approvals and the outbox well typed.    *)
LEMMA InsertedApprovals ==
  ASSUME TypeOK, NEW a \in Approvals, NEW gate \in Gates,
         NEW subject \in Trds \cup Runs, NEW p \in Actors,
         NEW d \in DeadlineChoices, InsertApproval(a, gate, subject, p, d)
  PROVE  /\ approvals' \in [Approvals -> Approval]
         /\ outbox' \in SUBSET Event
<1>1. outbox' \in SUBSET Event
  BY AnnouncedEvents DEF InsertApproval, EventTypes
<1>2. [status |-> "pending", gate |-> gate, subject |-> subject,
       requestedBy |-> p, deadline |-> d, decisions |-> {}] \in Approval
  BY BoundAssumption DEF Approval, ApprovalStatus
<1>3. approvals' \in [Approvals -> Approval]
  BY <1>2 DEF InsertApproval, TypeOK
<1> QED BY <1>1, <1>3

-----------------------------------------------------------------------------
(* Type correctness, one lemma per kind of action. *)

(* The commands that lead a Task to a submitted TRD keep the types.          *)
LEMMA TypeOfDesign ==
  TypeOK /\ DesignCommand => TypeOK'
<1> SUFFICES ASSUME TypeOK, DesignCommand PROVE TypeOK'
  OBVIOUS
<1>1. CASE StartContextualization
  BY <1>1, TaskRows DEF StartContextualization, TypeOK, TaskStatus
<1>2. ASSUME NEW c \in Contexts, CompleteContextualization(c)
      PROVE  TypeOK'
  <2>1. TaskMoved("drafting_trd", Nil, Nil) \in Task
    BY TaskRows DEF TaskStatus
  <2>2. task' \in Task
    BY <1>2, <2>1 DEF CompleteContextualization, Task
  <2> QED BY <1>2, <2>2 DEF CompleteContextualization, TypeOK
<1>3. ASSUME NEW t \in Trds, NEW a \in Approvals, NEW p \in Actors,
             NEW d \in DeadlineChoices, SubmitTrdForApproval(t, a, p, d)
      PROVE  TypeOK'
  <2>1. TaskMoved("awaiting_trd_approval", Nil, Nil) \in Task
    BY TaskRows DEF TaskStatus
  <2>2. task' \in Task
    BY <1>3, <2>1 DEF SubmitTrdForApproval, Task
  <2>3. approvals' \in [Approvals -> Approval] /\ outbox' \in SUBSET Event
    BY <1>3, InsertedApprovals DEF SubmitTrdForApproval, Gates
  <2> QED BY <1>3, <2>2, <2>3 DEF SubmitTrdForApproval, TypeOK
<1> QED BY <1>1, <1>2, <1>3 DEF DesignCommand

(* Recording a decision keeps the Approvals well typed and writes nothing   *)
(* but the Approval, the Task and the Runs.                                 *)
LEMMA DecidedRows ==
  ASSUME TypeOK, NEW a \in Approvals, NEW p \in Actors, NEW role \in RequiredRoles,
         NEW decision \in Decisions, NEW aggregate \in ApprovalStatus,
         Decide(a, p, role, decision, aggregate)
  PROVE  /\ approvals' \in [Approvals -> Approval]
         /\ UNCHANGED <<roleRuns, artifacts, grants, outbox>>
<1>1. [authority |-> p, role |-> role, decision |-> decision] \in Decision
  BY RoleAssumption DEF Decision
<1>2. approvals[a] \in Approval
  BY DEF TypeOK
<1>3. approvals[a].decisions \in SUBSET Decision
  BY <1>2 DEF Approval
<1>4. Decided(a, p, role, decision) \in SUBSET Decision
  BY <1>1, <1>3 DEF Decided
<1>5. [approvals[a] EXCEPT !.status = aggregate,
                           !.decisions = Decided(a, p, role, decision)] \in Approval
  BY <1>2, <1>4 DEF Approval
<1> QED BY <1>5 DEF Decide, TypeOK

(* Every branch of an Approval decision keeps the types.                    *)
LEMMA TypeOfDecision ==
  TypeOK /\ RecordApprovalDecision => TypeOK'
<1> SUFFICES ASSUME TypeOK, NEW a \in Approvals, NEW p \in Actors,
                    NEW role \in RequiredRoles, NEW decision \in Decisions,
                    ApprovalDecision(a, p, role, decision)
             PROVE  TypeOK'
  BY DEF RecordApprovalDecision
<1>1. CASE DecideInPart(a, p, role, decision)
  BY <1>1, DecidedRows DEF DecideInPart, ApprovalStatus, TypeOK
<1>2. CASE ApproveTrd(a, p, role, decision)
  <2>1. TaskMoved("planning", Nil, Nil) \in Task
    BY TaskRows DEF TaskStatus
  <2>2. approvals' \in [Approvals -> Approval] /\ UNCHANGED <<roleRuns, artifacts, grants, outbox>>
    BY <1>2, DecidedRows DEF ApproveTrd, ApprovalStatus, Affirmative
  <2> QED BY <1>2, <2>1, <2>2 DEF ApproveTrd, TypeOK
<1>3. ASSUME NEW back \in ReturnStatus, RequestTrdChanges(a, p, role, decision, back)
      PROVE  TypeOK'
  <2>1. TaskMoved(back, Nil, Nil) \in Task
    BY TaskRows DEF TaskStatus, ReturnStatus
  <2>2. approvals' \in [Approvals -> Approval] /\ UNCHANGED <<roleRuns, artifacts, grants, outbox>>
    BY <1>3, DecidedRows DEF RequestTrdChanges, ApprovalStatus
  <2> QED BY <1>3, <2>1, <2>2 DEF RequestTrdChanges, TypeOK
<1>4. CASE RejectTrd(a, p, role, decision)
  <2>1. TaskBlocked("drafting_trd", Nil, Nil) \in Task
    BY TaskRows DEF ResumeStatus, TaskStatus
  <2>2. approvals' \in [Approvals -> Approval] /\ UNCHANGED <<roleRuns, artifacts, grants, outbox>>
    BY <1>4, DecidedRows DEF RejectTrd, ApprovalStatus
  <2> QED BY <1>4, <2>1, <2>2 DEF RejectTrd, TypeOK
<1>5. ASSUME NEW r \in Runs, AuthorizeRun(a, r, p, role, decision)
      PROVE  TypeOK'
  <2>1. TaskMoved("executing", Nil, Nil) \in Task /\ RunMoved(r, "authorized") \in Run
    BY TaskRows, RunRows DEF TaskStatus, RunStatus
  <2>2. approvals' \in [Approvals -> Approval] /\ UNCHANGED <<roleRuns, artifacts, grants, outbox>>
    BY <1>5, DecidedRows DEF AuthorizeRun, ApprovalStatus
  <2> QED BY <1>5, <2>1, <2>2 DEF AuthorizeRun, TypeOK
<1>6. ASSUME NEW r \in Runs, RequestRunChanges(a, r, p, role, decision)
      PROVE  TypeOK'
  <2>1. RunSettled(r, "rejected") \in Run
    BY RunRows DEF RunOutcome
  <2>2. approvals' \in [Approvals -> Approval] /\ UNCHANGED <<roleRuns, artifacts, grants, outbox>>
    BY <1>6, DecidedRows DEF RequestRunChanges, ApprovalStatus
  <2> QED BY <1>6, <2>1, <2>2 DEF RequestRunChanges, TypeOK
<1>7. ASSUME NEW r \in Runs, RejectRun(a, r, p, role, decision)
      PROVE  TypeOK'
  <2>1. TaskBlocked("planning", Nil, Nil) \in Task /\ RunSettled(r, "rejected") \in Run
    BY TaskRows, RunRows DEF ResumeStatus, TaskStatus, RunOutcome
  <2>2. approvals' \in [Approvals -> Approval] /\ UNCHANGED <<roleRuns, artifacts, grants, outbox>>
    BY <1>7, DecidedRows DEF RejectRun, ApprovalStatus
  <2> QED BY <1>7, <2>1, <2>2 DEF RejectRun, TypeOK
<1> QED BY <1>1, <1>2, <1>3, <1>4, <1>5, <1>6, <1>7 DEF ApprovalDecision

(* Sealing, rejecting, and starting a Run and its RoleRuns keep the types.  *)
LEMMA TypeOfRunCommand ==
  TypeOK /\ RunCommand => TypeOK'
<1>1. ASSUME TypeOK, NEW r \in Runs, NEW a \in Approvals, NEW p \in Actors,
             NEW d \in DeadlineChoices, NEW b \in SUBSET Approvals,
             SealRunManifest(r, a, b, p, d)
      PROVE  TypeOK'
  <2>1. approvals' \in [Approvals -> Approval] /\ outbox' \in SUBSET Event
    BY <1>1, InsertedApprovals DEF SealRunManifest, Gates
  <2>2. [status |-> "awaiting_authorization", outcome |-> "none",
         pending |-> "none", resume |-> "none", authorization |-> a,
         prerequisites |-> b, context |-> task.context, trd |-> task.trd] \in Run
    BY <1>1 DEF TypeOK, Task, Run, RunStatus
  <2> QED BY <1>1, <2>1, <2>2 DEF SealRunManifest, TypeOK
<1>2. ASSUME TypeOK, NEW x \in RoleRuns, NEW r \in Runs, NEW role \in RuntimeRoles,
             NEW inputs \in SUBSET Artifacts, PrepareRoleRun(x, r, role, inputs)
      PROVE  TypeOK'
  <2>1. [NoRoleRun EXCEPT !.status = "prepared", !.run = r, !.role = role,
                          !.inputs = inputs] \in RoleRun
    BY <1>2 DEF NoRoleRun, RoleRun, RoleRunStatus
  <2> QED BY <1>2, <2>1 DEF PrepareRoleRun, TypeOK
<1>3. \A role \in RuntimeRoles : InputChoices(role) \subseteq SUBSET Artifacts
  BY DEF InputChoices, Registered
<1>4. {c \in Approvals : IsEffective(c)} \subseteq Approvals
  OBVIOUS
<1> QED BY <1>1, <1>2, <1>3, <1>4 DEF RunCommand

(* A lease the worker holds is on a RoleRun of a known Run, if of any.       *)
LEMMA GrantRows ==
  ASSUME TypeOK, NEW g \in grants
  PROVE  /\ g.roleRun \in RoleRuns /\ g.token \in Nat
         /\ roleRuns[g.roleRun] \in RoleRun
         /\ roleRuns[g.roleRun].run \in Runs \cup {Nil}
         /\ roleRuns[g.roleRun].inputs \in SUBSET Artifacts
BY DEF TypeOK, Grant, RoleRun

(* What every verification result writes, whatever its verdict, is well     *)
(* typed.                                                                   *)
LEMMA VerificationRows ==
  ASSUME TypeOK, NEW g \in grants, NEW e \in Artifacts, NEW v \in Artifacts,
         NEW verdict \in Verdicts, SubmitVerificationResult(g, e, v, verdict)
  PROVE  /\ roleRuns' \in [RoleRuns -> RoleRun]
         /\ artifacts' \in [Artifacts -> Artifact]
         /\ UNCHANGED <<approvals, grants, outbox>>
<1>1. g.roleRun \in RoleRuns /\ roleRuns[g.roleRun].run \in Runs \cup {Nil}
  BY GrantRows
<1>2. VerificationResult(roleRuns[g.roleRun].run, e, verdict) \in Artifact
  BY <1>1, ResultRows
<1>3. artifacts' \in [Artifacts -> Artifact]
  BY <1>2, InsertedArtifacts DEF SubmitVerificationResult
<1>4. RoleRunReleased(g.roleRun, "settled", "succeeded", v) \in RoleRun
  BY <1>1, RoleRunRows DEF RoleRunStatus
<1> QED BY <1>3, <1>4 DEF SubmitVerificationResult, TypeOK

(* Every verdict of a verification keeps the types.                         *)
LEMMA TypeOfVerification ==
  ASSUME TypeOK, NEW g \in grants, NEW e \in Artifacts, NEW v \in Artifacts,
         SubmitVerification(g, e, v)
  PROVE  TypeOK'
<1> DEFINE r == roleRuns[g.roleRun].run
<1>1. r \in Runs \cup {Nil}
  BY GrantRows
<1>2. CASE SubmitPass(g, e, v)
  <2>1. TaskMoved("awaiting_acceptance", e, v) \in Task
    BY TaskRows DEF TaskStatus
  <2> QED BY <1>2, <2>1, VerificationRows DEF SubmitPass, Verdicts, TypeOK
<1>3. CASE SubmitImplementationFailure(g, e, v)
  <2>1. TaskMoved("executing", e, v) \in Task
    BY TaskRows DEF TaskStatus
  <2> QED BY <1>3, <2>1, VerificationRows DEF SubmitImplementationFailure, Verdicts, TypeOK
<1>4. CASE SubmitBlocked(g, e, v)
  <2>1. TaskBlocked("verifying", e, v) \in Task
    BY TaskRows DEF ResumeStatus, TaskStatus
  <2>2. r \in Runs => RunBlocked(r) \in Run
    BY RunRows
  <2>3. runs' \in [Runs -> Run]
    BY <1>4, <2>2 DEF SubmitBlocked, TypeOK
  <2> QED BY <1>4, <2>1, <2>3, VerificationRows DEF SubmitBlocked, Verdicts, TypeOK
<1>5. ASSUME NEW f \in UpstreamFindings, SubmitUpstreamFailure(g, e, v, f)
      PROVE  TypeOK'
  <2>1. UpstreamForFinding(f) \in ResumeStatus
    BY DEF UpstreamFindings, UpstreamForFinding, ResumeStatus, TaskStatus
  <2>2. TaskBlocked(UpstreamForFinding(f), e, v) \in Task
    BY <2>1, TaskRows
  <2>3. r \in Runs => RunStopping(r, "superseded") \in Run
    BY RunRows
  <2>4. runs' \in [Runs -> Run]
    BY <1>5, <2>3 DEF SubmitUpstreamFailure, TypeOK
  <2> QED BY <1>5, <2>2, <2>4, VerificationRows DEF SubmitUpstreamFailure, Verdicts, TypeOK
<1> QED BY <1>2, <1>3, <1>4, <1>5 DEF SubmitVerification

(* Every command a worker sends under its lease keeps the types.            *)
LEMMA TypeOfWorker ==
  TypeOK /\ WorkerCommand => TypeOK'
<1>1. ASSUME TypeOK, NEW x \in RoleRuns, NEW w \in Workers, AcquireRoleRunLease(x, w)
      PROVE  TypeOK'
  <2> DEFINE r == roleRuns[x].run
             n == roleRuns[x].token + 1
  <2>1. roleRuns[x] \in RoleRun /\ n \in Nat
    BY <1>1 DEF TypeOK, RoleRun
  <2>2. [roleRuns[x] EXCEPT !.status = "starting", !.lease = "live",
                            !.owner = w, !.token = n] \in RoleRun
    BY <2>1 DEF RoleRun, RoleRunStatus
  <2>3. roleRuns' \in [RoleRuns -> RoleRun]
    BY <1>1, <2>2 DEF AcquireRoleRunLease, TypeOK
  <2>4. r \in Runs => RunMoved(r, "active") \in Run
    BY <1>1, RunRows DEF RunStatus
  <2>5. runs' \in [Runs -> Run]
    BY <1>1, <2>4 DEF AcquireRoleRunLease, TypeOK
  <2>6. [roleRun |-> x, worker |-> w, token |-> n] \in Grant
    BY <2>1 DEF Grant
  <2>7. grants' \in SUBSET Grant
    BY <1>1, <2>6 DEF AcquireRoleRunLease, TypeOK
  <2> QED BY <1>1, <2>3, <2>5, <2>7 DEF AcquireRoleRunLease, TypeOK
<1>2. ASSUME TypeOK, NEW g \in grants, MarkRoleRunRunning(g)
      PROVE  TypeOK'
  <2>1. g.roleRun \in RoleRuns /\ g.token \in Nat /\ roleRuns[g.roleRun] \in RoleRun
    BY <1>2, GrantRows
  <2>2. [roleRuns[g.roleRun] EXCEPT !.status = "running", !.session = g.token] \in RoleRun
    BY <2>1 DEF RoleRun, RoleRunStatus
  <2> QED BY <1>2, <2>2 DEF MarkRoleRunRunning, TypeOK
<1>3. ASSUME TypeOK, NEW g \in grants, NEW runtime \in {"completed", "unsuccessful"},
             MarkRoleRunSettling(g, runtime)
      PROVE  TypeOK'
  <2>1. g.roleRun \in RoleRuns /\ roleRuns[g.roleRun] \in RoleRun
    BY <1>3, GrantRows
  <2>2. [roleRuns[g.roleRun] EXCEPT !.status = "settling", !.runtime = runtime] \in RoleRun
    BY <2>1 DEF RoleRun, RoleRunStatus
  <2> QED BY <1>3, <2>2 DEF MarkRoleRunSettling, TypeOK
<1>4. ASSUME TypeOK, NEW g \in grants, SettleRoleRun(g)
      PROVE  TypeOK'
  <2>1. g.roleRun \in RoleRuns
    BY <1>4, GrantRows
  <2>2. RoleRunReleased(g.roleRun, "settled", "unsuccessful", Nil) \in RoleRun
    BY <1>4, <2>1, RoleRunRows DEF RoleRunStatus
  <2> QED BY <1>4, <2>2 DEF SettleRoleRun, TypeOK
<1>5. ASSUME TypeOK, NEW g \in grants, BlockRoleRun(g)
      PROVE  TypeOK'
  <2> DEFINE r == roleRuns[g.roleRun].run
  <2>1. g.roleRun \in RoleRuns
    BY <1>5, GrantRows
  <2>2. RoleRunReleased(g.roleRun, "blocked", "none", Nil) \in RoleRun
    BY <1>5, <2>1, RoleRunRows DEF RoleRunStatus
  <2>3. r \in Runs => RunBlocked(r) \in Run
    BY <1>5, RunRows
  <2>4. task.status \in ResumeStatus
    BY <1>5 DEF BlockRoleRun, ResumeStatus, TaskStatus
  <2>5. TaskBlocked(task.status, Nil, Nil) \in Task
    BY <1>5, <2>4, TaskRows
  <2> QED BY <1>5, <2>2, <2>3, <2>5 DEF BlockRoleRun, TypeOK
<1>6. ASSUME TypeOK, NEW g \in grants, NEW e \in Artifacts,
             SubmitExecutionForVerification(g, e)
      PROVE  TypeOK'
  <2>1. g.roleRun \in RoleRuns /\ roleRuns[g.roleRun].run \in Runs \cup {Nil}
    BY <1>6, GrantRows
  <2>2. RoleRunReleased(g.roleRun, "settled", "succeeded", e) \in RoleRun
    BY <1>6, <2>1, RoleRunRows DEF RoleRunStatus
  <2>3. ExecutionResult(roleRuns[g.roleRun].run) \in Artifact
    BY <2>1 DEF ExecutionResult, Artifact
  <2>4. artifacts' \in [Artifacts -> Artifact]
    BY <1>6, <2>3, InsertedArtifacts DEF SubmitExecutionForVerification
  <2>5. TaskMoved("verifying", e, Nil) \in Task
    BY <1>6, TaskRows DEF TaskStatus
  <2> QED BY <1>6, <2>2, <2>4, <2>5 DEF SubmitExecutionForVerification, TypeOK
<1> QED BY <1>1, <1>2, <1>3, <1>4, <1>5, <1>6, TypeOfVerification DEF WorkerCommand

(* Every acceptance decision keeps the types.                               *)
LEMMA TypeOfAcceptance ==
  TypeOK /\ AcceptanceCommand => TypeOK'
<1> SUFFICES ASSUME TypeOK, NEW r \in Runs, NEW e \in Artifacts, NEW v \in Artifacts,
                    \/ ReworkImplementation(r, e, v)
                    \/ ReworkUnclassified(r, e, v)
                    \/ \E f \in UpstreamFindings : ReworkUpstream(r, e, v, f)
                    \/ AcceptDelivery(r, e, v)
             PROVE  TypeOK'
  BY DEF AcceptanceCommand
<1>1. CASE ReworkImplementation(r, e, v)
  <2>1. TaskMoved("executing", e, v) \in Task
    BY TaskRows DEF TaskStatus
  <2> QED BY <1>1, <2>1 DEF ReworkImplementation, TypeOK
<1>2. CASE ReworkUnclassified(r, e, v)
  <2>1. TaskBlocked("awaiting_acceptance", Nil, Nil) \in Task
    BY TaskRows DEF ResumeStatus, TaskStatus
  <2>2. RunBlocked(r) \in Run
    BY RunRows
  <2> QED BY <1>2, <2>1, <2>2 DEF ReworkUnclassified, TypeOK
<1>3. ASSUME NEW f \in UpstreamFindings, ReworkUpstream(r, e, v, f)
      PROVE  TypeOK'
  <2>1. UpstreamForFinding(f) \in ResumeStatus
    BY DEF UpstreamFindings, UpstreamForFinding, ResumeStatus, TaskStatus
  <2>2. TaskBlocked(UpstreamForFinding(f), Nil, Nil) \in Task
    BY <2>1, TaskRows
  <2>3. RunStopping(r, "superseded") \in Run
    BY RunRows
  <2> QED BY <1>3, <2>2, <2>3 DEF ReworkUpstream, TypeOK
<1>4. CASE AcceptDelivery(r, e, v)
  <2>1. TaskClosed("completed", e, v) \in Task
    BY TaskRows
  <2>2. RunSettled(r, "completed") \in Run
    BY RunRows DEF RunOutcome
  <2>3. outbox' \in SUBSET Event
    BY <1>4, AnnouncedEvents DEF AcceptDelivery, EventTypes
  <2> QED BY <1>4, <2>1, <2>2, <2>3 DEF AcceptDelivery, TypeOK
<1> QED BY <1>1, <1>2, <1>3, <1>4

(* A blocked Task always records where it resumes, so what cancellation      *)
(* keeps of it is a state to resume.                                         *)
LEMMA TypeOfStop ==
  TypeOK /\ SchemaChecks /\ StopCommand => TypeOK'
<1> SUFFICES ASSUME TypeOK, SchemaChecks, StopCommand PROVE TypeOK'
  OBVIOUS
<1>0. TaskClosed("cancelled", Nil, Nil) \in Task
  BY TaskRows
<1>1. CASE CancelWithoutRun
  BY <1>0, <1>1 DEF CancelWithoutRun, TypeOK
<1>2. ASSUME NEW r \in Runs, CancelIdleRun(r)
      PROVE  TypeOK'
  <2> DEFINE a == runs[r].authorization
  <2>1. RunSettled(r, "cancelled") \in Run
    BY RunRows DEF RunOutcome
  <2>2. a \in Approvals => [approvals[a] EXCEPT !.status = "withdrawn"] \in Approval
    BY DEF TypeOK, Approval, ApprovalStatus
  <2>3. approvals' \in [Approvals -> Approval]
    BY <1>2, <2>2 DEF CancelIdleRun, TypeOK
  <2> QED BY <1>0, <1>2, <2>1, <2>3 DEF CancelIdleRun, TypeOK
<1>3. ASSUME NEW r \in Runs, CancelBusyRun(r)
      PROVE  TypeOK'
  <2>1. CancelledFrom \in ResumeStatus
    BY <1>3 DEF CancelBusyRun, CancelledFrom, SchemaChecks, ResumeStatus, TypeOK, Task
  <2>2. TaskBlocked(CancelledFrom, Nil, Nil) \in Task
    BY <2>1, TaskRows
  <2>3. RunStopping(r, "cancelled") \in Run
    BY RunRows
  <2> QED BY <1>3, <2>2, <2>3 DEF CancelBusyRun, TypeOK
<1>4. ASSUME NEW r \in Runs, FinishCancelledStop(r)
      PROVE  TypeOK'
  <2>1. RunSettled(r, "cancelled") \in Run
    BY RunRows DEF RunOutcome
  <2> QED BY <1>0, <1>4, <2>1 DEF FinishCancelledStop, StopSettles, TypeOK
<1>5. ASSUME NEW r \in Runs, NEW u \in ReturnStatus \cup {"planning"},
             FinishSupersededStop(r, u)
      PROVE  TypeOK'
  <2>1. RunSettled(r, "superseded") \in Run
    BY RunRows DEF RunOutcome
  <2>2. TaskMoved(u, Nil, Nil) \in Task
    BY TaskRows DEF ReturnStatus, TaskStatus
  <2> QED BY <1>5, <2>1, <2>2 DEF FinishSupersededStop, StopSettles, TypeOK
<1> QED BY <1>1, <1>2, <1>3, <1>4, <1>5 DEF StopCommand

(* Expiry, withdrawal and revocation of an Approval keep the types.         *)
LEMMA TypeOfInvalidation ==
  TypeOK /\ InvalidateApproval => TypeOK'
<1> SUFFICES ASSUME TypeOK, NEW a \in Approvals, NEW action \in Invalidations,
                    Invalidate(a, action),
                    \/ InvalidateAfterClose(a, action)
                    \/ InvalidateWithoutRun(a, action)
                    \/ \E r \in Runs : \/ InvalidateBeforeRun(a, action, r)
                                       \/ InvalidateDuringRun(a, action, r)
             PROVE  TypeOK'
  BY DEF InvalidateApproval, InvalidateAfterClose, InvalidateWithoutRun,
         InvalidateBeforeRun, InvalidateDuringRun
<1>1. approvals' \in [Approvals -> Approval] /\ UNCHANGED <<roleRuns, artifacts, grants>>
  <2>1. [approvals[a] EXCEPT !.status = action] \in Approval
    BY DEF TypeOK, Approval, ApprovalStatus, Invalidations
  <2> QED BY <2>1 DEF Invalidate, TypeOK
<1>2. ResumeForGate(approvals[a].gate) \in ResumeStatus
  BY DEF ResumeForGate, ResumeStatus, TaskStatus
<1>3. /\ TaskBlocked(ResumeForGate(approvals[a].gate), Nil, Nil) \in Task
      /\ TaskMoved("drafting_trd", Nil, Nil) \in Task
  BY <1>2, TaskRows DEF TaskStatus
<1>4. CASE InvalidateAfterClose(a, action)
  BY <1>1, <1>4, AnnouncedEvents DEF InvalidateAfterClose, EventTypes, TypeOK
<1>5. CASE InvalidateWithoutRun(a, action)
  BY <1>1, <1>3, <1>5 DEF InvalidateWithoutRun, TypeOK
<1>6. ASSUME NEW r \in Runs, InvalidateBeforeRun(a, action, r)
      PROVE  TypeOK'
  <2>1. RunSettled(r, "rejected") \in Run
    BY RunRows DEF RunOutcome
  <2> QED BY <1>1, <1>6, <2>1 DEF InvalidateBeforeRun, TypeOK
<1>7. ASSUME NEW r \in Runs, InvalidateDuringRun(a, action, r)
      PROVE  TypeOK'
  <2>1. RunStopping(r, "superseded") \in Run
    BY RunRows
  <2> QED BY <1>1, <1>3, <1>7, <2>1 DEF InvalidateDuringRun, TypeOK
<1> QED BY <1>4, <1>5, <1>6, <1>7

(* What becomes of another Task's Approval leaves this Task's rows alone.    *)
LEMMA OtherTaskLeaves ==
  OtherTask => UNCHANGED <<task, runs, roleRuns, artifacts, grants>>
BY DEF OtherTask, RequestElsewhere, DecideElsewhere, Decide, InvalidateElsewhere, Invalidate

(* It keeps the types, too.                                                 *)
LEMMA TypeOfOtherTask ==
  TypeOK /\ OtherTask => TypeOK'
<1> SUFFICES ASSUME TypeOK, NEW a \in OtherApprovals,
                    \/ \E t \in Trds, p \in Actors, d \in DeadlineChoices :
                         RequestElsewhere(a, t, p, d)
                    \/ \E p \in Actors, role \in RequiredRoles, decision \in Decisions :
                         DecideElsewhere(a, p, role, decision)
                    \/ \E action \in Invalidations : InvalidateElsewhere(a, action),
                    UNCHANGED <<task, runs, roleRuns, artifacts, grants>>
             PROVE  approvals' \in [Approvals -> Approval] /\ outbox' \in SUBSET Event
  BY OtherTaskLeaves DEF OtherTask, TypeOK
<1>1. a \in Approvals
  BY OwnerAssumption
<1>2. ASSUME NEW t \in Trds, NEW p \in Actors, NEW d \in DeadlineChoices,
             RequestElsewhere(a, t, p, d)
      PROVE  approvals' \in [Approvals -> Approval] /\ outbox' \in SUBSET Event
  BY <1>1, <1>2, InsertedApprovals DEF RequestElsewhere, Gates
<1>3. ASSUME NEW p \in Actors, NEW role \in RequiredRoles, NEW decision \in Decisions,
             DecideElsewhere(a, p, role, decision)
      PROVE  approvals' \in [Approvals -> Approval] /\ outbox' \in SUBSET Event
  BY <1>1, <1>3, DecidedRows DEF DecideElsewhere, TypeOK
<1>4. ASSUME NEW action \in Invalidations, InvalidateElsewhere(a, action)
      PROVE  approvals' \in [Approvals -> Approval] /\ outbox' \in SUBSET Event
  <2>1. [approvals[a] EXCEPT !.status = action] \in Approval
    BY <1>1 DEF TypeOK, Approval, ApprovalStatus, Invalidations
  <2>2. approvals' \in [Approvals -> Approval]
    BY <1>1, <1>4, <2>1 DEF InvalidateElsewhere, Invalidate, TypeOK
  <2>3. outbox' \in SUBSET Event
    BY <1>1, <1>4, AnnouncedEvents DEF InvalidateElsewhere, EventTypes, TypeOK
  <2> QED BY <2>2, <2>3
<1> QED BY <1>2, <1>3, <1>4

(* Registered Artifacts, delivered events, passing time and other Tasks'     *)
(* commands keep the types.                                                 *)
LEMMA TypeOfEnvironment ==
  TypeOK /\ Environment => TypeOK'
<1> SUFFICES ASSUME TypeOK, Environment PROVE TypeOK'
  OBVIOUS
<1>1. ASSUME NEW e \in Artifacts, NEW content \in ResultContents,
             RegisterArtifact(e, content)
      PROVE  TypeOK'
  <2>1. content \in Artifact
    BY ResultRows DEF ResultContents, ExecutionResult, VerificationResult, Artifact
  <2>2. artifacts' \in [Artifacts -> Artifact]
    BY <1>1, <2>1, InsertedArtifacts DEF RegisterArtifact
  <2> QED BY <1>1, <2>2 DEF RegisterArtifact, TypeOK
<1>2. ASSUME NEW event \in outbox, MarkOutboxDelivered(event)
      PROVE  TypeOK'
  <2>1. event \in Event
    BY DEF TypeOK
  <2>2. [event EXCEPT !.delivered = TRUE] \in Event
    BY <2>1 DEF Event
  <2> QED BY <1>2, <2>2 DEF MarkOutboxDelivered, TypeOK
<1>3. ASSUME NEW x \in RoleRuns, LeaseExpires(x)
      PROVE  TypeOK'
  <2>1. [roleRuns[x] EXCEPT !.lease = "expired"] \in RoleRun
    BY DEF TypeOK, RoleRun
  <2> QED BY <1>3, <2>1 DEF LeaseExpires, TypeOK
<1>4. ASSUME NEW a \in Approvals, DeadlinePasses(a)
      PROVE  TypeOK'
  <2>1. [approvals[a] EXCEPT !.deadline = "passed"] \in Approval
    BY DEF TypeOK, Approval
  <2> QED BY <1>4, <2>1 DEF DeadlinePasses, TypeOK
<1> QED BY <1>1, <1>2, <1>3, <1>4, TypeOfOtherTask DEF Environment

-----------------------------------------------------------------------------
(* The fields of the rows the writers return. *)

(* What those rows keep and what they set.                                   *)
LEMMA TaskFields ==
  ASSUME TypeOK, NEW e, NEW v
  PROVE  /\ \A s : /\ TaskMoved(s, e, v).status = s
                  /\ TaskMoved(s, e, v).resume = "none"
                  /\ TaskMoved(s, e, v).outcome = task.outcome
                  /\ TaskMoved(s, e, v).context = task.context
                  /\ TaskMoved(s, e, v).trd = task.trd
         /\ \A s : /\ TaskBlocked(s, e, v).status = "blocked"
                  /\ TaskBlocked(s, e, v).resume = s
                  /\ TaskBlocked(s, e, v).outcome = task.outcome
                  /\ TaskBlocked(s, e, v).context = task.context
                  /\ TaskBlocked(s, e, v).trd = task.trd
         /\ \A o : /\ TaskClosed(o, e, v).status = "closed"
                  /\ TaskClosed(o, e, v).resume = "none"
                  /\ TaskClosed(o, e, v).outcome = o
<1>1. task \in Task
  BY DEF TypeOK
<1> QED BY <1>1 DEF TaskMoved, TaskBlocked, TaskClosed, Task

(* Which fields each way of writing a Run sets.                             *)
LEMMA RunFields ==
  ASSUME TypeOK, NEW r \in Runs
  PROVE  /\ \A s : /\ RunMoved(r, s).status = s
                  /\ RunMoved(r, s).outcome = runs[r].outcome
                  /\ RunMoved(r, s).pending = "none" /\ RunMoved(r, s).resume = "none"
         /\ \A p : /\ RunStopping(r, p).status = "stopping"
                  /\ RunStopping(r, p).outcome = runs[r].outcome
                  /\ RunStopping(r, p).pending = p /\ RunStopping(r, p).resume = "none"
         /\ /\ RunBlocked(r).status = "blocked"
            /\ RunBlocked(r).outcome = runs[r].outcome
            /\ RunBlocked(r).pending = "none" /\ RunBlocked(r).resume = "active"
         /\ \A o : /\ RunSettled(r, o).status = "settled"
                  /\ RunSettled(r, o).outcome = o
                  /\ RunSettled(r, o).pending = "none" /\ RunSettled(r, o).resume = "none"
<1>1. runs[r] \in Run
  BY DEF TypeOK
<1> QED BY <1>1 DEF RunMoved, RunStopping, RunBlocked, RunSettled, Run

(* Which fields the release of a RoleRun sets.                              *)
LEMMA RoleRunFields ==
  ASSUME TypeOK, NEW x \in RoleRuns, NEW s, NEW o, NEW e
  PROVE  /\ RoleRunReleased(x, s, o, e).status = s
         /\ RoleRunReleased(x, s, o, e).outcome = o
         /\ RoleRunReleased(x, s, o, e).run = roleRuns[x].run
         /\ RoleRunReleased(x, s, o, e).role = roleRuns[x].role
         /\ RoleRunReleased(x, s, o, e).lease = "none"
         /\ RoleRunReleased(x, s, o, e).owner = Nil
         /\ RoleRunReleased(x, s, o, e).token = roleRuns[x].token
         /\ RoleRunReleased(x, s, o, e).session = roleRuns[x].session
<1>1. roleRuns[x] \in RoleRun
  BY DEF TypeOK
<1> QED BY <1>1 DEF RoleRunReleased, RoleRun

-----------------------------------------------------------------------------
(* The constraints of the schema, in three parts.  They are proved with the  *)
(* types: what a cancellation writes into a blocked Task is well typed only  *)
(* because a blocked Task always records where it resumes.                   *)

TaskChecks ==
  /\ task.status = "closed" <=> task.outcome # "none"
  /\ task.status = "blocked" <=> task.resume # "none"

RunChecks ==
  \A r \in Runs :
    /\ runs[r].status = "settled" <=> runs[r].outcome # "none"
    /\ runs[r].status = "stopping" <=> runs[r].pending # "none"
    /\ runs[r].status = "blocked" <=> runs[r].resume # "none"

RoleRunChecks ==
  \A x \in RoleRuns :
    /\ roleRuns[x].status = "settled" <=> roleRuns[x].outcome # "none"
    /\ roleRuns[x].lease = "none" <=> roleRuns[x].owner = Nil

(* SchemaChecks is the checks of the three tables, before and after a step. *)
LEMMA SchemaParts ==
  /\ SchemaChecks <=> TaskChecks /\ RunChecks /\ RoleRunChecks
  /\ SchemaChecks' <=> TaskChecks' /\ RunChecks' /\ RoleRunChecks'
BY DEF SchemaChecks, TaskChecks, RunChecks, RoleRunChecks

(* How a command writes the Task: it moves, blocks or closes one that is not  *)
(* closed.                                                                    *)
TaskWritten ==
  /\ task.status # "closed"
  /\ \/ /\ task'.status \notin {"blocked", "closed"} /\ task'.resume = "none"
        /\ task'.outcome = task.outcome
     \/ /\ task'.status = "blocked" /\ task'.resume # "none"
        /\ task'.outcome = task.outcome
     \/ /\ task'.status = "closed" /\ task'.resume = "none" /\ task'.outcome # "none"

(* Every command that touches the Task writes it in one of the ways above.  *)
LEMMA TaskIsWritten ==
  ASSUME TypeOK, TaskChecks, Next
  PROVE  UNCHANGED task \/ TaskWritten
<1>1. ASSUME DesignCommand PROVE TaskWritten
  <2>1. CASE StartContextualization
    BY <2>1, TaskFields DEF StartContextualization, TaskWritten
  <2>2. ASSUME NEW c \in Contexts, CompleteContextualization(c) PROVE TaskWritten
    BY <2>2 DEF CompleteContextualization, TaskMoved, TaskWritten, TypeOK, Task
  <2>3. ASSUME NEW t \in Trds, NEW a \in Approvals, NEW p \in Actors,
               NEW d \in DeadlineChoices, SubmitTrdForApproval(t, a, p, d)
        PROVE  TaskWritten
    BY <2>3 DEF SubmitTrdForApproval, TaskMoved, TaskWritten, TypeOK, Task
  <2> QED BY <1>1, <2>1, <2>2, <2>3 DEF DesignCommand
<1>2. ASSUME RecordApprovalDecision PROVE UNCHANGED task \/ TaskWritten
  BY <1>2, TaskFields DEF RecordApprovalDecision, ApprovalDecision, DecideInPart, ApproveTrd,
     RequestTrdChanges, RejectTrd, AuthorizeRun, RequestRunChanges, RejectRun,
     AwaitsAuthorization, ReturnStatus, TaskWritten
<1>3. ASSUME RunCommand PROVE UNCHANGED task
  BY <1>3 DEF RunCommand, SealRunManifest, PrepareRoleRun
<1>4. ASSUME NEW f \in UpstreamFindings
      PROVE  UpstreamForFinding(f) # "none"
  BY DEF UpstreamFindings, UpstreamForFinding
<1>5. ASSUME WorkerCommand PROVE UNCHANGED task \/ TaskWritten
  <2>1. ASSUME NEW g \in grants, BlockRoleRun(g) PROVE TaskWritten
    BY <2>1, TaskFields DEF BlockRoleRun, TaskWritten
  <2>2. ASSUME NEW g \in grants, NEW e \in Artifacts, SubmitExecutionForVerification(g, e)
        PROVE  TaskWritten
    BY <2>2, TaskFields DEF SubmitExecutionForVerification, TaskWritten
  <2>3. ASSUME NEW g \in grants, NEW e \in Artifacts, NEW v \in Artifacts,
               SubmitVerification(g, e, v)
        PROVE  TaskWritten
    <3>1. task.status = "verifying"
      BY <2>3 DEF SubmitVerification, SubmitVerificationResult, SubmitPass,
         SubmitImplementationFailure, SubmitBlocked, SubmitUpstreamFailure
    <3>2. CASE SubmitPass(g, e, v) \/ SubmitImplementationFailure(g, e, v) \/ SubmitBlocked(g, e, v)
      BY <3>1, <3>2, TaskFields DEF SubmitPass, SubmitImplementationFailure, SubmitBlocked, TaskWritten
    <3>3. ASSUME NEW f \in UpstreamFindings, SubmitUpstreamFailure(g, e, v, f)
          PROVE  TaskWritten
      BY <1>4, <3>1, <3>3, TaskFields DEF SubmitUpstreamFailure, TaskWritten
    <3> QED BY <2>3, <3>2, <3>3 DEF SubmitVerification
  <2> QED BY <1>5, <2>1, <2>2, <2>3 DEF WorkerCommand, AcquireRoleRunLease, MarkRoleRunRunning,
         MarkRoleRunSettling, SettleRoleRun
<1>6. ASSUME AcceptanceCommand PROVE TaskWritten
  BY <1>4, <1>6, TaskFields DEF AcceptanceCommand, AcceptableResults, ReworkImplementation,
     ReworkUnclassified, ReworkUpstream, AcceptDelivery, TaskWritten
<1>7. task.status = "blocked" => task.resume # "none"
  BY DEF TaskChecks
<1>8. ASSUME StopCommand PROVE TaskWritten
  <2>1. CancelledFrom # "none"
    BY <1>7 DEF CancelledFrom, TypeOK, Task, TaskStatus
  <2>2. CASE CancelWithoutRun
    BY <2>2, TaskFields DEF CancelWithoutRun, TaskWritten
  <2>3. ASSUME NEW r \in Runs, CancelIdleRun(r) \/ FinishCancelledStop(r) PROVE TaskWritten
    BY <2>3, TaskFields DEF CancelIdleRun, FinishCancelledStop, StopSettles, StopIsDone, TaskWritten
  <2>4. ASSUME NEW r \in Runs, CancelBusyRun(r) PROVE TaskWritten
    BY <2>1, <2>4, TaskFields DEF CancelBusyRun, TaskWritten
  <2>5. ASSUME NEW r \in Runs, NEW u \in ReturnStatus \cup {"planning"}, FinishSupersededStop(r, u)
        PROVE  TaskWritten
    BY <2>5, TaskFields DEF FinishSupersededStop, StopSettles, StopIsDone, ReturnStatus, TaskWritten
  <2> QED BY <1>8, <2>2, <2>3, <2>4, <2>5 DEF StopCommand
<1>9. ASSUME InvalidateApproval PROVE UNCHANGED task \/ TaskWritten
  BY <1>9, TaskFields DEF InvalidateApproval, InvalidateAfterClose, InvalidateBeforeRun,
     InvalidateDuringRun, InvalidateWithoutRun, ResumeForGate, TaskWritten
<1>10. ASSUME Environment PROVE UNCHANGED task
  BY <1>10, OtherTaskLeaves DEF Environment, RegisterArtifact, MarkOutboxDelivered, LeaseExpires, DeadlinePasses
<1> QED BY <1>1, <1>2, <1>3, <1>5, <1>6, <1>8, <1>9, <1>10 DEF Next

(* The CHECK constraints of the Task survive every step.                    *)
LEMMA TaskChecksKept ==
  ASSUME TypeOK, TaskChecks, [Next]_vars
  PROVE  TaskChecks'
<1>1. UNCHANGED task \/ TaskWritten
  BY TaskIsWritten DEF vars
<1>2. CASE UNCHANGED task
  BY <1>2 DEF TaskChecks
<1>3. CASE TaskWritten
  BY <1>3 DEF TaskWritten, TaskChecks
<1> QED BY <1>1, <1>2, <1>3

(* How a command writes a Run.                                                *)
RunWritten(r) ==
  /\ runs[r].status # "settled"
  /\ \/ /\ runs'[r].status \notin {"stopping", "blocked", "settled"}
        /\ runs'[r].pending = "none" /\ runs'[r].resume = "none"
        /\ runs'[r].outcome = "none"
     \/ /\ runs'[r].status = "stopping" /\ runs'[r].pending # "none"
        /\ runs'[r].resume = "none" /\ runs'[r].outcome = "none"
     \/ /\ runs'[r].status = "blocked" /\ runs'[r].resume # "none"
        /\ runs'[r].pending = "none" /\ runs'[r].outcome = "none"
     \/ /\ runs'[r].status = "settled" /\ runs'[r].outcome # "none"
        /\ runs'[r].pending = "none" /\ runs'[r].resume = "none"

(* Every command that touches a Run writes it in one of the ways above.     *)
LEMMA RunIsWritten ==
  ASSUME TypeOK, RunChecks, Next, NEW r \in Runs
  PROVE  UNCHANGED runs[r] \/ RunWritten(r)
<1>1. ASSUME NEW row, NEW q, runs' = [runs EXCEPT ![q] = row],
             runs[r].status # "settled" \/ q # r,
             q = r => \/ \E s \in {"awaiting_authorization", "authorized", "active"} : row = RunMoved(q, s)
                      \/ \E p \in {"cancelled", "superseded"} : row = RunStopping(q, p)
                      \/ row = RunBlocked(q)
                      \/ \E o \in RunOutcome : row = RunSettled(q, o)
      PROVE  UNCHANGED runs[r] \/ RunWritten(r)
  <2>1. CASE q # r
    BY <1>1, <2>1 DEF TypeOK
  <2>2. CASE q = r
    <3>1. runs'[r] = row /\ (runs[r].status # "settled" => runs[r].outcome = "none")
      BY <1>1, <2>2 DEF TypeOK, RunChecks
    <3> QED BY <1>1, <2>2, <3>1, RunFields DEF RunWritten, RunOutcome
  <2> QED BY <2>1, <2>2
<1> USE DEF RunOutcome
<1>2. ASSUME DesignCommand PROVE UNCHANGED runs
  BY <1>2 DEF DesignCommand, StartContextualization, CompleteContextualization, SubmitTrdForApproval
<1>3. ASSUME RecordApprovalDecision PROVE UNCHANGED runs[r] \/ RunWritten(r)
  <2>1. ASSUME NEW a \in Approvals, NEW p, NEW role, NEW decision, NEW q \in Runs,
               \/ AuthorizeRun(a, q, p, role, decision)
               \/ RequestRunChanges(a, q, p, role, decision)
               \/ RejectRun(a, q, p, role, decision)
        PROVE  UNCHANGED runs[r] \/ RunWritten(r)
    <3>1. runs[q].status = "awaiting_authorization"
      BY <2>1 DEF AuthorizeRun, RequestRunChanges, RejectRun, AwaitsAuthorization
    <3> QED BY <1>1, <2>1, <3>1 DEF AuthorizeRun, RequestRunChanges, RejectRun
  <2> QED BY <1>3, <2>1 DEF RecordApprovalDecision, ApprovalDecision, DecideInPart, ApproveTrd,
         RequestTrdChanges, RejectTrd
<1>4. ASSUME RunCommand PROVE UNCHANGED runs[r] \/ RunWritten(r)
  <2>1. ASSUME NEW q \in Runs, NEW a \in Approvals, NEW p \in Actors,
               NEW d \in DeadlineChoices, NEW b, SealRunManifest(q, a, b, p, d)
        PROVE  UNCHANGED runs[r] \/ RunWritten(r)
    BY <2>1 DEF SealRunManifest, RunWritten, TypeOK
  <2> QED BY <1>4, <2>1 DEF RunCommand, PrepareRoleRun
<1>5. ASSUME WorkerCommand PROVE UNCHANGED runs[r] \/ RunWritten(r)
  <2>1. ASSUME NEW x \in RoleRuns, NEW w \in Workers, AcquireRoleRunLease(x, w)
        PROVE  UNCHANGED runs[r] \/ RunWritten(r)
    BY <1>1, <2>1 DEF AcquireRoleRunLease, Leasable
  <2>2. ASSUME NEW g \in grants, BlockRoleRun(g)
        PROVE  UNCHANGED runs[r] \/ RunWritten(r)
    BY <1>1, <2>2 DEF BlockRoleRun
  <2>3. ASSUME NEW g \in grants, NEW e \in Artifacts, NEW v \in Artifacts, SubmitVerification(g, e, v)
        PROVE  UNCHANGED runs[r] \/ RunWritten(r)
    BY <1>1, <2>3 DEF SubmitVerification, SubmitVerificationResult, SubmitPass,
       SubmitImplementationFailure, SubmitBlocked, SubmitUpstreamFailure
  <2> QED BY <1>5, <2>1, <2>2, <2>3 DEF WorkerCommand, MarkRoleRunRunning, MarkRoleRunSettling,
         SettleRoleRun, SubmitExecutionForVerification
<1>6. ASSUME AcceptanceCommand PROVE UNCHANGED runs[r] \/ RunWritten(r)
  <2>1. ASSUME NEW q \in Runs, NEW e \in Artifacts, NEW v \in Artifacts,
               \/ ReworkUnclassified(q, e, v) \/ AcceptDelivery(q, e, v)
               \/ \E f \in UpstreamFindings : ReworkUpstream(q, e, v, f)
        PROVE  UNCHANGED runs[r] \/ RunWritten(r)
    <3>1. runs[q].status = "active"
      BY <2>1 DEF ReworkUnclassified, ReworkUpstream, AcceptDelivery, AcceptableResults
    <3> QED BY <1>1, <2>1, <3>1 DEF ReworkUnclassified, ReworkUpstream, AcceptDelivery
  <2> QED BY <1>6, <2>1 DEF AcceptanceCommand, ReworkImplementation
<1>7. ASSUME StopCommand PROVE UNCHANGED runs[r] \/ RunWritten(r)
  BY <1>1, <1>7 DEF StopCommand, CancelWithoutRun, CancelIdleRun, CancelBusyRun,
     FinishCancelledStop, FinishSupersededStop, StopSettles, StopIsDone, UnsettledRuns, Unsettled
<1>8. ASSUME InvalidateApproval PROVE UNCHANGED runs[r] \/ RunWritten(r)
  BY <1>1, <1>8 DEF InvalidateApproval, InvalidateAfterClose, InvalidateBeforeRun,
     InvalidateDuringRun, InvalidateWithoutRun, StoppedByInvalidation
<1>9. ASSUME Environment PROVE UNCHANGED runs
  BY <1>9, OtherTaskLeaves DEF Environment, RegisterArtifact, MarkOutboxDelivered, LeaseExpires, DeadlinePasses
<1> QED BY <1>2, <1>3, <1>4, <1>5, <1>6, <1>7, <1>8, <1>9 DEF Next

(* The CHECK constraints of the Runs survive every step.                    *)
LEMMA RunChecksKept ==
  ASSUME TypeOK, RunChecks, [Next]_vars
  PROVE  RunChecks'
<1> SUFFICES ASSUME NEW r \in Runs
             PROVE  /\ runs'[r].status = "settled" <=> runs'[r].outcome # "none"
                    /\ runs'[r].status = "stopping" <=> runs'[r].pending # "none"
                    /\ runs'[r].status = "blocked" <=> runs'[r].resume # "none"
  BY DEF RunChecks
<1>1. UNCHANGED runs[r] \/ RunWritten(r)
  BY RunIsWritten DEF vars
<1>2. CASE UNCHANGED runs[r]
  BY <1>2 DEF RunChecks
<1>3. CASE RunWritten(r)
  BY <1>3 DEF RunWritten
<1> QED BY <1>1, <1>2, <1>3

(* How a step writes a RoleRun.                                               *)
RoleRunWritten(x) ==
  /\ roleRuns[x].status # "settled"
  /\ roleRuns'[x].status = "settled" <=> roleRuns'[x].outcome # "none"
  /\ roleRuns'[x].lease = "none" <=> roleRuns'[x].owner = Nil

(* Every command that touches a RoleRun writes it in one of the ways above. *)
LEMMA RoleRunIsWritten ==
  ASSUME TypeOK, RoleRunChecks, Next, NEW x \in RoleRuns
  PROVE  UNCHANGED roleRuns[x] \/ RoleRunWritten(x)
<1>1. ASSUME NEW g \in grants, NEW status \in {"starting", "running", "settling"},
             RoleLeaseHeld(g, status)
      PROVE  /\ g.roleRun \in RoleRuns
             /\ roleRuns[g.roleRun].status # "settled" /\ roleRuns[g.roleRun].outcome = "none"
             /\ roleRuns[g.roleRun].lease # "none" /\ roleRuns[g.roleRun].owner # Nil
  BY <1>1, GrantRows DEF RoleLeaseHeld, RoleRunChecks
<1>2. ASSUME NEW g \in grants, RoleLeaseHeld(g, "settling"), NEW row,
             roleRuns' = [roleRuns EXCEPT ![g.roleRun] = row],
             \/ \E o \in {"succeeded", "unsuccessful"}, e \in Artifacts \cup {Nil} :
                  row = RoleRunReleased(g.roleRun, "settled", o, e)
             \/ row = RoleRunReleased(g.roleRun, "blocked", "none", Nil)
      PROVE  UNCHANGED roleRuns[x] \/ RoleRunWritten(x)
  <2>1. g.roleRun \in RoleRuns /\ roleRuns[g.roleRun].status # "settled"
    BY <1>1, <1>2
  <2>2. CASE g.roleRun # x
    BY <1>2, <2>2 DEF TypeOK
  <2>3. CASE g.roleRun = x
    <3>1. roleRuns'[x] = row
      BY <1>2, <2>3 DEF TypeOK
    <3> QED BY <1>2, <2>1, <2>3, <3>1, RoleRunFields DEF RoleRunWritten
  <2> QED BY <2>2, <2>3
<1>3. ASSUME DesignCommand \/ RecordApprovalDecision \/ AcceptanceCommand \/ StopCommand
             \/ InvalidateApproval
      PROVE  UNCHANGED roleRuns
  <2>1. CASE DesignCommand
    BY <2>1 DEF DesignCommand, StartContextualization, CompleteContextualization,
       SubmitTrdForApproval
  <2>2. CASE RecordApprovalDecision
    <3>1. ASSUME NEW a, NEW p, NEW role, NEW decision, NEW outcome, Decide(a, p, role, decision, outcome)
          PROVE  UNCHANGED roleRuns
      BY <3>1 DEF Decide
    <3>2. ASSUME NEW a, NEW p, NEW role, NEW decision, ApprovalDecision(a, p, role, decision)
          PROVE  UNCHANGED roleRuns
      BY <3>1, <3>2 DEF ApprovalDecision, DecideInPart, ApproveTrd, RequestTrdChanges,
         RejectTrd, AuthorizeRun, RequestRunChanges, RejectRun
    <3> QED BY <2>2, <3>2 DEF RecordApprovalDecision
  <2>3. CASE AcceptanceCommand
    BY <2>3 DEF AcceptanceCommand, ReworkImplementation, ReworkUnclassified, ReworkUpstream,
       AcceptDelivery
  <2>4. CASE StopCommand
    BY <2>4 DEF StopCommand, CancelWithoutRun, CancelIdleRun, CancelBusyRun,
       FinishCancelledStop, FinishSupersededStop, StopSettles
  <2>5. CASE InvalidateApproval
    BY <2>5 DEF InvalidateApproval, InvalidateAfterClose, InvalidateBeforeRun,
       InvalidateDuringRun, InvalidateWithoutRun, Invalidate
  <2> QED BY <1>3, <2>1, <2>2, <2>3, <2>4, <2>5
<1>4. ASSUME RunCommand PROVE UNCHANGED roleRuns[x] \/ RoleRunWritten(x)
  <2>1. ASSUME NEW y \in RoleRuns, NEW r \in Runs, NEW role \in RuntimeRoles, NEW inputs,
               PrepareRoleRun(y, r, role, inputs)
        PROVE  UNCHANGED roleRuns[x] \/ RoleRunWritten(x)
    BY <2>1 DEF PrepareRoleRun, NoRoleRun, RoleRunWritten, TypeOK
  <2> QED BY <1>4, <2>1 DEF RunCommand, SealRunManifest
<1>5. ASSUME WorkerCommand PROVE UNCHANGED roleRuns[x] \/ RoleRunWritten(x)
  <2>1. ASSUME NEW y \in RoleRuns, NEW w \in Workers, AcquireRoleRunLease(y, w)
        PROVE  UNCHANGED roleRuns[x] \/ RoleRunWritten(x)
    <3>1. CASE y # x
      BY <2>1, <3>1 DEF AcquireRoleRunLease, TypeOK
    <3>2. CASE y = x
      <4>1. /\ roleRuns[x].status # "settled"
            /\ roleRuns'[x].status = "starting" /\ roleRuns'[x].outcome = roleRuns[x].outcome
            /\ roleRuns'[x].lease = "live" /\ roleRuns'[x].owner = w
        BY <2>1, <3>2 DEF AcquireRoleRunLease, Leasable, TypeOK, RoleRun
      <4> QED BY <4>1, NilAssumption DEF RoleRunChecks, RoleRunWritten
    <3> QED BY <3>1, <3>2
  <2>2. ASSUME NEW g \in grants, MarkRoleRunRunning(g)
        PROVE  UNCHANGED roleRuns[x] \/ RoleRunWritten(x)
    BY <1>1, <2>2 DEF MarkRoleRunRunning, RoleRunWritten, TypeOK, RoleRun
  <2>3. ASSUME NEW g \in grants, NEW runtime, MarkRoleRunSettling(g, runtime)
        PROVE  UNCHANGED roleRuns[x] \/ RoleRunWritten(x)
    BY <1>1, <2>3 DEF MarkRoleRunSettling, RoleRunWritten, TypeOK, RoleRun
  <2>4. ASSUME NEW g \in grants, SettleRoleRun(g) \/ BlockRoleRun(g)
        PROVE  UNCHANGED roleRuns[x] \/ RoleRunWritten(x)
    BY <1>2, <2>4 DEF SettleRoleRun, BlockRoleRun
  <2>5. ASSUME NEW g \in grants, NEW e \in Artifacts, SubmitExecutionForVerification(g, e)
        PROVE  UNCHANGED roleRuns[x] \/ RoleRunWritten(x)
    BY <1>2, <2>5 DEF SubmitExecutionForVerification
  <2>6. ASSUME NEW g \in grants, NEW e \in Artifacts, NEW v \in Artifacts, SubmitVerification(g, e, v)
        PROVE  UNCHANGED roleRuns[x] \/ RoleRunWritten(x)
    BY <1>2, <2>6 DEF SubmitVerification, SubmitVerificationResult, SubmitPass,
       SubmitImplementationFailure, SubmitBlocked, SubmitUpstreamFailure
  <2> QED BY <1>5, <2>1, <2>2, <2>3, <2>4, <2>5, <2>6 DEF WorkerCommand
<1>6. ASSUME Environment PROVE UNCHANGED roleRuns[x] \/ RoleRunWritten(x)
  <2>1. ASSUME NEW y \in RoleRuns, LeaseExpires(y)
        PROVE  UNCHANGED roleRuns[x] \/ RoleRunWritten(x)
    BY <2>1, BoundAssumption DEF LeaseExpires, RoleRunChecks, RoleRunWritten, TypeOK, RoleRun
  <2> QED BY <1>6, <2>1, OtherTaskLeaves DEF Environment, RegisterArtifact,
         MarkOutboxDelivered, DeadlinePasses
<1> QED BY <1>3, <1>4, <1>5, <1>6 DEF Next

(* The CHECK constraints of the RoleRuns survive every step.                *)
LEMMA RoleRunChecksKept ==
  ASSUME TypeOK, RoleRunChecks, [Next]_vars
  PROVE  RoleRunChecks'
<1> SUFFICES ASSUME NEW x \in RoleRuns
             PROVE  /\ roleRuns'[x].status = "settled" <=> roleRuns'[x].outcome # "none"
                    /\ roleRuns'[x].lease = "none" <=> roleRuns'[x].owner = Nil
  BY DEF RoleRunChecks
<1>1. UNCHANGED roleRuns[x] \/ RoleRunWritten(x)
  BY RoleRunIsWritten DEF vars
<1> QED BY <1>1 DEF RoleRunChecks, RoleRunWritten

-----------------------------------------------------------------------------
(* The theorems. *)

(* Every command keeps the types, given that the rows pass their CHECKs.     *)
LEMMA TypeKept ==
  TypeOK /\ SchemaChecks /\ [Next]_vars => TypeOK'
<1>1. TypeOK /\ UNCHANGED vars => TypeOK'
  BY DEF TypeOK, vars
<1> QED BY <1>1, TypeOfDesign, TypeOfDecision, TypeOfRunCommand, TypeOfWorker, TypeOfAcceptance,
           TypeOfStop, TypeOfInvalidation, TypeOfEnvironment DEF Next

(* A Task just created has well typed and sound rows.                       *)
LEMMA InitRows == Init => TypeOK /\ SchemaChecks
<1> SUFFICES ASSUME Init PROVE TypeOK /\ SchemaChecks
  OBVIOUS
<1>1. /\ NoApproval \in Approval /\ NoRun \in Run /\ NoRoleRun \in RoleRun
      /\ NoContent \in Artifact
  BY DEF NoApproval, NoRun, NoRoleRun, NoContent, Approval, Run, RoleRun, Artifact
<1>2. task \in Task
  BY DEF Init, Task, TaskStatus
<1>3. TypeOK
  BY <1>1, <1>2 DEF Init, TypeOK
<1>4. SchemaChecks
  BY DEF Init, SchemaChecks, NoRun, NoRoleRun
<1> QED BY <1>3, <1>4

(* Every reachable state of the store is well typed, and no command ever     *)
(* writes a Task, Run or RoleRun row that a CHECK constraint of migrations.ts *)
(* forbids: a command that passed its own checks is never undone by them.     *)
THEOREM RowsAreSound == Spec => [](TypeOK /\ SchemaChecks)
<1>1. Init => TypeOK /\ SchemaChecks
  BY InitRows
<1>2. TypeOK /\ SchemaChecks /\ [Next]_vars => (TypeOK /\ SchemaChecks)'
  BY TypeKept, SchemaParts, TaskChecksKept, RunChecksKept, RoleRunChecksKept
<1> QED BY <1>1, <1>2, PTL DEF Spec

(* Type correctness on its own, as the runs check it.                         *)
THEOREM TypeCorrect == Spec => []TypeOK
BY RowsAreSound, PTL
=============================================================================
