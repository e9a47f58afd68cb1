---------------------------- MODULE ControlPlane ----------------------------
(***************************************************************************)
(* The EMI control plane: the SQLite store that owns one Task, its human   *)
(* Approvals, its Runs and their RoleRuns                                  *)
(* (packages/control-plane/src/sqlite-control-plane.ts).  The store holds  *)
(* other Tasks as well.  A command on one of those reaches this Task in    *)
(* one way only: its Run's manifest may name their Approvals.              *)
(*                                                                         *)
(* Every command is one BEGIN IMMEDIATE ... COMMIT transaction, so every   *)
(* command is one action here.  A command that fails rolls back and leaves *)
(* no trace: it is the stuttering step.  The expected versions a caller    *)
(* sends must equal the stored ones, so a command that commits was decided *)
(* on the state it commits on; command ids, versions and replays are left  *)
(* to a model of their own.                                                *)
(*                                                                         *)
(* Time appears only as two environment steps: a lease runs out, and the   *)
(* deadline of a pending Approval passes.                                  *)
(***************************************************************************)
EXTENDS Naturals, FiniteSets

CONSTANTS
  Contexts,        \* ContextManifest refs that may be sealed
  Trds,            \* TRD refs that may be submitted
  Approvals,       \* Approval ids
  OtherApprovals,  \* those of them that belong to other Tasks of the store
  Runs,            \* Run ids
  RoleRuns,        \* RoleRun ids
  Artifacts,       \* ids of ExecutionResult and VerificationResult artifacts
  Actors,          \* people who request and decide Approvals
  AuthorityRoles,  \* the roles an Approval may require
  RolesOf,         \* the authority roles each actor holds
  RequiredRoles,   \* the roles every Approval of the Task requires
  Workers,         \* worker processes that lease RoleRuns
  MaxRoleRuns,     \* RunManifest policies.maxRoleRuns
  MaxAttempts,     \* RunManifest roles[].limits.maxAttempts
  Nil              \* "no row" / SQL NULL

(* Bounds of the model, not of the program. *)
CONSTANTS
  MaxToken,        \* leases granted for one RoleRun
  MaxInputs,       \* artifacts a verifier RoleRun is prepared with
  DeadlineChoices, \* deadlines an Approval is requested with
  ExpiryStatuses,  \* RoleRun statuses in which a lease may run out
  RegisteredKinds, \* result artifacts registered outside a RoleRun
  DeliveredTypes   \* outbox events whose delivery is modelled

VARIABLES task, approvals, runs, roleRuns, artifacts, grants, outbox

vars == <<task, approvals, runs, roleRuns, artifacts, grants, outbox>>

-----------------------------------------------------------------------------
(* Row types. *)

TaskStatus ==
  {"intake", "contextualizing", "drafting_trd", "awaiting_trd_approval",
   "planning", "executing", "verifying", "awaiting_acceptance", "blocked",
   "closed"}

(* What a blocked Task records in resume_to_status. *)
ResumeStatus == TaskStatus \ {"blocked", "closed"}

ApprovalStatus ==
  {"pending", "approved", "approved_with_conditions", "changes_requested",
   "rejected", "expired", "withdrawn", "revoked"}

Gates == {"trd_approval", "run_authorization"}

Decisions ==
  {"approved", "approved_with_conditions", "changes_requested", "rejected"}

(* Approval and decision values that let work go on. *)
Affirmative == {"approved", "approved_with_conditions"}

RunStatus ==
  {"awaiting_authorization", "authorized", "active", "blocked", "stopping",
   "settled"}

RunOutcome == {"completed", "cancelled", "superseded", "rejected"}

RoleRunStatus ==
  {"prepared", "starting", "running", "settling", "blocked", "settled"}

RuntimeRoles == {"executor", "verifier"}

Verdicts == {"pass", "fail", "blocked"}

EventTypes ==
  {"approval.requested", "evidence.export_requested",
   "security.approval_invalidated"}

Decision == [authority: Actors, role: AuthorityRoles, decision: Decisions]

(* The Task row, with the ExecutionResult and VerificationResult refs of its *)
(* latest transition log entry.                                              *)
Task ==
  [status: TaskStatus,
   outcome: {"completed", "cancelled", "none"},
   resume: ResumeStatus \cup {"none"},
   context: Contexts \cup {Nil},
   trd: Trds \cup {Nil},
   execution: Artifacts \cup {Nil},
   verification: Artifacts \cup {Nil}]

Approval ==
  [status: ApprovalStatus \cup {"none"},
   gate: Gates \cup {"none"},
   subject: Trds \cup Runs \cup {Nil},
   requestedBy: Actors \cup {Nil},
   deadline: {"none", "ahead", "passed"},
   decisions: SUBSET Decision]

(* The Run row joined with the parts of its sealed RunManifest that guards   *)
(* read.                                                                     *)
Run ==
  [status: RunStatus \cup {"none"},
   outcome: RunOutcome \cup {"none"},
   pending: {"cancelled", "superseded", "none"},
   resume: {"active", "none"},
   authorization: Approvals \cup {Nil},
   prerequisites: SUBSET Approvals,
   context: Contexts \cup {Nil},
   trd: Trds \cup {Nil}]

(* session is the token of the lease the runtime session was opened under.   *)
RoleRun ==
  [status: RoleRunStatus \cup {"none"},
   outcome: {"succeeded", "unsuccessful", "none"},
   run: Runs \cup {Nil},
   role: RuntimeRoles \cup {"none"},
   runtime: {"completed", "unsuccessful", "none"},
   inputs: SUBSET Artifacts,
   output: Artifacts \cup {Nil},
   lease: {"none", "live", "expired"},
   owner: Workers \cup {Nil},
   token: Nat,
   session: Nat]

(* What a result artifact binds: its Run and, for a VerificationResult, the  *)
(* ExecutionResult it judges.                                                *)
Artifact ==
  [kind: {"execution_result", "verification_result", "none"},
   run: Runs \cup {Nil},
   execution: Artifacts \cup {Nil},
   verdict: Verdicts \cup {"none"}]

(* A lease a worker was told it holds, and may still act under.              *)
Grant == [roleRun: RoleRuns, worker: Workers, token: Nat]

Event == [type: EventTypes, id: Approvals \cup Runs, delivered: BOOLEAN]

TypeOK ==
  /\ task \in Task
  /\ approvals \in [Approvals -> Approval]
  /\ runs \in [Runs -> Run]
  /\ roleRuns \in [RoleRuns -> RoleRun]
  /\ artifacts \in [Artifacts -> Artifact]
  /\ grants \in SUBSET Grant
  /\ outbox \in SUBSET Event

(* Nil is no id.                                                             *)
ASSUME NilAssumption ==
  /\ Nil \notin Contexts \cup Trds \cup Approvals \cup Runs \cup RoleRuns
  /\ Nil \notin Artifacts \cup Actors \cup Workers

(* Every Approval belongs to one Task.                                       *)
ASSUME OwnerAssumption == OtherApprovals \subseteq Approvals

(* A TRD and a Run manifest are never the same subject.                      *)
ASSUME SubjectAssumption == Trds \cap Runs = {}

ASSUME RoleAssumption ==
  /\ RolesOf \in [Actors -> SUBSET AuthorityRoles]
  /\ RequiredRoles \subseteq AuthorityRoles
  /\ RequiredRoles # {}

(* validateManifest refuses fewer than two RoleRuns and no attempt at all.   *)
ASSUME LimitAssumption ==
  /\ MaxRoleRuns \in Nat \ {0, 1}
  /\ MaxAttempts \in Nat \ {0}

ASSUME BoundAssumption ==
  /\ MaxToken \in Nat \ {0}
  /\ MaxInputs \in Nat
  /\ DeadlineChoices \subseteq {"none", "ahead"}
  /\ ExpiryStatuses \subseteq {"starting", "running", "settling"}
  /\ RegisteredKinds \subseteq {"execution_result", "verification_result"}
  /\ DeliveredTypes \subseteq EventTypes

-----------------------------------------------------------------------------
(* Rows that do not exist yet, and the Task as createTask inserts it.        *)

NoApproval ==
  [status |-> "none", gate |-> "none", subject |-> Nil, requestedBy |-> Nil,
   deadline |-> "none", decisions |-> {}]

NoRun ==
  [status |-> "none", outcome |-> "none", pending |-> "none",
   resume |-> "none", authorization |-> Nil, prerequisites |-> {},
   context |-> Nil, trd |-> Nil]

NoRoleRun ==
  [status |-> "none", outcome |-> "none", run |-> Nil, role |-> "none",
   runtime |-> "none", inputs |-> {}, output |-> Nil, lease |-> "none",
   owner |-> Nil, token |-> 0, session |-> 0]

NoContent ==
  [kind |-> "none", run |-> Nil, execution |-> Nil, verdict |-> "none"]

Init ==
  /\ task = [status |-> "intake", outcome |-> "none", resume |-> "none",
             context |-> Nil, trd |-> Nil, execution |-> Nil,
             verification |-> Nil]
  /\ approvals = [a \in Approvals |-> NoApproval]
  /\ runs = [r \in Runs |-> NoRun]
  /\ roleRuns = [x \in RoleRuns |-> NoRoleRun]
  /\ artifacts = [e \in Artifacts |-> NoContent]
  /\ grants = {}
  /\ outbox = {}

-----------------------------------------------------------------------------
(* Queries. *)

Unsettled(status) == status \notin {"none", "settled"}

UnsettledRuns == {r \in Runs : Unsettled(runs[r].status)}

UnsettledRoleRuns(r) ==
  {x \in RoleRuns : roleRuns[x].run = r /\ Unsettled(roleRuns[x].status)}

RoleRunsOf(r) == {x \in RoleRuns : roleRuns[x].run = r}

Attempts(r, role) == {x \in RoleRunsOf(r) : roleRuns[x].role = role}

Registered == {e \in Artifacts : artifacts[e].kind # "none"}

IsEffective(a) == approvals[a].status \in Affirmative

(* approval.taskId is this Task.                                             *)
OwnApprovals == Approvals \ OtherApprovals

(* A sealed snapshot names the Approval's version, and an effective Approval *)
(* can only be revoked: it is unchanged exactly while it is effective.       *)
PrerequisitesEffective(r) == \A a \in runs[r].prerequisites : IsEffective(a)

ApprovalsEffective(r) ==
  /\ PrerequisitesEffective(r)
  /\ runs[r].authorization \in Approvals
  /\ approvals[runs[r].authorization].status = "approved"

-----------------------------------------------------------------------------
(* The rows a transition writes. *)

TaskMoved(status, execution, verification) ==
  [task EXCEPT !.status = status, !.resume = "none",
               !.execution = execution, !.verification = verification]

TaskBlocked(resume, execution, verification) ==
  [TaskMoved("blocked", execution, verification) EXCEPT !.resume = resume]

TaskClosed(outcome, execution, verification) ==
  [TaskMoved("closed", execution, verification) EXCEPT !.outcome = outcome]

RunMoved(r, status) ==
  [runs[r] EXCEPT !.status = status, !.pending = "none", !.resume = "none"]

RunStopping(r, pending) ==
  [RunMoved(r, "stopping") EXCEPT !.pending = pending]

RunBlocked(r) == [RunMoved(r, "blocked") EXCEPT !.resume = "active"]

RunSettled(r, outcome) == [RunMoved(r, "settled") EXCEPT !.outcome = outcome]

(* Mutant: the expiry of the lease is cleared, its owner is not.             *)
RoleRunKept(x, status, outcome, output) ==
  [roleRuns[x] EXCEPT !.status = status, !.outcome = outcome,
                      !.output = output, !.lease = "none"]

(* settled or blocked: the lease is cleared, the token stays.                *)
RoleRunReleased(x, status, outcome, output) ==
  [roleRuns[x] EXCEPT !.status = status, !.outcome = outcome,
                      !.output = output, !.lease = "none", !.owner = Nil]

Announce(type, id) ==
  outbox' = outbox \cup {[type |-> type, id |-> id, delivered |-> FALSE]}

(* insertArtifact: the same content again is the artifact already stored.    *)
InsertArtifact(e, content) ==
  /\ artifacts[e] \in {NoContent, content}
  /\ artifacts' = [artifacts EXCEPT ![e] = content]

ExecutionResult(r) ==
  [kind |-> "execution_result", run |-> r, execution |-> Nil, verdict |-> "none"]

VerificationResult(r, e, verdict) ==
  [kind |-> "verification_result", run |-> r, execution |-> e,
   verdict |-> verdict]

(* insertApproval, with the index one_pending_approval_per_subject.          *)
InsertApproval(a, gate, subject, p, deadline) ==
  /\ approvals[a].status = "none"
  /\ \A b \in Approvals :
       ~(/\ approvals[b].status = "pending"
         /\ approvals[b].gate = gate
         /\ approvals[b].subject = subject)
  /\ approvals' = [approvals EXCEPT ![a] =
       [status |-> "pending", gate |-> gate, subject |-> subject,
        requestedBy |-> p, deadline |-> deadline, decisions |-> {}]]
  /\ Announce("approval.requested", a)

-----------------------------------------------------------------------------
(* Design: from intake to a TRD that waits for approval. *)

StartContextualization ==
  /\ task.status = "intake"
  /\ task' = TaskMoved("contextualizing", Nil, Nil)
  /\ UNCHANGED <<approvals, runs, roleRuns, artifacts, grants, outbox>>

CompleteContextualization(c) ==
  /\ task.status = "contextualizing"
  /\ task' = [TaskMoved("drafting_trd", Nil, Nil) EXCEPT !.context = c]
  /\ UNCHANGED <<approvals, runs, roleRuns, artifacts, grants, outbox>>

SubmitTrdForApproval(t, a, p, deadline) ==
  /\ task.status = "drafting_trd"
  /\ a \in OwnApprovals
  /\ InsertApproval(a, "trd_approval", t, p, deadline)
  /\ task' = [TaskMoved("awaiting_trd_approval", Nil, Nil) EXCEPT !.trd = t]
  /\ UNCHANGED <<runs, roleRuns, artifacts, grants>>

-----------------------------------------------------------------------------
(* Approval decisions. *)

(* aggregateApproval *)
AggregateApproval(decided) ==
  LET values == {d.decision : d \in decided}
      satisfied == {d.role : d \in {f \in decided : f.decision \in Affirmative}}
  IN  IF "rejected" \in values THEN "rejected"
      ELSE IF "changes_requested" \in values THEN "changes_requested"
      ELSE IF ~(RequiredRoles \subseteq satisfied) THEN "pending"
      ELSE IF "approved_with_conditions" \in values
           THEN "approved_with_conditions" ELSE "approved"

(* Mutant: nothing keeps one person from deciding for each role.             *)
MayDecideTwice(a, p, role, decision) ==
  /\ approvals[a].status = "pending"
  /\ approvals[a].deadline # "passed"
  /\ role \in RequiredRoles \cap RolesOf[p]
  /\ p # approvals[a].requestedBy
  /\ \A d \in approvals[a].decisions : d.authority # p \/ d.role # role

(* The checks before the decision is inserted; the table admits one decision *)
(* per authority.                                                            *)
MayDecide(a, p, role, decision) ==
  /\ approvals[a].status = "pending"
  /\ approvals[a].deadline # "passed"
  /\ role \in RequiredRoles \cap RolesOf[p]
  /\ p # approvals[a].requestedBy
  /\ ~(approvals[a].gate = "run_authorization" /\ decision = "approved_with_conditions")
  /\ \A d \in approvals[a].decisions : d.authority # p

Decided(a, p, role, decision) ==
  approvals[a].decisions
    \cup {[authority |-> p, role |-> role, decision |-> decision]}

(* The part every decision has: insert it and write the aggregate.           *)
Decide(a, p, role, decision, aggregate) ==
  /\ MayDecide(a, p, role, decision)
  /\ aggregate = AggregateApproval(Decided(a, p, role, decision))
  /\ approvals' = [approvals EXCEPT
       ![a].status = aggregate,
       ![a].decisions = Decided(a, p, role, decision)]
  /\ UNCHANGED <<roleRuns, artifacts, grants, outbox>>

(* More roles are still required: the Task's status is not looked at.        *)
DecideInPart(a, p, role, decision) ==
  /\ Decide(a, p, role, decision, "pending")
  /\ UNCHANGED <<task, runs>>

ApproveTrd(a, p, role, decision) ==
  /\ a \in OwnApprovals
  /\ approvals[a].gate = "trd_approval"
  /\ task.status = "awaiting_trd_approval"
  /\ \E aggregate \in Affirmative : Decide(a, p, role, decision, aggregate)
  /\ task' = TaskMoved("planning", Nil, Nil)
  /\ UNCHANGED runs

RequestTrdChanges(a, p, role, decision, returnTo) ==
  /\ a \in OwnApprovals
  /\ approvals[a].gate = "trd_approval"
  /\ task.status = "awaiting_trd_approval"
  /\ Decide(a, p, role, decision, "changes_requested")
  /\ task' = TaskMoved(returnTo, Nil, Nil)
  /\ UNCHANGED runs

RejectTrd(a, p, role, decision) ==
  /\ a \in OwnApprovals
  /\ approvals[a].gate = "trd_approval"
  /\ task.status = "awaiting_trd_approval"
  /\ Decide(a, p, role, decision, "rejected")
  /\ task' = TaskBlocked("drafting_trd", Nil, Nil)
  /\ UNCHANGED runs

(* The Run a run_authorization Approval belongs to, still to be authorized.  *)
AwaitsAuthorization(a, r) ==
  /\ approvals[a].gate = "run_authorization"
  /\ task.status = "planning"
  /\ runs[r].authorization = a
  /\ runs[r].status = "awaiting_authorization"

AuthorizeRun(a, r, p, role, decision) ==
  /\ AwaitsAuthorization(a, r)
  /\ Decide(a, p, role, decision, "approved")
  /\ PrerequisitesEffective(r)
  /\ runs' = [runs EXCEPT ![r] = RunMoved(r, "authorized")]
  /\ task' = TaskMoved("executing", Nil, Nil)

RequestRunChanges(a, r, p, role, decision) ==
  /\ AwaitsAuthorization(a, r)
  /\ Decide(a, p, role, decision, "changes_requested")
  /\ runs' = [runs EXCEPT ![r] = RunSettled(r, "rejected")]
  /\ UNCHANGED task

RejectRun(a, r, p, role, decision) ==
  /\ AwaitsAuthorization(a, r)
  /\ Decide(a, p, role, decision, "rejected")
  /\ runs' = [runs EXCEPT ![r] = RunSettled(r, "rejected")]
  /\ task' = TaskBlocked("planning", Nil, Nil)

-----------------------------------------------------------------------------
(* Runs and RoleRuns. *)

(* Mutant: any effective TRD Approval will do.                               *)
PrerequisitesBindAnyTrd(prerequisites) ==
  /\ \A b \in prerequisites : IsEffective(b)
  /\ \E b \in prerequisites : approvals[b].gate = "trd_approval"

(* validateManifest: whose Task an Approval belongs to is not compared.      *)
PrerequisitesBind(prerequisites) ==
  /\ \A b \in prerequisites : IsEffective(b)
  /\ \E b \in prerequisites :
       approvals[b].gate = "trd_approval" /\ approvals[b].subject = task.trd

(* sealRunManifest: the manifest binds the Task's design and effective       *)
(* Approvals, one of them of the Task's TRD, each of this Task or of another; *)
(* the index one_unsettled_run_per_task admits one open Run.                 *)
SealRunManifest(r, a, prerequisites, p, deadline) ==
  /\ task.status = "planning"
  /\ runs[r].status = "none"
  /\ UnsettledRuns = {}
  /\ PrerequisitesBind(prerequisites)
  /\ a \in OwnApprovals
  /\ InsertApproval(a, "run_authorization", r, p, deadline)
  /\ runs' = [runs EXCEPT ![r] =
       [status |-> "awaiting_authorization", outcome |-> "none",
        pending |-> "none", resume |-> "none", authorization |-> a,
        prerequisites |-> prerequisites, context |-> task.context,
        trd |-> task.trd]]
  /\ UNCHANGED <<task, roleRuns, artifacts, grants>>

PhaseOf(role) == IF role = "executor" THEN "executing" ELSE "verifying"

(* Mutant: the RoleRuns the Run already has are not looked at.               *)
MayPrepareBeside(r, role) ==
  /\ runs[r].status \in {"authorized", "active"}
  /\ ApprovalsEffective(r)
  /\ task.status = PhaseOf(role)

MayPrepare(r, role) ==
  /\ runs[r].status \in {"authorized", "active"}
  /\ ApprovalsEffective(r)
  /\ task.status = PhaseOf(role)
  /\ Cardinality(RoleRunsOf(r)) < MaxRoleRuns
  /\ Cardinality(Attempts(r, role)) < MaxAttempts
  /\ UnsettledRoleRuns(r) = {}

PrepareRoleRun(x, r, role, inputs) ==
  /\ roleRuns[x].status = "none"
  /\ MayPrepare(r, role)
  /\ roleRuns' = [roleRuns EXCEPT ![x] =
       [NoRoleRun EXCEPT !.status = "prepared", !.run = r, !.role = role,
                         !.inputs = inputs]]
  /\ UNCHANGED <<task, approvals, runs, artifacts, grants, outbox>>

(* Mutant: a Run that stops or is blocked still has its RoleRuns leased.     *)
LeasableInAnyRun(x) ==
  \/ roleRuns[x].status = "prepared"
  \/ roleRuns[x].status = "starting" /\ roleRuns[x].lease = "expired"

(* prepared, or starting under a lease that ran out before a session opened; *)
(* the Run is active, or this lease activates it.                            *)
Leasable(x) ==
  /\ \/ roleRuns[x].status = "prepared"
     \/ roleRuns[x].status = "starting" /\ roleRuns[x].lease = "expired"
  /\ runs[roleRuns[x].run].status \in {"authorized", "active"}

AcquireRoleRunLease(x, w) ==
  LET r == roleRuns[x].run
      token == roleRuns[x].token + 1
  IN  /\ Leasable(x)
      /\ roleRuns[x].token < MaxToken
      /\ roleRuns' = [roleRuns EXCEPT
           ![x].status = "starting", ![x].lease = "live",
           ![x].owner = w, ![x].token = token]
      /\ runs' = [runs EXCEPT ![r] = RunMoved(r, "active")]
      /\ grants' = grants \cup {[roleRun |-> x, worker |-> w, token |-> token]}
      /\ UNCHANGED <<task, approvals, artifacts, outbox>>

(* Mutant: whose lease it is, and which, is not compared.                    *)
RoleLeaseUnfenced(g, status) ==
  LET x == roleRuns[g.roleRun]
  IN  g \in grants /\ x.status = status /\ x.lease = "live"

(* assertRoleLease, for a worker that acts under the lease g.                *)
RoleLeaseHeld(g, status) ==
  LET x == roleRuns[g.roleRun]
  IN  /\ g \in grants
      /\ x.status = status
      /\ x.token = g.token
      /\ x.owner = g.worker
      /\ x.lease = "live"

MarkRoleRunRunning(g) ==
  /\ RoleLeaseHeld(g, "starting")
  /\ roleRuns' = [roleRuns EXCEPT
       ![g.roleRun].status = "running", ![g.roleRun].session = g.token]
  /\ UNCHANGED <<task, approvals, runs, artifacts, grants, outbox>>

(* Mutant: only an active Run lets its RoleRun settle.                       *)
MarkSettlingInActiveRun(g, runtime) ==
  /\ RoleLeaseHeld(g, "running")
  /\ runs[roleRuns[g.roleRun].run].status = "active"
  /\ roleRuns' = [roleRuns EXCEPT
       ![g.roleRun].status = "settling", ![g.roleRun].runtime = runtime]
  /\ UNCHANGED <<task, approvals, runs, artifacts, grants, outbox>>

MarkRoleRunSettling(g, runtime) ==
  /\ RoleLeaseHeld(g, "running")
  /\ roleRuns' = [roleRuns EXCEPT
       ![g.roleRun].status = "settling", ![g.roleRun].runtime = runtime]
  /\ UNCHANGED <<task, approvals, runs, artifacts, grants, outbox>>

SettleRoleRun(g) ==
  /\ RoleLeaseHeld(g, "settling")
  /\ roleRuns' = [roleRuns EXCEPT
       ![g.roleRun] = RoleRunReleased(g.roleRun, "settled", "unsuccessful", Nil)]
  /\ UNCHANGED <<task, approvals, runs, artifacts, grants, outbox>>

BlockRoleRun(g) ==
  LET r == roleRuns[g.roleRun].run
  IN  /\ task.status \in {"executing", "verifying"}
      /\ RoleLeaseHeld(g, "settling")
      /\ runs[r].status = "active"
      /\ roleRuns' = [roleRuns EXCEPT
           ![g.roleRun] = RoleRunReleased(g.roleRun, "blocked", "none", Nil)]
      /\ runs' = [runs EXCEPT ![r] = RunBlocked(r)]
      /\ task' = TaskBlocked(task.status, Nil, Nil)
      /\ UNCHANGED <<approvals, artifacts, grants, outbox>>

SubmitExecutionForVerification(g, e) ==
  LET x == g.roleRun
      r == roleRuns[x].run
  IN  /\ task.status = "executing"
      /\ RoleLeaseHeld(g, "settling")
      /\ runs[r].status = "active"
      /\ roleRuns[x].role = "executor"
      /\ roleRuns[x].runtime = "completed"
      /\ ApprovalsEffective(r)
      /\ InsertArtifact(e, ExecutionResult(r))
      /\ roleRuns' = [roleRuns EXCEPT
           ![x] = RoleRunReleased(x, "settled", "succeeded", e)]
      /\ task' = TaskMoved("verifying", e, Nil)
      /\ UNCHANGED <<approvals, runs, grants, outbox>>

(* The part every verification result has.  The ExecutionResult is any the   *)
(* verifier was given; nothing compares it with the last handoff or the Run. *)
SubmitVerificationResult(g, e, v, verdict) ==
  LET x == g.roleRun
      r == roleRuns[x].run
  IN  /\ task.status = "verifying"
      /\ RoleLeaseHeld(g, "settling")
      /\ runs[r].status = "active"
      /\ artifacts[e].kind = "execution_result"
      /\ roleRuns[x].role = "verifier"
      /\ roleRuns[x].runtime = "completed"
      /\ ApprovalsEffective(r)
      /\ e \in roleRuns[x].inputs
      /\ InsertArtifact(v, VerificationResult(r, e, verdict))
      /\ roleRuns' = [roleRuns EXCEPT
           ![x] = RoleRunReleased(x, "settled", "succeeded", v)]
      /\ UNCHANGED <<approvals, grants, outbox>>

SubmitPass(g, e, v) ==
  /\ SubmitVerificationResult(g, e, v, "pass")
  /\ task' = TaskMoved("awaiting_acceptance", e, v)
  /\ UNCHANGED runs

SubmitImplementationFailure(g, e, v) ==
  /\ SubmitVerificationResult(g, e, v, "fail")
  /\ task' = TaskMoved("executing", e, v)
  /\ UNCHANGED runs

SubmitBlocked(g, e, v) ==
  LET r == roleRuns[g.roleRun].run
  IN  /\ SubmitVerificationResult(g, e, v, "blocked")
      /\ task' = TaskBlocked("verifying", e, v)
      /\ runs' = [runs EXCEPT ![r] = RunBlocked(r)]

(* upstreamForFinding *)
UpstreamFindings == {"prd", "context", "trd"}

UpstreamForFinding(finding) ==
  CASE finding = "prd" -> "intake"
    [] finding = "context" -> "contextualizing"
    [] finding = "trd" -> "drafting_trd"

SubmitUpstreamFailure(g, e, v, finding) ==
  LET r == roleRuns[g.roleRun].run
  IN  /\ SubmitVerificationResult(g, e, v, "fail")
      /\ task' = TaskBlocked(UpstreamForFinding(finding), e, v)
      /\ runs' = [runs EXCEPT ![r] = RunStopping(r, "superseded")]

-----------------------------------------------------------------------------
(* Acceptance. *)

(* Mutant: the verdict of the VerificationResult is not read.                *)
AcceptableWithoutPass(r, e, v) ==
  /\ task.status = "awaiting_acceptance"
  /\ runs[r].status = "active"
  /\ ApprovalsEffective(r)
  /\ artifacts[e] = ExecutionResult(r)
  /\ \E verdict \in Verdicts : artifacts[v] = VerificationResult(r, e, verdict)

(* What acceptance and rework check of the results the caller names.         *)
AcceptableResults(r, e, v) ==
  /\ task.status = "awaiting_acceptance"
  /\ runs[r].status = "active"
  /\ ApprovalsEffective(r)
  /\ artifacts[e] = ExecutionResult(r)
  /\ artifacts[v] = VerificationResult(r, e, "pass")

ReworkImplementation(r, e, v) ==
  /\ AcceptableResults(r, e, v)
  /\ task' = TaskMoved("executing", e, v)
  /\ UNCHANGED <<approvals, runs, roleRuns, artifacts, grants, outbox>>

ReworkUnclassified(r, e, v) ==
  /\ AcceptableResults(r, e, v)
  /\ task' = TaskBlocked("awaiting_acceptance", Nil, Nil)
  /\ runs' = [runs EXCEPT ![r] = RunBlocked(r)]
  /\ UNCHANGED <<approvals, roleRuns, artifacts, grants, outbox>>

(* Mutant: the Task returns upstream while the Run is still stopping.        *)
ReworkUpstreamAtOnce(r, e, v, finding) ==
  /\ AcceptableResults(r, e, v)
  /\ task' = TaskMoved(UpstreamForFinding(finding), Nil, Nil)
  /\ runs' = [runs EXCEPT ![r] = RunStopping(r, "superseded")]
  /\ UNCHANGED <<approvals, roleRuns, artifacts, grants, outbox>>

ReworkUpstream(r, e, v, finding) ==
  /\ AcceptableResults(r, e, v)
  /\ task' = TaskBlocked(UpstreamForFinding(finding), Nil, Nil)
  /\ runs' = [runs EXCEPT ![r] = RunStopping(r, "superseded")]
  /\ UNCHANGED <<approvals, roleRuns, artifacts, grants, outbox>>

AcceptDelivery(r, e, v) ==
  /\ AcceptableResults(r, e, v)
  /\ UnsettledRoleRuns(r) = {}
  /\ task' = TaskClosed("completed", e, v)
  /\ runs' = [runs EXCEPT ![r] = RunSettled(r, "completed")]
  /\ Announce("evidence.export_requested", r)
  /\ UNCHANGED <<approvals, roleRuns, artifacts, grants>>

-----------------------------------------------------------------------------
(* Cancellation and stopping. *)

(* Mutant: a closed Task may be cancelled.                                   *)
CancelClosedTask ==
  /\ UnsettledRuns = {}
  /\ task' = TaskClosed("cancelled", Nil, Nil)
  /\ UNCHANGED <<approvals, runs, roleRuns, artifacts, grants, outbox>>

CancelWithoutRun ==
  /\ task.status # "closed"
  /\ UnsettledRuns = {}
  /\ task' = TaskClosed("cancelled", Nil, Nil)
  /\ UNCHANGED <<approvals, runs, roleRuns, artifacts, grants, outbox>>

(* Whatever the Run's status: no RoleRun is open, so it settles at once, and *)
(* an authorization still asked for is withdrawn.                            *)
CancelIdleRun(r) ==
  LET a == runs[r].authorization
      withdraws == /\ runs[r].status = "awaiting_authorization"
                   /\ approvals[a].status = "pending"
  IN  /\ task.status # "closed"
      /\ r \in UnsettledRuns
      /\ UnsettledRoleRuns(r) = {}
      /\ approvals' = IF withdraws
                      THEN [approvals EXCEPT ![a].status = "withdrawn"]
                      ELSE approvals
      /\ runs' = [runs EXCEPT ![r] = RunSettled(r, "cancelled")]
      /\ task' = TaskClosed("cancelled", Nil, Nil)
      /\ UNCHANGED <<roleRuns, artifacts, grants, outbox>>

(* Mutant: a blocked Task would resume into blocked.                         *)
NestedResume == task.status

(* Where the Task was when it stops: a blocked Task keeps what it recorded.  *)
CancelledFrom == IF task.status = "blocked" THEN task.resume ELSE task.status

CancelBusyRun(r) ==
  /\ task.status # "closed"
  /\ runs[r].status \in {"authorized", "active", "blocked"}
  /\ UnsettledRoleRuns(r) # {}
  /\ task' = TaskBlocked(CancelledFrom, Nil, Nil)
  /\ runs' = [runs EXCEPT ![r] = RunStopping(r, "cancelled")]
  /\ UNCHANGED <<approvals, roleRuns, artifacts, grants, outbox>>

(* Mutant: the RoleRuns of the Run are not waited for.                       *)
StopIsDoneEarly(r, outcome) ==
  /\ task.status = "blocked"
  /\ runs[r].status = "stopping"
  /\ runs[r].pending = outcome

StopIsDone(r, outcome) ==
  /\ task.status = "blocked"
  /\ runs[r].status = "stopping"
  /\ runs[r].pending = outcome
  /\ UnsettledRoleRuns(r) = {}

StopSettles(r, outcome) ==
  /\ StopIsDone(r, outcome)
  /\ runs' = [runs EXCEPT ![r] = RunSettled(r, outcome)]
  /\ UNCHANGED <<approvals, roleRuns, artifacts, grants, outbox>>

FinishCancelledStop(r) ==
  /\ StopSettles(r, "cancelled")
  /\ task' = TaskClosed("cancelled", Nil, Nil)

(* The caller names the state to return to.                                  *)
FinishSupersededStop(r, upstream) ==
  /\ StopSettles(r, "superseded")
  /\ task' = TaskMoved(upstream, Nil, Nil)

-----------------------------------------------------------------------------
(* An Approval of the Task expires, is withdrawn or is revoked. *)

Invalidations == {"expired", "withdrawn", "revoked"}

(* Mutant: an Approval may be withdrawn after it was decided.                *)
MayInvalidateDecided(a, action) ==
  CASE action = "expired" ->
         approvals[a].status = "pending" /\ approvals[a].deadline = "passed"
    [] action = "withdrawn" -> approvals[a].status # "none"
    [] action = "revoked" -> IsEffective(a)

MayInvalidate(a, action) ==
  CASE action = "expired" ->
         approvals[a].status = "pending" /\ approvals[a].deadline = "passed"
    [] action = "withdrawn" -> approvals[a].status = "pending"
    [] action = "revoked" -> IsEffective(a)

Invalidate(a, action) ==
  /\ MayInvalidate(a, action)
  /\ approvals' = [approvals EXCEPT ![a].status = action]
  /\ UNCHANGED <<roleRuns, artifacts, grants>>

(* Where the Task resumes once the work under the Approval has stopped.      *)
ResumeForGate(gate) ==
  IF gate = "trd_approval" THEN "drafting_trd" ELSE "planning"

InvalidateAfterClose(a, action) ==
  /\ a \in OwnApprovals
  /\ task.status = "closed"
  /\ Invalidate(a, action)
  /\ Announce("security.approval_invalidated", a)
  /\ UNCHANGED <<task, runs>>

(* unsettledRunForTask(approval.taskId) is the Run that is stopped, whether  *)
(* or not its manifest names the Approval.                                   *)

(* The Run still waits for authorization: it is rejected, the Task stays.    *)
InvalidateBeforeRun(a, action, r) ==
  /\ a \in OwnApprovals
  /\ task.status # "closed"
  /\ runs[r].status = "awaiting_authorization"
  /\ Invalidate(a, action)
  /\ runs' = [runs EXCEPT ![r] = RunSettled(r, "rejected")]
  /\ UNCHANGED <<task, outbox>>

StoppedByInvalidation == {"authorized", "active", "blocked"}

InvalidateDuringRun(a, action, r) ==
  /\ a \in OwnApprovals
  /\ task.status # "closed"
  /\ runs[r].status \in StoppedByInvalidation
  /\ Invalidate(a, action)
  /\ task' = IF task.status = "blocked" THEN task
             ELSE TaskBlocked(ResumeForGate(approvals[a].gate), Nil, Nil)
  /\ runs' = [runs EXCEPT ![r] = RunStopping(r, "superseded")]
  /\ UNCHANGED outbox

(* Mutant: a blocked Run is taken for one that has stopped.                  *)
NoRunLeftToStop == \A r \in UnsettledRuns : runs[r].status \in {"blocked", "stopping"}

(* No Run is open, or it is stopping already.                                *)
NoRunToStop == \A r \in UnsettledRuns : runs[r].status = "stopping"

InvalidateWithoutRun(a, action) ==
  /\ a \in OwnApprovals
  /\ task.status # "closed"
  /\ NoRunToStop
  /\ Invalidate(a, action)
  /\ task' = IF task.status = "awaiting_trd_approval"
             THEN TaskMoved("drafting_trd", Nil, Nil)
             ELSE TaskBlocked(ResumeForGate(approvals[a].gate), Nil, Nil)
  /\ UNCHANGED <<runs, outbox>>

-----------------------------------------------------------------------------
(* What becomes of an Approval of another Task: the same rules for its row,  *)
(* whatever the Task and the Runs it belongs to.  It may be of the same TRD. *)

RequestElsewhere(a, t, p, deadline) ==
  /\ a \in OtherApprovals
  /\ InsertApproval(a, "trd_approval", t, p, deadline)
  /\ UNCHANGED <<task, runs, roleRuns, artifacts, grants>>

DecideElsewhere(a, p, role, decision) ==
  /\ a \in OtherApprovals
  /\ \E aggregate \in ApprovalStatus : Decide(a, p, role, decision, aggregate)
  /\ UNCHANGED <<task, runs>>

(* No Run but that of the Approval's own Task is stopped.                    *)
InvalidateElsewhere(a, action) ==
  /\ a \in OtherApprovals
  /\ Invalidate(a, action)
  /\ UNCHANGED outbox \/ Announce("security.approval_invalidated", a)
  /\ UNCHANGED <<task, runs>>

-----------------------------------------------------------------------------
(* Artifacts registered by anyone, outbox delivery, and time. *)

(* registerArtifact: no rule ties a result artifact to a RoleRun.            *)
RegisterArtifact(e, content) ==
  /\ content.kind \in RegisteredKinds
  /\ artifacts[e] = NoContent
  /\ InsertArtifact(e, content)
  /\ UNCHANGED <<task, approvals, runs, roleRuns, grants, outbox>>

MarkOutboxDelivered(event) ==
  /\ event \in outbox
  /\ event.type \in DeliveredTypes
  /\ ~event.delivered
  /\ outbox' = (outbox \ {event}) \cup {[event EXCEPT !.delivered = TRUE]}
  /\ UNCHANGED <<task, approvals, runs, roleRuns, artifacts, grants>>

LeaseExpires(x) ==
  /\ roleRuns[x].lease = "live"
  /\ roleRuns[x].status \in ExpiryStatuses
  /\ roleRuns' = [roleRuns EXCEPT ![x].lease = "expired"]
  /\ UNCHANGED <<task, approvals, runs, artifacts, grants, outbox>>

DeadlinePasses(a) ==
  /\ approvals[a].status = "pending"
  /\ approvals[a].deadline = "ahead"
  /\ approvals' = [approvals EXCEPT ![a].deadline = "passed"]
  /\ UNCHANGED <<task, runs, roleRuns, artifacts, grants, outbox>>

-----------------------------------------------------------------------------
(* The next-state relation. *)

DesignCommand ==
  \/ StartContextualization
  \/ \E c \in Contexts : CompleteContextualization(c)
  \/ \E t \in Trds, a \in Approvals, p \in Actors, d \in DeadlineChoices :
       SubmitTrdForApproval(t, a, p, d)

(* returnToStatus of a command *)
ReturnStatus == {"intake", "contextualizing", "drafting_trd"}

ApprovalDecision(a, p, role, decision) ==
  \/ DecideInPart(a, p, role, decision)
  \/ ApproveTrd(a, p, role, decision)
  \/ \E back \in ReturnStatus : RequestTrdChanges(a, p, role, decision, back)
  \/ RejectTrd(a, p, role, decision)
  \/ \E r \in Runs : \/ AuthorizeRun(a, r, p, role, decision)
                     \/ RequestRunChanges(a, r, p, role, decision)
                     \/ RejectRun(a, r, p, role, decision)

RecordApprovalDecision ==
  \E a \in Approvals, p \in Actors, role \in RequiredRoles, decision \in Decisions :
    ApprovalDecision(a, p, role, decision)

(* The inputs of an executor RoleRun are read by no guard.                   *)
InputChoices(role) ==
  IF role = "executor" THEN {{}}
  ELSE {inputs \in SUBSET Registered : Cardinality(inputs) <= MaxInputs}

RunCommand ==
  \/ \E r \in Runs, a \in Approvals, p \in Actors, d \in DeadlineChoices,
        b \in SUBSET {c \in Approvals : IsEffective(c)} :
       SealRunManifest(r, a, b, p, d)
  \/ \E x \in RoleRuns, r \in Runs, role \in RuntimeRoles :
       \E inputs \in InputChoices(role) : PrepareRoleRun(x, r, role, inputs)

SubmitVerification(g, e, v) ==
  \/ SubmitPass(g, e, v)
  \/ SubmitImplementationFailure(g, e, v)
  \/ SubmitBlocked(g, e, v)
  \/ \E f \in UpstreamFindings : SubmitUpstreamFailure(g, e, v, f)

WorkerCommand ==
  \/ \E x \in {y \in RoleRuns : roleRuns[y].status # "none"}, w \in Workers :
       AcquireRoleRunLease(x, w)
  \/ \E g \in grants :
       \/ MarkRoleRunRunning(g)
       \/ \E runtime \in {"completed", "unsuccessful"} :
            MarkRoleRunSettling(g, runtime)
       \/ SettleRoleRun(g)
       \/ BlockRoleRun(g)
       \/ \E e \in Artifacts : SubmitExecutionForVerification(g, e)
       \/ \E e, v \in Artifacts : SubmitVerification(g, e, v)

AcceptanceCommand ==
  \E r \in Runs, e, v \in Artifacts :
    \/ ReworkImplementation(r, e, v)
    \/ ReworkUnclassified(r, e, v)
    \/ \E f \in UpstreamFindings : ReworkUpstream(r, e, v, f)
    \/ AcceptDelivery(r, e, v)

StopCommand ==
  \/ CancelWithoutRun
  \/ \E r \in Runs :
       \/ CancelIdleRun(r)
       \/ CancelBusyRun(r)
       \/ FinishCancelledStop(r)
       \/ \E upstream \in ReturnStatus \cup {"planning"} :
            FinishSupersededStop(r, upstream)

InvalidateApproval ==
  \E a \in Approvals, action \in Invalidations :
    \/ InvalidateAfterClose(a, action)
    \/ InvalidateWithoutRun(a, action)
    \/ \E r \in Runs : \/ InvalidateBeforeRun(a, action, r)
                       \/ InvalidateDuringRun(a, action, r)

(* Results of a sealed Run that may be registered outside its RoleRuns.      *)
ResultContents ==
  LET sealed == {r \in Runs : runs[r].status # "none"}
  IN  {ExecutionResult(r) : r \in sealed}
        \cup {VerificationResult(r, e, vd) : r \in sealed, e \in Artifacts, vd \in Verdicts}

OtherTask ==
  \E a \in OtherApprovals :
    \/ \E t \in Trds, p \in Actors, d \in DeadlineChoices : RequestElsewhere(a, t, p, d)
    \/ \E p \in Actors, role \in RequiredRoles, decision \in Decisions :
         DecideElsewhere(a, p, role, decision)
    \/ \E action \in Invalidations : InvalidateElsewhere(a, action)

Environment ==
  \/ OtherTask
  \/ \E e \in Artifacts, content \in ResultContents : RegisterArtifact(e, content)
  \/ \E event \in outbox : MarkOutboxDelivered(event)
  \/ \E x \in RoleRuns : LeaseExpires(x)
  \/ \E a \in Approvals : DeadlinePasses(a)

Next ==
  \/ DesignCommand
  \/ RecordApprovalDecision
  \/ RunCommand
  \/ WorkerCommand
  \/ AcceptanceCommand
  \/ StopCommand
  \/ InvalidateApproval
  \/ Environment

Spec == Init /\ [][Next]_vars

-----------------------------------------------------------------------------
(* Safety. *)

(* The CHECK constraints of migrations.ts, which no action has for a guard:   *)
(* no command ever writes a row that the database would turn down, so none    *)
(* fails half way for it.                                                     *)
SchemaChecks ==
  /\ task.status = "closed" <=> task.outcome # "none"
  /\ task.status = "blocked" <=> task.resume # "none"
  /\ \A r \in Runs :
       /\ runs[r].status = "settled" <=> runs[r].outcome # "none"
       /\ runs[r].status = "stopping" <=> runs[r].pending # "none"
       /\ runs[r].status = "blocked" <=> runs[r].resume # "none"
  /\ \A x \in RoleRuns :
       /\ roleRuns[x].status = "settled" <=> roleRuns[x].outcome # "none"
       /\ roleRuns[x].lease = "none" <=> roleRuns[x].owner = Nil

WorkingPhases == {"executing", "verifying", "awaiting_acceptance"}

(* The Task and its open Run describe the same phase (design document, "Run   *)
(* and Task correspondence"): no command leaves one of the two behind.        *)
PhaseAgreement ==
  /\ \A r \in Runs :
       /\ runs[r].status = "awaiting_authorization" => task.status = "planning"
       /\ runs[r].status = "authorized" => task.status = "executing"
       /\ runs[r].status = "active" => task.status \in WorkingPhases
       /\ runs[r].status \in {"blocked", "stopping"} => task.status = "blocked"
  /\ task.status \in WorkingPhases =>
       \E r \in Runs : runs[r].status \in {"authorized", "active"}

(* One open Run per Task and one open RoleRun per Run, whose role is the one  *)
(* the Task's phase calls for: executor and verifier never overlap, and       *)
(* nothing runs while a delivery waits for acceptance.                        *)
OneActiveRole ==
  /\ \A r, s \in UnsettledRuns : r = s
  /\ \A r \in Runs :
       /\ \A x, y \in UnsettledRoleRuns(r) : x = y
       /\ runs[r].status \in {"authorized", "active"} =>
            \A x \in UnsettledRoleRuns(r) :
              /\ task.status = PhaseOf(roleRuns[x].role)
              /\ roleRuns[x].status # "blocked"

(* A Run that has settled has no RoleRun left that could still write.         *)
SettledRunIsQuiet ==
  \A r \in Runs : runs[r].status = "settled" => UnsettledRoleRuns(r) = {}

(* Every Approval of the Task that a Run rests on is still effective until    *)
(* the Run is told to stop: a revocation is never overlooked, whatever the    *)
(* Run was doing.  Those of other Tasks are not among them: a Run whose       *)
(* manifest names one goes on when it is revoked.                             *)
RunRestsOnEffectiveApprovals ==
  \A r \in UnsettledRuns :
    /\ runs[r].authorization \in OwnApprovals
    /\ runs[r].status # "stopping" =>
         \A a \in runs[r].prerequisites \cap OwnApprovals : IsEffective(a)
    /\ runs[r].status \in {"authorized", "active", "blocked"} =>
         approvals[runs[r].authorization].status = "approved"

(* The manifest of an open Run binds the Task's present context and TRD, and  *)
(* an Approval of that very TRD, asked for in this Task or in another.        *)
ManifestBindsDesign ==
  \A r \in UnsettledRuns :
    /\ runs[r].context = task.context /\ runs[r].trd = task.trd
    /\ \E a \in runs[r].prerequisites :
         approvals[a].gate = "trd_approval" /\ approvals[a].subject = task.trd

(* An effective Approval was granted by a different person for each required  *)
(* role, none of them the requester, and nobody dissented.                    *)
FourEyes ==
  \A a \in Approvals : approvals[a].status \in Affirmative \cup {"revoked"} =>
    /\ \A role \in RequiredRoles :
         \E d \in approvals[a].decisions :
           d.role = role /\ d.authority # approvals[a].requestedBy
    /\ \A d \in approvals[a].decisions : d.decision \in Affirmative
    /\ \A d, f \in approvals[a].decisions : d.authority = f.authority => d = f

(* A runtime session is open only under the latest lease: a worker that lost  *)
(* its lease to another never becomes the one that runs.                      *)
SessionIsFenced ==
  \A x \in RoleRuns :
    roleRuns[x].status \in {"running", "settling"} =>
      /\ roleRuns[x].session = roleRuns[x].token
      /\ [roleRun |-> x, worker |-> roleRuns[x].owner, token |-> roleRuns[x].token]
           \in grants

(* A completed Task was executed and verified inside one Run by two different *)
(* RoleRuns, and what was accepted is a result of that Run with a PASS.       *)
CompletionIsVerified ==
  task.outcome = "completed" =>
    \E r \in Runs :
      /\ runs[r].outcome = "completed"
      /\ artifacts[task.execution] = ExecutionResult(r)
      /\ artifacts[task.verification] = VerificationResult(r, task.execution, "pass")
      /\ \E x, y \in RoleRunsOf(r) :
           /\ roleRuns[x].role = "executor" /\ roleRuns[x].outcome = "succeeded"
           /\ roleRuns[y].role = "verifier" /\ roleRuns[y].outcome = "succeeded"
           /\ artifacts[roleRuns[y].output].verdict = "pass"

-----------------------------------------------------------------------------
(* Action properties. *)

(* Closing a Task and settling a Run are final: no late command of a worker,  *)
(* an approver or a recovery pass reopens or rewrites them.                   *)
SettledIsFinal ==
  [][/\ task.status = "closed" => UNCHANGED <<task, runs, roleRuns>>
     /\ \A r \in Runs : runs[r].status = "settled" =>
          /\ runs'[r] = runs[r]
          /\ RoleRunsOf(r)' = RoleRunsOf(r)
     /\ \A x \in RoleRuns : roleRuns[x].status = "settled" => roleRuns'[x] = roleRuns[x]
    ]_vars

(* From the step that tells a Run to stop, it is given no RoleRun, no lease   *)
(* and no result any more.                                                    *)
NoNewWorkAfterStop ==
  [][\A r \in Runs : runs[r].status \in {"blocked", "stopping"} =>
       /\ RoleRunsOf(r)' = RoleRunsOf(r)
       /\ \A x \in RoleRunsOf(r) :
            /\ roleRuns'[x].token = roleRuns[x].token
            /\ roleRuns'[x].output = roleRuns[x].output
    ]_vars

(* An Approval that is decided is never decided again: it can only be         *)
(* revoked, and only if it was effective.                                     *)
DecidedOnce ==
  [][\A a \in Approvals :
       /\ approvals[a].status \notin {"none", "pending"} =>
            \/ approvals'[a] = approvals[a]
            \/ /\ IsEffective(a)
               /\ approvals'[a] = [approvals[a] EXCEPT !.status = "revoked"]
       /\ approvals[a].deadline = "passed" =>
            approvals'[a].decisions = approvals[a].decisions
    ]_vars
=============================================================================
