----------------------- MODULE ControlPlanePhaseProofs -----------------------
(* The Task, its open Run and the open RoleRun of that Run agree, for every  *)
(* number of Runs, RoleRuns, workers and leases.                             *)
EXTENDS ControlPlaneProofs

-----------------------------------------------------------------------------
(* The inductive invariant. *)

(* A RoleRun belongs to a Run that was authorized.                           *)
RoleRunsBelong ==
  \A x \in RoleRuns : roleRuns[x].status # "none" =>
    /\ roleRuns[x].run \in Runs
    /\ runs[roleRuns[x].run].status \notin {"none", "awaiting_authorization"}

PhaseInv ==
  /\ PhaseAgreement
  /\ OneActiveRole
  /\ SettledRunIsQuiet
  /\ RoleRunsBelong

(* The Task phase each Run status allows, as PhaseAgreement has it.          *)
Agrees(runStatus, taskStatus) ==
  /\ runStatus = "awaiting_authorization" => taskStatus = "planning"
  /\ runStatus = "authorized" => taskStatus = "executing"
  /\ runStatus = "active" => taskStatus \in WorkingPhases
  /\ runStatus \in {"blocked", "stopping"} => taskStatus = "blocked"

-----------------------------------------------------------------------------
(* The kinds of steps, each with what it must respect. *)

(* Only the Task moves: every open Run agrees with the new status, and a      *)
(* RoleRun that is open is of the role of the new phase.                      *)
LEMMA TaskStepKeepsPhase ==
  ASSUME TypeOK, PhaseInv, UNCHANGED <<runs, roleRuns>>,
         \A r \in Runs : Agrees(runs[r].status, task'.status),
         task'.status \in WorkingPhases =>
           \E r \in Runs : runs[r].status \in {"authorized", "active"},
         \A r \in Runs : runs[r].status \in {"authorized", "active"} =>
           \A x \in UnsettledRoleRuns(r) : task'.status = PhaseOf(roleRuns[x].role)
  PROVE  PhaseInv'
<1>1. PhaseAgreement'
  BY DEF PhaseAgreement, Agrees
<1>2. OneActiveRole'
  BY DEF PhaseInv, OneActiveRole, UnsettledRuns, UnsettledRoleRuns, RoleRunsOf
<1>3. SettledRunIsQuiet' /\ RoleRunsBelong'
  BY DEF PhaseInv, SettledRunIsQuiet, RoleRunsBelong, UnsettledRoleRuns
<1> QED BY <1>1, <1>2, <1>3 DEF PhaseInv

(* The open Run r moves, and the Task with it; RoleRuns stay as they are.     *)
LEMMA RunStepKeepsPhase ==
  ASSUME TypeOK, PhaseInv, NEW r \in UnsettledRuns, NEW row,
         runs' = [runs EXCEPT ![r] = row], UNCHANGED roleRuns,
         row.status \notin {"none", "awaiting_authorization"},
         Agrees(row.status, task'.status),
         task'.status \in WorkingPhases => row.status \in {"authorized", "active"},
         row.status = "settled" => UnsettledRoleRuns(r) = {},
         row.status \in {"authorized", "active"} =>
           \A x \in UnsettledRoleRuns(r) :
             task'.status = PhaseOf(roleRuns[x].role) /\ roleRuns[x].status # "blocked"
  PROVE  PhaseInv'
<1>1. r \in Runs /\ \A s \in UnsettledRuns : s = r
  BY DEF PhaseInv, OneActiveRole, UnsettledRuns
<1>2. runs'[r] = row /\ \A s \in Runs : s # r => runs'[s] = runs[s]
  BY <1>1 DEF TypeOK
<1>3. \A s \in Runs : s # r => runs[s].status \in {"none", "settled"}
  BY <1>1 DEF UnsettledRuns, Unsettled
<1>4. PhaseAgreement'
  BY <1>1, <1>2, <1>3 DEF PhaseAgreement, Agrees
<1>5. \A s \in Runs : UnsettledRoleRuns(s)' = UnsettledRoleRuns(s)
  BY DEF UnsettledRoleRuns
<1>6. \A s \in UnsettledRuns' : s = r
  BY <1>2, <1>3 DEF UnsettledRuns, Unsettled
<1>7. OneActiveRole'
  BY <1>2, <1>3, <1>5, <1>6 DEF PhaseInv, OneActiveRole
<1>8. SettledRunIsQuiet'
  BY <1>2, <1>5 DEF PhaseInv, SettledRunIsQuiet
<1>9. RoleRunsBelong'
  BY <1>2 DEF PhaseInv, RoleRunsBelong
<1> QED BY <1>4, <1>7, <1>8, <1>9 DEF PhaseInv

(* The open Run r settles or stops, and the Task leaves its working phases.   *)
LEMMA RunEndKeepsPhase ==
  ASSUME TypeOK, PhaseInv, NEW r \in UnsettledRuns, NEW row,
         runs' = [runs EXCEPT ![r] = row], UNCHANGED roleRuns,
         \/ row.status = "settled" /\ UnsettledRoleRuns(r) = {}
            /\ task'.status \notin WorkingPhases
         \/ row.status \in {"blocked", "stopping"} /\ task'.status = "blocked"
  PROVE  PhaseInv'
<1>1. Agrees(row.status, task'.status)
  BY DEF Agrees
<1>2. /\ row.status \notin {"none", "awaiting_authorization", "authorized", "active"}
      /\ task'.status \notin WorkingPhases
  BY DEF WorkingPhases
<1> QED BY <1>1, <1>2, RunStepKeepsPhase

(* The open RoleRun x of the open Run r moves, and the Run and the Task may   *)
(* move with it.                                                              *)
LEMMA RoleRunStepKeepsPhase ==
  ASSUME TypeOK, PhaseInv, NEW r \in UnsettledRuns, NEW x \in UnsettledRoleRuns(r),
         NEW row, NEW runRow,
         roleRuns' = [roleRuns EXCEPT ![x] = row],
         runs' = [runs EXCEPT ![r] = runRow],
         row.status # "none", row.run = r, row.role = roleRuns[x].role,
         runRow.status \notin {"none", "awaiting_authorization", "settled"},
         Agrees(runRow.status, task'.status),
         task'.status \in WorkingPhases => runRow.status \in {"authorized", "active"},
         runRow.status \in {"authorized", "active"} /\ row.status # "settled" =>
           task'.status = PhaseOf(row.role) /\ row.status # "blocked"
  PROVE  PhaseInv'
<1>1. r \in Runs /\ \A s \in UnsettledRuns : s = r
  BY DEF PhaseInv, OneActiveRole, UnsettledRuns
<1>2. /\ x \in RoleRuns /\ roleRuns[x].run = r
      /\ \A y \in UnsettledRoleRuns(r) : y = x
  BY <1>1 DEF PhaseInv, OneActiveRole, UnsettledRoleRuns
<1>3. runs'[r] = runRow /\ \A s \in Runs : s # r => runs'[s] = runs[s]
  BY <1>1 DEF TypeOK
<1>4. roleRuns'[x] = row /\ \A y \in RoleRuns : y # x => roleRuns'[y] = roleRuns[y]
  BY <1>2 DEF TypeOK
<1>5. \A s \in Runs : s # r => runs[s].status \in {"none", "settled"}
  BY <1>1 DEF UnsettledRuns, Unsettled
<1>6. PhaseAgreement'
  BY <1>1, <1>3, <1>5 DEF PhaseAgreement, Agrees
<1>7. \A s \in Runs : s # r => UnsettledRoleRuns(s)' = UnsettledRoleRuns(s)
  BY <1>2, <1>4 DEF UnsettledRoleRuns
<1>8. \A y \in UnsettledRoleRuns(r)' : y = x
  BY <1>2, <1>4 DEF UnsettledRoleRuns
<1>9. x \in UnsettledRoleRuns(r)' => row.status # "settled"
  BY <1>4 DEF UnsettledRoleRuns, Unsettled
<1>10. \A s \in UnsettledRuns' : s = r
  BY <1>3, <1>5 DEF UnsettledRuns, Unsettled
<1>11. OneActiveRole'
  <2>1. \A s \in Runs : \A y, z \in UnsettledRoleRuns(s)' : y = z
    BY <1>7, <1>8 DEF PhaseInv, OneActiveRole
  <2>2. \A s \in Runs : runs'[s].status \in {"authorized", "active"} =>
          \A y \in UnsettledRoleRuns(s)' :
            task'.status = PhaseOf(roleRuns'[y].role) /\ roleRuns'[y].status # "blocked"
    BY <1>3, <1>4, <1>5, <1>8, <1>9
  <2> QED BY <1>10, <2>1, <2>2 DEF OneActiveRole, PhaseOf
<1>12. SettledRunIsQuiet'
  BY <1>3, <1>7 DEF PhaseInv, SettledRunIsQuiet
<1>13. RoleRunsBelong'
  BY <1>1, <1>3, <1>4 DEF PhaseInv, RoleRunsBelong
<1> QED BY <1>6, <1>11, <1>12, <1>13 DEF PhaseInv

(* The same when the RoleRun settles and the Run stays active.                *)
LEMMA HandoffKeepsPhase ==
  ASSUME TypeOK, PhaseInv, NEW r \in UnsettledRuns, NEW x \in UnsettledRoleRuns(r),
         NEW row, roleRuns' = [roleRuns EXCEPT ![x] = row], UNCHANGED runs,
         row.status = "settled", row.run = r, row.role = roleRuns[x].role,
         runs[r].status = "active", task'.status \in WorkingPhases
  PROVE  PhaseInv'
<1>1. runs' = [runs EXCEPT ![r] = runs[r]]
  BY DEF TypeOK, UnsettledRuns
<1>2. Agrees(runs[r].status, task'.status)
  BY DEF Agrees
<1> QED BY <1>1, <1>2, RoleRunStepKeepsPhase

(* The same when the Run and the Task stop.                                   *)
LEMMA RoleRunStopKeepsPhase ==
  ASSUME TypeOK, PhaseInv, NEW r \in UnsettledRuns, NEW x \in UnsettledRoleRuns(r),
         NEW row, NEW runRow,
         roleRuns' = [roleRuns EXCEPT ![x] = row],
         runs' = [runs EXCEPT ![r] = runRow],
         row.status \in {"blocked", "settled"}, row.run = r, row.role = roleRuns[x].role,
         runRow.status \in {"blocked", "stopping"}, task'.status = "blocked"
  PROVE  PhaseInv'
<1>1. /\ row.status # "none"
      /\ runRow.status \notin {"none", "awaiting_authorization", "settled", "authorized", "active"}
  OBVIOUS
<1>2. task'.status \notin WorkingPhases
  BY DEF WorkingPhases
<1>3. Agrees(runRow.status, task'.status)
  BY DEF Agrees
<1> QED BY <1>1, <1>2, <1>3, RoleRunStepKeepsPhase

(* An open RoleRun is of an open Run.                                         *)
LEMMA OpenRoleRun ==
  ASSUME TypeOK, PhaseInv, NEW x \in RoleRuns, Unsettled(roleRuns[x].status)
  PROVE  /\ roleRuns[x].run \in UnsettledRuns
         /\ roleRuns[x].run \in Runs
         /\ x \in UnsettledRoleRuns(roleRuns[x].run)
         /\ runs[roleRuns[x].run].status \notin {"none", "awaiting_authorization", "settled"}
<1>1. roleRuns[x].run \in Runs
      /\ runs[roleRuns[x].run].status \notin {"none", "awaiting_authorization"}
  BY DEF PhaseInv, RoleRunsBelong, Unsettled
<1>2. x \in UnsettledRoleRuns(roleRuns[x].run)
  BY DEF UnsettledRoleRuns
<1>3. runs[roleRuns[x].run].status # "settled"
  BY <1>1, <1>2 DEF PhaseInv, SettledRunIsQuiet
<1> QED BY <1>1, <1>2, <1>3 DEF UnsettledRuns, Unsettled

(* Only the open RoleRun x moves, to starting, running, settling or settled.  *)
LEMMA WorkerStepKeepsPhase ==
  ASSUME TypeOK, PhaseInv, NEW x \in RoleRuns, Unsettled(roleRuns[x].status),
         roleRuns[x].status # "blocked", NEW row,
         roleRuns' = [roleRuns EXCEPT ![x] = row], UNCHANGED <<task, runs>>,
         row.status \notin {"none", "blocked"},
         row.run = roleRuns[x].run, row.role = roleRuns[x].role
  PROVE  PhaseInv'
<1> DEFINE r == roleRuns[x].run
<1>1. /\ r \in UnsettledRuns /\ r \in Runs /\ x \in UnsettledRoleRuns(r)
      /\ runs[r].status \notin {"none", "awaiting_authorization", "settled"}
  BY OpenRoleRun
<1>2. runs' = [runs EXCEPT ![r] = runs[r]]
  BY <1>1 DEF TypeOK
<1>3. Agrees(runs[r].status, task'.status)
  BY <1>1 DEF PhaseInv, PhaseAgreement, Agrees
<1>4. task'.status \in WorkingPhases => runs[r].status \in {"authorized", "active"}
  BY <1>1 DEF PhaseInv, PhaseAgreement, OneActiveRole, UnsettledRuns, Unsettled
<1>5. runs[r].status \in {"authorized", "active"} =>
        task'.status = PhaseOf(row.role) /\ row.status # "blocked"
  BY <1>1 DEF PhaseInv, OneActiveRole
<1> QED BY ONLY TypeOK, PhaseInv, <1>1, <1>2, <1>3, <1>4, <1>5, RoleRunStepKeepsPhase,
           roleRuns' = [roleRuns EXCEPT ![x] = row], row.status \notin {"none", "blocked"},
           row.run = roleRuns[x].run, row.role = roleRuns[x].role

-----------------------------------------------------------------------------
(* The actions. *)

(* Before a TRD is approved, and once the Task is closed, no Run is open.     *)
LEMMA NoOpenRun ==
  ASSUME TypeOK, PhaseInv,
         task.status \in {"intake", "contextualizing", "drafting_trd",
                          "awaiting_trd_approval", "closed"}
  PROVE  \A r \in Runs : runs[r].status \in {"none", "settled"}
<1>1. \A r \in Runs : runs[r] \in Run
  BY DEF TypeOK
<1> QED BY <1>1 DEF PhaseInv, PhaseAgreement, WorkingPhases, Run, RunStatus

(* The commands of contextualization and of the TRD keep the phases: no Run *)
(* is open yet.                                                             *)
LEMMA DesignKeepsPhase ==
  TypeOK /\ PhaseInv /\ DesignCommand => PhaseInv'
<1> SUFFICES ASSUME TypeOK, PhaseInv, DesignCommand PROVE PhaseInv'
  OBVIOUS
<1>1. /\ UNCHANGED <<runs, roleRuns>>
      /\ task.status \in {"intake", "contextualizing", "drafting_trd"}
      /\ task'.status \in {"contextualizing", "drafting_trd", "awaiting_trd_approval"}
  <2>1. ASSUME NEW c \in Contexts, CompleteContextualization(c)
        PROVE  task'.status = "drafting_trd"
    BY <2>1 DEF CompleteContextualization, TaskMoved, TypeOK, Task
  <2>2. ASSUME NEW t \in Trds, NEW a \in Approvals, NEW p \in Actors,
               NEW d \in DeadlineChoices, SubmitTrdForApproval(t, a, p, d)
        PROVE  task'.status = "awaiting_trd_approval"
    BY <2>2 DEF SubmitTrdForApproval, TaskMoved, TypeOK, Task
  <2> QED BY <2>1, <2>2, TaskFields
          DEF DesignCommand, StartContextualization, CompleteContextualization,
              SubmitTrdForApproval
<1>2. \A r \in Runs : runs[r].status \in {"none", "settled"}
  BY <1>1, NoOpenRun
<1> QED BY <1>1, <1>2, TaskStepKeepsPhase DEF Agrees, WorkingPhases

(* An Approval decision keeps the phases, in every branch.                  *)
LEMMA DecisionKeepsPhase ==
  TypeOK /\ PhaseInv /\ RecordApprovalDecision => PhaseInv'
<1> SUFFICES ASSUME TypeOK, PhaseInv, NEW a \in Approvals, NEW p \in Actors,
                    NEW role \in RequiredRoles, NEW decision \in Decisions,
                    ApprovalDecision(a, p, role, decision)
             PROVE  PhaseInv'
  BY DEF RecordApprovalDecision
<1>1. CASE DecideInPart(a, p, role, decision)
  BY <1>1 DEF DecideInPart, Decide, PhaseInv, PhaseAgreement, OneActiveRole,
     SettledRunIsQuiet, RoleRunsBelong, UnsettledRuns, UnsettledRoleRuns
<1>2. CASE \/ ApproveTrd(a, p, role, decision)
           \/ \E back \in ReturnStatus : RequestTrdChanges(a, p, role, decision, back)
           \/ RejectTrd(a, p, role, decision)
  <2>1. UNCHANGED <<runs, roleRuns>> /\ task.status = "awaiting_trd_approval"
    BY <1>2 DEF ApproveTrd, RequestTrdChanges, RejectTrd, Decide
  <2>2. \A r \in Runs : runs[r].status \in {"none", "settled"}
    BY <2>1, NoOpenRun
  <2>3. task'.status \notin WorkingPhases
    BY <1>2, TaskFields DEF ApproveTrd, RequestTrdChanges, RejectTrd, ReturnStatus, WorkingPhases
  <2> QED BY <2>1, <2>2, <2>3, TaskStepKeepsPhase DEF Agrees
<1>3. ASSUME NEW r \in Runs,
             \/ AuthorizeRun(a, r, p, role, decision)
             \/ RequestRunChanges(a, r, p, role, decision)
             \/ RejectRun(a, r, p, role, decision)
      PROVE  PhaseInv'
  <2>1. /\ r \in UnsettledRuns /\ task.status = "planning" /\ UNCHANGED roleRuns
        /\ runs[r].status = "awaiting_authorization"
    BY <1>3 DEF AuthorizeRun, RequestRunChanges, RejectRun, AwaitsAuthorization, Decide,
                UnsettledRuns, Unsettled
  <2>2. UnsettledRoleRuns(r) = {}
    BY <2>1 DEF PhaseInv, RoleRunsBelong, UnsettledRoleRuns, Unsettled
  <2>3. CASE AuthorizeRun(a, r, p, role, decision)
    <3>1. task'.status = "executing" /\ RunMoved(r, "authorized").status = "authorized"
      BY <2>3, TaskFields, RunFields DEF AuthorizeRun
    <3> QED BY <2>1, <2>2, <2>3, <3>1, RunStepKeepsPhase DEF AuthorizeRun, Agrees, WorkingPhases
  <2>4. CASE \/ RequestRunChanges(a, r, p, role, decision)
             \/ RejectRun(a, r, p, role, decision)
    <3>1. /\ RunSettled(r, "rejected").status = "settled"
          /\ runs' = [runs EXCEPT ![r] = RunSettled(r, "rejected")]
      BY <2>4, RunFields DEF RequestRunChanges, RejectRun
    <3>2. task'.status \in {"planning", "blocked"}
      BY <2>1, <2>4, TaskFields DEF RequestRunChanges, RejectRun
    <3> QED BY <2>1, <2>2, <3>1, <3>2, RunStepKeepsPhase DEF Agrees, WorkingPhases
  <2> QED BY <1>3, <2>3, <2>4
<1> QED BY <1>1, <1>2, <1>3 DEF ApprovalDecision

(* Sealing, rejecting, and starting a Run and its RoleRuns keep the phases. *)
LEMMA RunCommandKeepsPhase ==
  TypeOK /\ PhaseInv /\ RunCommand => PhaseInv'
<1> SUFFICES ASSUME TypeOK, PhaseInv, RunCommand PROVE PhaseInv'
  OBVIOUS
<1>1. ASSUME NEW r \in Runs, NEW a \in Approvals, NEW p \in Actors,
             NEW d \in DeadlineChoices, NEW b, SealRunManifest(r, a, b, p, d)
      PROVE  PhaseInv'
  <2>1. /\ UNCHANGED <<task, roleRuns>> /\ task.status = "planning"
        /\ runs[r].status = "none" /\ UnsettledRuns = {}
    BY <1>1 DEF SealRunManifest
  <2>2. /\ runs'[r].status = "awaiting_authorization"
        /\ \A s \in Runs : s # r => runs'[s] = runs[s]
    BY <1>1 DEF SealRunManifest, TypeOK
  <2>3. \A s \in Runs : s # r => runs[s].status \in {"none", "settled"}
    BY <2>1 DEF UnsettledRuns, Unsettled
  <2>4. PhaseAgreement'
    BY <2>1, <2>2, <2>3 DEF PhaseAgreement, WorkingPhases
  <2>5. \A s \in Runs : UnsettledRoleRuns(s)' = UnsettledRoleRuns(s)
    BY <2>1 DEF UnsettledRoleRuns
  <2>6. \A s \in UnsettledRuns' : s = r
    BY <2>2, <2>3 DEF UnsettledRuns, Unsettled
  <2>7. OneActiveRole'
    BY <2>1, <2>2, <2>3, <2>5, <2>6 DEF PhaseInv, OneActiveRole
  <2>8. SettledRunIsQuiet'
    BY <2>2, <2>5 DEF PhaseInv, SettledRunIsQuiet
  <2>9. RoleRunsBelong'
    BY <2>1, <2>2 DEF PhaseInv, RoleRunsBelong
  <2> QED BY <2>4, <2>7, <2>8, <2>9 DEF PhaseInv
<1>2. ASSUME NEW x \in RoleRuns, NEW r \in Runs, NEW role \in RuntimeRoles, NEW inputs,
             PrepareRoleRun(x, r, role, inputs)
      PROVE  PhaseInv'
  <2>1. /\ UNCHANGED <<task, runs>> /\ UnsettledRoleRuns(r) = {}
        /\ runs[r].status \in {"authorized", "active"} /\ task.status = PhaseOf(role)
        /\ roleRuns[x].status = "none"
    BY <1>2 DEF PrepareRoleRun, MayPrepare
  <2>2. /\ roleRuns'[x].status = "prepared" /\ roleRuns'[x].run = r
        /\ roleRuns'[x].role = role
        /\ \A y \in RoleRuns : y # x => roleRuns'[y] = roleRuns[y]
    BY <1>2 DEF PrepareRoleRun, NoRoleRun, TypeOK
  <2>3. PhaseAgreement'
    BY <2>1 DEF PhaseInv, PhaseAgreement
  <2>4. UnsettledRoleRuns(r)' = {x}
    BY <2>1, <2>2 DEF UnsettledRoleRuns, Unsettled
  <2>5. \A s \in Runs : s # r => UnsettledRoleRuns(s)' = UnsettledRoleRuns(s)
    BY <2>1, <2>2 DEF UnsettledRoleRuns, Unsettled
  <2>6. \A s \in Runs : s # r => \A y \in UnsettledRoleRuns(s) : roleRuns'[y] = roleRuns[y]
    BY <2>1, <2>2 DEF UnsettledRoleRuns, Unsettled
  <2>7. OneActiveRole'
    <3>1. \A s, q \in UnsettledRuns' : s = q
      BY <2>1 DEF PhaseInv, OneActiveRole, UnsettledRuns
    <3>2. \A s \in Runs : \A y, z \in UnsettledRoleRuns(s)' : y = z
      BY <2>4, <2>5 DEF PhaseInv, OneActiveRole
    <3>3. \A s \in Runs : runs'[s].status \in {"authorized", "active"} =>
            \A y \in UnsettledRoleRuns(s)' :
              task'.status = PhaseOf(roleRuns'[y].role) /\ roleRuns'[y].status # "blocked"
      BY <2>1, <2>2, <2>4, <2>5, <2>6 DEF PhaseInv, OneActiveRole
    <3> QED BY <3>1, <3>2, <3>3 DEF OneActiveRole
  <2>8. SettledRunIsQuiet'
    BY <2>1, <2>5 DEF PhaseInv, SettledRunIsQuiet
  <2>9. RoleRunsBelong'
    BY <2>1, <2>2 DEF PhaseInv, RoleRunsBelong
  <2> QED BY <2>3, <2>7, <2>8, <2>9 DEF PhaseInv
<1> QED BY <1>1, <1>2 DEF RunCommand

(* The RoleRun of a lease that is held is open, and so is its Run.            *)
LEMMA HeldRoleRun ==
  ASSUME TypeOK, PhaseInv, NEW g \in grants, NEW status \in {"starting", "running", "settling"},
         RoleLeaseHeld(g, status)
  PROVE  /\ g.roleRun \in RoleRuns
         /\ roleRuns[g.roleRun].status = status
         /\ Unsettled(roleRuns[g.roleRun].status)
         /\ roleRuns[g.roleRun].run \in Runs
         /\ roleRuns[g.roleRun].run \in UnsettledRuns
         /\ g.roleRun \in UnsettledRoleRuns(roleRuns[g.roleRun].run)
<1>1. g.roleRun \in RoleRuns /\ roleRuns[g.roleRun].status = status
  BY GrantRows DEF RoleLeaseHeld
<1>2. Unsettled(roleRuns[g.roleRun].status)
  BY <1>1 DEF Unsettled
<1> QED BY <1>1, <1>2, OpenRoleRun

(* Every verdict of a verification keeps the phases: the verifier's RoleRun *)
(* ends, and the Task moves or is blocked with the Run.                     *)
LEMMA VerificationKeepsPhase ==
  ASSUME TypeOK, PhaseInv, NEW g \in grants, NEW e \in Artifacts, NEW v \in Artifacts,
         SubmitVerification(g, e, v)
  PROVE  PhaseInv'
<1> DEFINE x == g.roleRun
           r == roleRuns[x].run
           row == RoleRunReleased(x, "settled", "succeeded", v)
<1>1. PICK verdict \in Verdicts : SubmitVerificationResult(g, e, v, verdict)
  BY DEF SubmitVerification, SubmitPass, SubmitImplementationFailure, SubmitBlocked,
         SubmitUpstreamFailure, Verdicts
<1>2. /\ x \in RoleRuns /\ r \in Runs /\ r \in UnsettledRuns /\ x \in UnsettledRoleRuns(r)
  BY <1>1, HeldRoleRun DEF SubmitVerificationResult
<1>3. /\ roleRuns' = [roleRuns EXCEPT ![x] = row] /\ runs[r].status = "active"
      /\ row.status = "settled" /\ row.run = r /\ row.role = roleRuns[x].role
  BY <1>1, <1>2, RoleRunFields DEF SubmitVerificationResult
<1>4. CASE SubmitPass(g, e, v) \/ SubmitImplementationFailure(g, e, v)
  <2>1. UNCHANGED runs
    BY <1>4 DEF SubmitPass, SubmitImplementationFailure
  <2>2. task'.status \in WorkingPhases
    BY <1>4, TaskFields DEF SubmitPass, SubmitImplementationFailure, WorkingPhases
  <2> HIDE DEF row
  <2> QED BY <1>2, <1>3, <2>1, <2>2, HandoffKeepsPhase
<1>5. CASE SubmitBlocked(g, e, v)
  <2>1. runs' = [runs EXCEPT ![r] = RunBlocked(r)] /\ RunBlocked(r).status = "blocked"
    BY <1>2, <1>5, RunFields DEF SubmitBlocked
  <2>2. task'.status = "blocked"
    BY <1>5, TaskFields DEF SubmitBlocked
  <2> HIDE DEF row
  <2> QED BY <1>2, <1>3, <2>1, <2>2, RoleRunStopKeepsPhase
<1>6. CASE \E f \in UpstreamFindings : SubmitUpstreamFailure(g, e, v, f)
  <2>1. /\ runs' = [runs EXCEPT ![r] = RunStopping(r, "superseded")]
        /\ RunStopping(r, "superseded").status = "stopping"
    BY <1>2, <1>6, RunFields DEF SubmitUpstreamFailure
  <2>2. task'.status = "blocked"
    BY <1>6, TaskFields DEF SubmitUpstreamFailure
  <2> HIDE DEF row
  <2> QED BY <1>2, <1>3, <2>1, <2>2, RoleRunStopKeepsPhase
<1> QED BY <1>4, <1>5, <1>6 DEF SubmitVerification

(* Every command a worker sends under its lease keeps the phases.           *)
LEMMA WorkerKeepsPhase ==
  TypeOK /\ PhaseInv /\ WorkerCommand => PhaseInv'
<1>1. ASSUME TypeOK, PhaseInv, NEW x \in RoleRuns, roleRuns[x].status # "none",
             NEW w \in Workers, AcquireRoleRunLease(x, w)
      PROVE  PhaseInv'
  <2> DEFINE r == roleRuns[x].run
             row == [roleRuns[x] EXCEPT !.status = "starting", !.lease = "live",
                                        !.owner = w, !.token = roleRuns[x].token + 1]
  <2>1. /\ Unsettled(roleRuns[x].status) /\ runs[r].status \in {"authorized", "active"}
        /\ UNCHANGED task
    BY <1>1 DEF AcquireRoleRunLease, Leasable, Unsettled
  <2>2. r \in UnsettledRuns /\ r \in Runs /\ x \in UnsettledRoleRuns(r)
    BY <1>1, <2>1, OpenRoleRun
  <2>3. /\ roleRuns' = [roleRuns EXCEPT ![x] = row]
        /\ row.status = "starting" /\ row.run = r /\ row.role = roleRuns[x].role
    BY <1>1 DEF AcquireRoleRunLease, TypeOK, RoleRun
  <2>4. runs' = [runs EXCEPT ![r] = RunMoved(r, "active")] /\ RunMoved(r, "active").status = "active"
    BY <1>1, <2>2, RunFields DEF AcquireRoleRunLease
  <2>5. task'.status = PhaseOf(row.role)
    BY <1>1, <2>1, <2>2, <2>3 DEF PhaseInv, OneActiveRole
  <2> QED BY <1>1, <2>2, <2>3, <2>4, <2>5, RoleRunStepKeepsPhase DEF Agrees, WorkingPhases, PhaseOf
<1>2. ASSUME TypeOK, PhaseInv, NEW g \in grants, MarkRoleRunRunning(g)
      PROVE  PhaseInv'
  <2> DEFINE row == [roleRuns[g.roleRun] EXCEPT !.status = "running", !.session = g.token]
  <2>1. RoleLeaseHeld(g, "starting") /\ UNCHANGED <<task, runs>>
        /\ roleRuns' = [roleRuns EXCEPT ![g.roleRun] = row]
    BY <1>2 DEF MarkRoleRunRunning
  <2>2. g.roleRun \in RoleRuns /\ Unsettled(roleRuns[g.roleRun].status)
        /\ roleRuns[g.roleRun].status = "starting"
    BY <1>2, <2>1, HeldRoleRun
  <2>3. row.status = "running" /\ row.run = roleRuns[g.roleRun].run
        /\ row.role = roleRuns[g.roleRun].role
    BY <1>2, <2>2 DEF TypeOK, RoleRun
  <2> QED BY <1>2, <2>1, <2>2, <2>3, WorkerStepKeepsPhase
<1>3. ASSUME TypeOK, PhaseInv, NEW g \in grants, NEW runtime, MarkRoleRunSettling(g, runtime)
      PROVE  PhaseInv'
  <2> DEFINE row == [roleRuns[g.roleRun] EXCEPT !.status = "settling", !.runtime = runtime]
  <2>1. RoleLeaseHeld(g, "running") /\ UNCHANGED <<task, runs>>
        /\ roleRuns' = [roleRuns EXCEPT ![g.roleRun] = row]
    BY <1>3 DEF MarkRoleRunSettling
  <2>2. g.roleRun \in RoleRuns /\ Unsettled(roleRuns[g.roleRun].status)
        /\ roleRuns[g.roleRun].status = "running"
    BY <1>3, <2>1, HeldRoleRun
  <2>3. row.status = "settling" /\ row.run = roleRuns[g.roleRun].run
        /\ row.role = roleRuns[g.roleRun].role
    BY <1>3, <2>2 DEF TypeOK, RoleRun
  <2> QED BY <1>3, <2>1, <2>2, <2>3, WorkerStepKeepsPhase
<1>4. ASSUME TypeOK, PhaseInv, NEW g \in grants, SettleRoleRun(g)
      PROVE  PhaseInv'
  <2> DEFINE row == RoleRunReleased(g.roleRun, "settled", "unsuccessful", Nil)
  <2>1. RoleLeaseHeld(g, "settling") /\ UNCHANGED <<task, runs>>
        /\ roleRuns' = [roleRuns EXCEPT ![g.roleRun] = row]
    BY <1>4 DEF SettleRoleRun
  <2>2. g.roleRun \in RoleRuns /\ Unsettled(roleRuns[g.roleRun].status)
        /\ roleRuns[g.roleRun].status = "settling"
    BY <1>4, <2>1, HeldRoleRun
  <2>3. row.status = "settled" /\ row.run = roleRuns[g.roleRun].run
        /\ row.role = roleRuns[g.roleRun].role
    BY <1>4, <2>2, RoleRunFields
  <2> QED BY <1>4, <2>1, <2>2, <2>3, WorkerStepKeepsPhase
<1>5. ASSUME TypeOK, PhaseInv, NEW g \in grants, BlockRoleRun(g)
      PROVE  PhaseInv'
  <2> DEFINE x == g.roleRun
             r == roleRuns[x].run
             row == RoleRunReleased(x, "blocked", "none", Nil)
  <2>1. x \in RoleRuns /\ r \in Runs /\ r \in UnsettledRuns /\ x \in UnsettledRoleRuns(r)
    BY <1>5, HeldRoleRun DEF BlockRoleRun
  <2>2. row.status = "blocked" /\ row.run = r /\ row.role = roleRuns[x].role
    BY <1>5, <2>1, RoleRunFields
  <2>3. RunBlocked(r).status = "blocked"
    BY <1>5, <2>1, RunFields
  <2>4. task'.status = "blocked"
    BY <1>5, TaskFields DEF BlockRoleRun
  <2>5. roleRuns' = [roleRuns EXCEPT ![x] = row] /\ runs' = [runs EXCEPT ![r] = RunBlocked(r)]
    BY <1>5 DEF BlockRoleRun
  <2> QED BY <1>5, <2>1, <2>2, <2>3, <2>4, <2>5, RoleRunStopKeepsPhase
<1>6. ASSUME TypeOK, PhaseInv, NEW g \in grants, NEW e \in Artifacts,
             SubmitExecutionForVerification(g, e)
      PROVE  PhaseInv'
  <2> DEFINE x == g.roleRun
             r == roleRuns[x].run
             row == RoleRunReleased(x, "settled", "succeeded", e)
  <2>1. x \in RoleRuns /\ r \in Runs /\ r \in UnsettledRuns /\ x \in UnsettledRoleRuns(r)
    BY <1>6, HeldRoleRun DEF SubmitExecutionForVerification
  <2>2. row.status = "settled" /\ row.run = r /\ row.role = roleRuns[x].role
    BY <1>6, <2>1, RoleRunFields
  <2>3. UNCHANGED runs /\ runs[r].status = "active"
    BY <1>6 DEF SubmitExecutionForVerification
  <2>4. task'.status \in WorkingPhases /\ roleRuns' = [roleRuns EXCEPT ![x] = row]
    BY <1>6, TaskFields DEF SubmitExecutionForVerification, WorkingPhases
  <2> QED BY <1>6, <2>1, <2>2, <2>3, <2>4, HandoffKeepsPhase
<1> QED BY <1>1, <1>2, <1>3, <1>4, <1>5, <1>6, VerificationKeepsPhase DEF WorkerCommand

(* Nothing runs while a delivery waits for acceptance.                        *)
LEMMA QuietAcceptance ==
  ASSUME TypeOK, PhaseInv, task.status = "awaiting_acceptance", NEW r \in Runs,
         runs[r].status = "active"
  PROVE  /\ r \in UnsettledRuns
         /\ UnsettledRoleRuns(r) = {}
         /\ \A s \in Runs : s # r => runs[s].status \in {"none", "settled"}
<1>1. r \in UnsettledRuns
  BY DEF UnsettledRuns, Unsettled
<1>2. UnsettledRoleRuns(r) = {}
  BY DEF PhaseInv, OneActiveRole, PhaseOf
<1>3. \A s \in Runs : s # r => runs[s].status \in {"none", "settled"}
  BY <1>1 DEF PhaseInv, OneActiveRole, UnsettledRuns, Unsettled
<1> QED BY <1>1, <1>2, <1>3

(* Every acceptance decision keeps the phases: the Run it acts on is quiet. *)
LEMMA AcceptanceKeepsPhase ==
  TypeOK /\ PhaseInv /\ AcceptanceCommand => PhaseInv'
<1> SUFFICES ASSUME TypeOK, PhaseInv, NEW r \in Runs, NEW e \in Artifacts, NEW v \in Artifacts,
                    AcceptableResults(r, e, v), UNCHANGED roleRuns,
                    \/ ReworkImplementation(r, e, v)
                    \/ ReworkUnclassified(r, e, v)
                    \/ \E f \in UpstreamFindings : ReworkUpstream(r, e, v, f)
                    \/ AcceptDelivery(r, e, v)
             PROVE  PhaseInv'
  BY DEF AcceptanceCommand, ReworkImplementation, ReworkUnclassified, ReworkUpstream,
         AcceptDelivery
<1>1. /\ r \in UnsettledRuns /\ UnsettledRoleRuns(r) = {} /\ runs[r].status = "active"
      /\ \A s \in Runs : s # r => runs[s].status \in {"none", "settled"}
  BY QuietAcceptance DEF AcceptableResults
<1>2. CASE ReworkImplementation(r, e, v)
  <2>1. UNCHANGED runs /\ task'.status = "executing"
    BY <1>2, TaskFields DEF ReworkImplementation
  <2>2. \A s \in Runs : Agrees(runs[s].status, task'.status)
    BY <1>1, <2>1 DEF Agrees, WorkingPhases
  <2> QED BY <1>1, <2>1, <2>2, TaskStepKeepsPhase
<1>3. CASE \/ ReworkUnclassified(r, e, v)
           \/ \E f \in UpstreamFindings : ReworkUpstream(r, e, v, f)
  <2>1. task'.status = "blocked"
    BY <1>3, TaskFields DEF ReworkUnclassified, ReworkUpstream
  <2>2. PICK row : /\ runs' = [runs EXCEPT ![r] = row]
                   /\ row.status \in {"blocked", "stopping"}
    BY <1>3, RunFields DEF ReworkUnclassified, ReworkUpstream
  <2> QED BY <1>1, <2>1, <2>2, RunEndKeepsPhase
<1>4. CASE AcceptDelivery(r, e, v)
  <2>1. task'.status \notin WorkingPhases
    BY <1>4, TaskFields DEF AcceptDelivery, WorkingPhases
  <2>2. /\ runs' = [runs EXCEPT ![r] = RunSettled(r, "completed")]
        /\ RunSettled(r, "completed").status = "settled"
    BY <1>4, RunFields DEF AcceptDelivery
  <2> QED BY <1>1, <2>1, <2>2, RunEndKeepsPhase
<1> QED BY <1>2, <1>3, <1>4

(* Cancelling, and finishing a stop, keep the phases.                       *)
LEMMA StopKeepsPhase ==
  TypeOK /\ PhaseInv /\ StopCommand => PhaseInv'
<1> SUFFICES ASSUME TypeOK, PhaseInv, StopCommand PROVE PhaseInv'
  OBVIOUS
<1>1. CASE CancelWithoutRun
  <2>1. UNCHANGED <<runs, roleRuns>> /\ task'.status = "closed" /\ UnsettledRuns = {}
    BY <1>1, TaskFields DEF CancelWithoutRun
  <2>2. \A r \in Runs : runs[r].status \in {"none", "settled"}
    BY <2>1 DEF UnsettledRuns, Unsettled
  <2> QED BY <2>1, <2>2, TaskStepKeepsPhase DEF Agrees, WorkingPhases
<1>2. ASSUME NEW r \in Runs, CancelIdleRun(r) \/ FinishCancelledStop(r)
      PROVE  PhaseInv'
  <2>1. r \in UnsettledRuns /\ UnsettledRoleRuns(r) = {} /\ UNCHANGED roleRuns
    BY <1>2 DEF CancelIdleRun, FinishCancelledStop, StopSettles, StopIsDone, UnsettledRuns, Unsettled
  <2>2. /\ runs' = [runs EXCEPT ![r] = RunSettled(r, "cancelled")]
        /\ RunSettled(r, "cancelled").status = "settled"
    BY <1>2, RunFields DEF CancelIdleRun, FinishCancelledStop, StopSettles
  <2>3. task'.status \notin WorkingPhases
    BY <1>2, TaskFields DEF CancelIdleRun, FinishCancelledStop, WorkingPhases
  <2> QED BY <2>1, <2>2, <2>3, RunEndKeepsPhase
<1>3. ASSUME NEW r \in Runs, CancelBusyRun(r)
      PROVE  PhaseInv'
  <2>1. r \in UnsettledRuns /\ UNCHANGED roleRuns
    BY <1>3 DEF CancelBusyRun, UnsettledRuns, Unsettled
  <2>2. /\ runs' = [runs EXCEPT ![r] = RunStopping(r, "cancelled")]
        /\ RunStopping(r, "cancelled").status = "stopping" /\ task'.status = "blocked"
    BY <1>3, RunFields, TaskFields DEF CancelBusyRun
  <2> QED BY <2>1, <2>2, RunEndKeepsPhase
<1>4. ASSUME NEW r \in Runs, NEW u \in ReturnStatus \cup {"planning"},
             FinishSupersededStop(r, u)
      PROVE  PhaseInv'
  <2>1. r \in UnsettledRuns /\ UnsettledRoleRuns(r) = {} /\ UNCHANGED roleRuns
    BY <1>4 DEF FinishSupersededStop, StopSettles, StopIsDone, UnsettledRuns, Unsettled
  <2>2. /\ runs' = [runs EXCEPT ![r] = RunSettled(r, "superseded")]
        /\ RunSettled(r, "superseded").status = "settled"
    BY <1>4, RunFields DEF FinishSupersededStop, StopSettles
  <2>3. task'.status \notin WorkingPhases
    BY <1>4, TaskFields DEF FinishSupersededStop, ReturnStatus, WorkingPhases
  <2> QED BY <2>1, <2>2, <2>3, RunEndKeepsPhase
<1> QED BY <1>1, <1>2, <1>3, <1>4 DEF StopCommand

(* Losing an Approval keeps the phases: an open Run it stops is stopping    *)
(* with the Task blocked.                                                   *)
LEMMA InvalidationKeepsPhase ==
  TypeOK /\ PhaseInv /\ InvalidateApproval => PhaseInv'
<1> SUFFICES ASSUME TypeOK, PhaseInv, NEW a \in Approvals, NEW action \in Invalidations,
                    UNCHANGED roleRuns,
                    \/ InvalidateAfterClose(a, action)
                    \/ InvalidateWithoutRun(a, action)
                    \/ \E r \in Runs : \/ InvalidateBeforeRun(a, action, r)
                                       \/ InvalidateDuringRun(a, action, r)
             PROVE  PhaseInv'
  BY DEF InvalidateApproval, InvalidateAfterClose, InvalidateWithoutRun,
         InvalidateBeforeRun, InvalidateDuringRun, Invalidate
<1>1. CASE InvalidateAfterClose(a, action)
  BY <1>1 DEF InvalidateAfterClose, PhaseInv, PhaseAgreement, OneActiveRole,
     SettledRunIsQuiet, RoleRunsBelong, UnsettledRuns, UnsettledRoleRuns
<1>2. CASE InvalidateWithoutRun(a, action)
  <2>1. UNCHANGED runs /\ \A r \in Runs : runs[r].status \in {"none", "settled", "stopping"}
    BY <1>2 DEF InvalidateWithoutRun, NoRunToStop, UnsettledRuns, Unsettled
  <2>2. task.status = "awaiting_trd_approval" =>
          \A r \in Runs : runs[r].status \in {"none", "settled"}
    BY NoOpenRun
  <2>3. task'.status = IF task.status = "awaiting_trd_approval" THEN "drafting_trd" ELSE "blocked"
    BY <1>2, TaskFields DEF InvalidateWithoutRun
  <2>4. \A r \in Runs : Agrees(runs[r].status, task'.status)
    BY <2>1, <2>2, <2>3 DEF Agrees
  <2>5. task'.status \notin WorkingPhases
    BY <2>3 DEF WorkingPhases
  <2> QED BY <2>1, <2>4, <2>5, TaskStepKeepsPhase
<1>3. ASSUME NEW r \in Runs, InvalidateBeforeRun(a, action, r)
      PROVE  PhaseInv'
  <2>1. r \in UnsettledRuns /\ runs[r].status = "awaiting_authorization" /\ UNCHANGED task
    BY <1>3 DEF InvalidateBeforeRun, UnsettledRuns, Unsettled
  <2>2. UnsettledRoleRuns(r) = {}
    BY <2>1 DEF PhaseInv, RoleRunsBelong, UnsettledRoleRuns, Unsettled
  <2>3. task'.status \notin WorkingPhases
    BY <2>1 DEF PhaseInv, PhaseAgreement, UnsettledRuns, WorkingPhases
  <2>4. /\ runs' = [runs EXCEPT ![r] = RunSettled(r, "rejected")]
        /\ RunSettled(r, "rejected").status = "settled"
    BY <1>3, RunFields DEF InvalidateBeforeRun
  <2> QED BY <2>1, <2>2, <2>3, <2>4, RunEndKeepsPhase
<1>4. ASSUME NEW r \in Runs, InvalidateDuringRun(a, action, r)
      PROVE  PhaseInv'
  <2>1. r \in UnsettledRuns
    BY <1>4 DEF InvalidateDuringRun, StoppedByInvalidation, UnsettledRuns, Unsettled
  <2>2. /\ runs' = [runs EXCEPT ![r] = RunStopping(r, "superseded")]
        /\ RunStopping(r, "superseded").status = "stopping" /\ task'.status = "blocked"
    BY <1>4, RunFields, TaskFields DEF InvalidateDuringRun
  <2> QED BY <2>1, <2>2, RunEndKeepsPhase
<1> QED BY <1>1, <1>2, <1>3, <1>4

(* What happens without a command keeps the phases.                         *)
LEMMA EnvironmentKeepsPhase ==
  TypeOK /\ PhaseInv /\ Environment => PhaseInv'
<1> SUFFICES ASSUME TypeOK, PhaseInv, Environment PROVE PhaseInv'
  OBVIOUS
<1>1. /\ UNCHANGED <<task, runs>>
      /\ \A x \in RoleRuns : /\ roleRuns'[x].status = roleRuns[x].status
                            /\ roleRuns'[x].run = roleRuns[x].run
                            /\ roleRuns'[x].role = roleRuns[x].role
  BY OtherTaskLeaves DEF Environment, RegisterArtifact, MarkOutboxDelivered, LeaseExpires,
         DeadlinePasses, TypeOK, RoleRun
<1>2. \A r \in Runs : UnsettledRoleRuns(r)' = UnsettledRoleRuns(r)
  BY <1>1 DEF UnsettledRoleRuns
<1>3. \A r \in Runs : UnsettledRoleRuns(r) \subseteq RoleRuns
  BY DEF UnsettledRoleRuns
<1>4. PhaseAgreement' /\ SettledRunIsQuiet'
  BY <1>1, <1>2 DEF PhaseInv, PhaseAgreement, SettledRunIsQuiet
<1>5. OneActiveRole'
  BY <1>1, <1>2, <1>3 DEF PhaseInv, OneActiveRole, UnsettledRuns
<1>6. RoleRunsBelong'
  BY <1>1 DEF PhaseInv, RoleRunsBelong
<1> QED BY <1>4, <1>5, <1>6 DEF PhaseInv

(* No step breaks the phases: the induction step of PhaseCorrect.           *)
LEMMA StepKeepsPhase ==
  TypeOK /\ PhaseInv /\ [Next]_vars => PhaseInv'
<1>1. TypeOK /\ PhaseInv /\ UNCHANGED vars => PhaseInv'
  BY DEF vars, PhaseInv, PhaseAgreement, OneActiveRole, SettledRunIsQuiet, RoleRunsBelong,
     UnsettledRuns, UnsettledRoleRuns
<1> QED BY <1>1, DesignKeepsPhase, DecisionKeepsPhase, RunCommandKeepsPhase, WorkerKeepsPhase,
           AcceptanceKeepsPhase, StopKeepsPhase, InvalidationKeepsPhase, EnvironmentKeepsPhase
        DEF Next


(* A Task just created has no Run and no RoleRun.                           *)
LEMMA InitIsIdle == Init => PhaseInv
<1> SUFFICES ASSUME Init PROVE PhaseInv
  OBVIOUS
<1>1. /\ \A r \in Runs : runs[r].status = "none"
      /\ \A x \in RoleRuns : roleRuns[x].status = "none"
      /\ task.status \notin WorkingPhases
  BY DEF Init, NoRun, NoRoleRun, WorkingPhases
<1>2. UnsettledRuns = {}
  BY <1>1 DEF UnsettledRuns, Unsettled
<1>3. \A r \in Runs : UnsettledRoleRuns(r) = {}
  BY <1>1 DEF UnsettledRoleRuns, Unsettled
<1>4. PhaseAgreement
  BY <1>1 DEF PhaseAgreement
<1>5. OneActiveRole
  BY <1>1, <1>2, <1>3 DEF OneActiveRole
<1>6. SettledRunIsQuiet
  BY <1>3 DEF SettledRunIsQuiet
<1>7. RoleRunsBelong
  BY <1>1 DEF RoleRunsBelong
<1> QED BY <1>4, <1>5, <1>6, <1>7 DEF PhaseInv

-----------------------------------------------------------------------------
(* The theorems. *)

(* No step parts the Task from its Run, opens a second role or settles a Run  *)
(* over a RoleRun: the phase invariant is inductive relative to TypeOK.       *)
THEOREM PhaseCorrect == Spec => []PhaseInv
<1>1. Init => PhaseInv
  BY InitIsIdle
<1>2. TypeOK /\ PhaseInv /\ [Next]_vars => PhaseInv'
  BY StepKeepsPhase
<1>3. Spec => []TypeOK
  BY TypeCorrect
<1> QED BY <1>1, <1>2, <1>3, PTL DEF Spec

(* The Task is in a phase its open Run allows: the transition table of        *)
(* writeTaskTransition and writeRunTransition, whose two rows are written by  *)
(* separate statements, is kept by every command.                             *)
THEOREM PhasesAgree == Spec => []PhaseAgreement
<1>1. PhaseInv => PhaseAgreement
  BY DEF PhaseInv
<1> QED BY <1>1, PhaseCorrect, PTL

(* A Task has at most one open Run and a Run at most one open RoleRun, of the *)
(* role of the Task's phase: prepareRoleRun's checks suffice whatever         *)
(* settles, blocks or stops in between.                                       *)
THEOREM OneRoleAtATime == Spec => []OneActiveRole
<1>1. PhaseInv => OneActiveRole
  BY DEF PhaseInv
<1> QED BY <1>1, PhaseCorrect, PTL

(* A settled Run leaves no RoleRun behind that could still take a lease.      *)
THEOREM SettledRunsAreQuiet == Spec => []SettledRunIsQuiet
<1>1. PhaseInv => SettledRunIsQuiet
  BY DEF PhaseInv
<1> QED BY <1>1, PhaseCorrect, PTL

=============================================================================
