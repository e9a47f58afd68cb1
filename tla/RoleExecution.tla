---------------------------- MODULE RoleExecution ----------------------------
(***************************************************************************)
(* The role execution coordinator                                          *)
(* (packages/integration/src/role-execution-coordinator.ts): processes     *)
(* that take one RoleRun of an authorized Run through its life, the agent  *)
(* session they run for it, and what they hand over.                       *)
(*                                                                         *)
(* Composed with the control plane (its actions are the commands of        *)
(* ControlPlane) and with the tool gateway as OperationLedger promises it. *)
(* A step is what a process does between two awaits or two transactions of *)
(* another process: reading the versions and sending the command that      *)
(* expects them are two steps.                                             *)
(***************************************************************************)
EXTENDS ControlPlane

CONSTANTS
  Callers,         \* processes that call execute and verify
  Requests,        \* what they are called with
  Operations,      \* tool calls an executor session may make
  OwnerOf,         \* the RoleRun each belongs to (idempotency key)
  Judgements,      \* verdicts and finding classes a verifier may submit
  RequiredChecks,  \* how many the Manifest requires
  DesignApproval,  \* of the TRD, before the first step
  RunApproval,     \* of the Run, before the first step
  Requester        \* who asked for both

VARIABLES
  versions,        \* of the Task row and of each Run row
  commands,        \* what the commands :prepare and :lease were sent with
  calls,           \* the call each process is in
  operations,      \* the gateway's ledger: status of each Operation
  dispatched,      \* the side effect was handed to a worker
  refs,            \* tool_operation_refs_json of each RoleRun
  checks,          \* check_result Evidence of each verifier
  lost             \* history: Operations whose invoke was rejected

executionVars ==
  <<versions, commands, calls, operations, dispatched, refs, checks, lost>>

allVars == <<vars, executionVars>>

-----------------------------------------------------------------------------

Findings == {"implementation", "trd", "context", "prd", "external", "none"}

Judgement == [verdict: Verdicts, finding: Findings]

Outcomes == {"passed", "failed", "blocked"}

(* How the script of a check ended: with the expected code, with another code *)
(* or by a signal, or not even started.  late: its limit passed before its    *)
(* pipes were closed.                                                        *)
Exits == {"expected", "other", "none"}

Observation == [exit: Exits, late: BOOLEAN]

OutcomeOf(o) ==
  IF o.late \/ o.exit = "none" THEN "blocked"
  ELSE IF o.exit = "expected" THEN "passed" ELSE "failed"

Script == [exit: Exits \cup {"running"}, late: BOOLEAN]

Request ==
  [roleRun: RoleRuns, role: RuntimeRoles, run: Runs, worker: Workers,
   result: Artifacts, executor: RoleRuns \cup {Nil}, execution: Artifacts \cup {Nil}]

(* The step a call takes next.                                               *)
Steps ==
  {"idle", "prepare", "lease", "start", "open", "check", "run", "ended",
   "collect", "submit", "fail", "block"}

(* A process with a live Agent session.                                      *)
SessionSteps == {"check", "run"}

Seen == [task: Nat, run: Nat]

(* What a call has in memory.  token is that of its lease, tool the tool call *)
(* the session awaits, declared the writes the executor says it made, left   *)
(* the checks to run and script the process of the one that runs.            *)
Call ==
  [step: Steps, request: Requests \cup {Nil}, seen: Seen, token: Nat,
   tool: Operations \cup {Nil}, collected: SUBSET Operations,
   settled: SUBSET Operations, unknown: BOOLEAN,
   submissions: 0..2, declared: SUBSET Operations, judgement: Judgement \cup {Nil},
   left: 0..RequiredChecks, script: Script \cup {Nil},
   outcomes: SUBSET Outcomes, timedOut: BOOLEAN,
   runtime: {"completed", "unsuccessful", "none"}]

Final == {"denied", "failed", "succeeded"}

OperationStatus == Final \cup {"none", "authorized", "executing", "unknown"}

(* What the request digests of the two commands cover.                       *)
PrepareCommand ==
  [role: RuntimeRoles, run: Runs, execution: Artifacts \cup {Nil}, seen: Seen]

LeaseCommand == [run: Runs, worker: Workers, seen: Seen]

(* What is told of an Operation is its outcome, from the moment it has one.  *)
Ledger == INSTANCE OperationLedger WITH
  Calls <- Operations, status <- operations,
  told <- [k \in Operations |-> {operations[k]} \cap Final]

OperationsOf(x) == {k \in Operations : OwnerOf[k] = x}

(* execute is given no ExecutionResult, verify is given one and the Executor  *)
(* RoleRun that produced it; it is the verifier's only input.                *)
ASSUME RequestAssumption ==
  /\ Requests \subseteq Request
  /\ \A req \in Requests :
       IF req.role = "executor" THEN req.execution = Nil
       ELSE req.execution # Nil /\ req.executor # Nil
  /\ MaxInputs >= 1

ASSUME ExecutionAssumption ==
  /\ Judgements \subseteq Judgement /\ Nil \notin Judgement
  /\ RequiredChecks \in Nat \ {0}
  /\ Nil \notin Requests \cup Operations \cup PrepareCommand \cup LeaseCommand
  /\ OwnerOf \in [Operations -> RoleRuns]
  /\ DesignApproval \in OwnApprovals /\ RunApproval \in OwnApprovals
  /\ DesignApproval # RunApproval
  /\ Requester \in Actors

(* Rows and calls have their types.                                          *)
ExecutionTypeOK ==
  /\ TypeOK
  /\ versions \in [task: Nat, run: [Runs -> Nat]]
  /\ commands \in [RoleRuns ->
       [prepare: PrepareCommand \cup {Nil}, lease: LeaseCommand \cup {Nil}]]
  /\ calls \in [Callers -> Call]
  /\ operations \in [Operations -> OperationStatus]
  /\ dispatched \in [Operations -> BOOLEAN]
  /\ refs \in [RoleRuns -> SUBSET Operations]
  /\ checks \in [RoleRuns -> SUBSET Observation]
  /\ lost \in SUBSET Operations
  /\ \A c \in Callers : calls[c].step = "idle" <=> calls[c].request = Nil

-----------------------------------------------------------------------------
(* An authorized Run, before any RoleRun. *)

NoCall ==
  [step |-> "idle", request |-> Nil, seen |-> [task |-> 0, run |-> 0],
   token |-> 0, tool |-> Nil, collected |-> {}, settled |-> {},
   unknown |-> FALSE, submissions |-> 0, declared |-> {},
   judgement |-> Nil, left |-> 0, script |-> Nil, outcomes |-> {},
   timedOut |-> FALSE, runtime |-> "none"]

(* One approving decision per required role, by different people.            *)
Unanimous(decisions) ==
  /\ AggregateApproval(decisions) = "approved"
  /\ \A d \in decisions :
       /\ d.role \in RequiredRoles \cap RolesOf[d.authority]
       /\ d.decision = "approved"
       /\ d.authority # Requester
       /\ \A f \in decisions : f.authority = d.authority => f = d

Approved(gate, subject, decisions) ==
  [status |-> "approved", gate |-> gate, subject |-> subject,
   requestedBy |-> Requester, deadline |-> "none", decisions |-> decisions]

(* others: what else its manifest names, of the same TRD in another Task.    *)
AuthorizedRun(r, c, t, others, decisions) ==
  /\ task = [status |-> "executing", outcome |-> "none", resume |-> "none",
             context |-> c, trd |-> t, execution |-> Nil, verification |-> Nil]
  /\ approvals = [a \in Approvals |->
       CASE a = DesignApproval -> Approved("trd_approval", t, decisions)
         [] a = RunApproval -> Approved("run_authorization", r, decisions)
         [] a \in others -> Approved("trd_approval", t, decisions)
         [] OTHER -> NoApproval]
  /\ runs = [s \in Runs |-> IF s # r THEN NoRun ELSE
       [status |-> "authorized", outcome |-> "none", pending |-> "none",
        resume |-> "none", authorization |-> RunApproval,
        prerequisites |-> {DesignApproval} \cup others, context |-> c, trd |-> t]]
  /\ outbox = {[type |-> "approval.requested", id |-> a, delivered |-> TRUE] :
                 a \in {DesignApproval, RunApproval} \cup others}

ExecutionInit ==
  /\ \E r \in Runs, c \in Contexts, t \in Trds,
        others \in SUBSET OtherApprovals, decisions \in SUBSET Decision :
       /\ Unanimous(decisions)
       /\ AuthorizedRun(r, c, t, others, decisions)
  /\ roleRuns = [x \in RoleRuns |-> NoRoleRun]
  /\ artifacts = [e \in Artifacts |-> NoContent]
  /\ grants = {}
  /\ versions = [task |-> 1, run |-> [r \in Runs |-> 1]]
  /\ commands = [x \in RoleRuns |-> [prepare |-> Nil, lease |-> Nil]]
  /\ calls = [c \in Callers |-> NoCall]
  /\ operations = [k \in Operations |-> "none"]
  /\ dispatched = [k \in Operations |-> FALSE]
  /\ refs = [x \in RoleRuns |-> {}]
  /\ checks = [x \in RoleRuns |-> {}]
  /\ lost = {}

-----------------------------------------------------------------------------
(* What the steps of a call share. *)

RoleRunOf(c) == calls[c].request.roleRun

RunOf(c) == calls[c].request.run

(* The RoleRun and the fencing token every command of the call names.        *)
GrantOf(c) ==
  [roleRun |-> RoleRunOf(c), worker |-> calls[c].request.worker,
   token |-> calls[c].token]

Current(r) == [task |-> versions.task, run |-> versions.run[r]]

(* expectedTaskVersion and expectedRunVersion *)
Fresh(c) == calls[c].seen = Current(RunOf(c))

(* Each command that writes a row raises its version.                        *)
Versioned ==
  versions' =
    [task |-> versions.task + (IF task' = task THEN 0 ELSE 1),
     run |-> [r \in Runs |-> versions.run[r] + (IF runs'[r] = runs[r] THEN 0 ELSE 1)]]

(* The call goes on with another step, or with other values in memory.       *)
Continue(c, call) == calls' = [calls EXCEPT ![c] = call]

Goto(c, step) == calls' = [calls EXCEPT ![c].step = step]

(* Mutant: what the call had in memory is still there for the next one.      *)
ReturnDirty(c) == Goto(c, "idle")

(* execute or verify returns.                                                *)
Return(c) == Continue(c, NoCall)

UnchangedLedger == UNCHANGED <<operations, dispatched, lost>>

-----------------------------------------------------------------------------
(* execute and verify, up to a running session. *)

(* verify: the Executor RoleRun it is given produced the ExecutionResult.    *)
ExecutorBound(req) ==
  /\ roleRuns[req.executor].run = req.run
  /\ roleRuns[req.executor].role = "executor"
  /\ roleRuns[req.executor].outcome = "succeeded"
  /\ roleRuns[req.executor].output = req.execution

(* The Task, the Run and the Manifest are read; nothing is locked.           *)
Begin(c, req) ==
  /\ calls[c].step = "idle"
  /\ req.role = "verifier" => ExecutorBound(req)
  /\ Continue(c, [NoCall EXCEPT !.step = "prepare", !.request = req,
                                !.seen = Current(req.run)])
  /\ UNCHANGED <<vars, versions, commands, refs, checks>> /\ UnchangedLedger

InputsOf(req) == {req.execution} \ {Nil}

Preparation(c) ==
  [role |-> calls[c].request.role, run |-> RunOf(c),
   execution |-> calls[c].request.execution, seen |-> calls[c].seen]

Prepare(c) ==
  LET x == RoleRunOf(c)
  IN  /\ calls[c].step = "prepare"
      /\ commands[x].prepare = Nil
      /\ Fresh(c)
      /\ PrepareRoleRun(x, RunOf(c), calls[c].request.role, InputsOf(calls[c].request))
      /\ commands' = [commands EXCEPT ![x].prepare = Preparation(c)]
      /\ Goto(c, "lease")
      /\ Versioned
      /\ UNCHANGED <<refs, checks>> /\ UnchangedLedger

(* The command is known: its stored result is the answer.                    *)
PrepareAgain(c) ==
  /\ calls[c].step = "prepare"
  /\ commands[RoleRunOf(c)].prepare = Preparation(c)
  /\ Goto(c, "lease")
  /\ UNCHANGED <<vars, versions, commands, refs, checks>> /\ UnchangedLedger

Leasing(c) ==
  [run |-> RunOf(c), worker |-> calls[c].request.worker, seen |-> calls[c].seen]

(* expectedRoleRunVersion is that of the RoleRun as prepared: a start whose  *)
(* lease ran out is not taken over here.                                     *)
Lease(c) ==
  LET x == RoleRunOf(c)
  IN  /\ calls[c].step = "lease"
      /\ commands[x].lease = Nil
      /\ Fresh(c)
      /\ roleRuns[x].status = "prepared"
      /\ AcquireRoleRunLease(x, calls[c].request.worker)
      /\ commands' = [commands EXCEPT ![x].lease = Leasing(c)]
      /\ Continue(c, [calls[c] EXCEPT !.step = "start", !.token = roleRuns[x].token + 1])
      /\ Versioned
      /\ UNCHANGED <<refs, checks>> /\ UnchangedLedger

(* The stored result names the token of the first lease.                     *)
LeaseAgain(c) ==
  /\ calls[c].step = "lease"
  /\ commands[RoleRunOf(c)].lease = Leasing(c)
  /\ Continue(c, [calls[c] EXCEPT !.step = "start", !.token = 1])
  /\ UNCHANGED <<vars, versions, commands, refs, checks>> /\ UnchangedLedger

(* The resources are loaded and the session is created.                      *)
StartSession(c) ==
  /\ calls[c].step = "start"
  /\ Goto(c, "open")
  /\ UNCHANGED <<vars, versions, commands, refs, checks>> /\ UnchangedLedger

Prompt(c) ==
  IF calls[c].request.role = "verifier"
  THEN Continue(c, [calls[c] EXCEPT !.step = "check", !.left = RequiredChecks])
  ELSE Goto(c, "run")

(* Mutant: the command is replayed whatever session it names.                *)
OpenAnySession(c) ==
  /\ calls[c].step = "open"
  /\ \/ MarkRoleRunRunning(GrantOf(c))
     \/ roleRuns[RoleRunOf(c)].status = "running" /\ UNCHANGED vars
  /\ Prompt(c)
  /\ Versioned
  /\ UNCHANGED <<commands, refs, checks>> /\ UnchangedLedger

(* The session id is recorded before the first prompt.  A second session for *)
(* the same lease has another id: its command conflicts and it is disposed.  *)
OpenSession(c) ==
  /\ calls[c].step = "open"
  /\ MarkRoleRunRunning(GrantOf(c))
  /\ Prompt(c)
  /\ Versioned
  /\ UNCHANGED <<commands, refs, checks>> /\ UnchangedLedger

-----------------------------------------------------------------------------
(* The session. *)

(* runRequiredChecks: outside the Agent and before its prompt, one script    *)
(* after the other.                                                          *)
Checking(c) == calls[c].step = "check"

ScriptRuns(c) == calls[c].script # Nil /\ calls[c].script.exit = "running"

RunScript(c, script) ==
  /\ Continue(c, [calls[c] EXCEPT !.script = script])
  /\ UNCHANGED <<vars, versions, commands, refs, checks>> /\ UnchangedLedger

SpawnCheck(c) ==
  /\ Checking(c) /\ calls[c].script = Nil
  /\ \E exit \in {"running", "none"} : RunScript(c, [exit |-> exit, late |-> FALSE])

CheckExits(c) ==
  /\ Checking(c) /\ ScriptRuns(c)
  /\ \E exit \in {"expected", "other"} :
       RunScript(c, [calls[c].script EXCEPT !.exit = exit])

(* The limit of the check: kill does nothing to a script that has exited.    *)
CheckIsLate(c) ==
  /\ Checking(c) /\ calls[c].script # Nil
  /\ ~calls[c].script.late
  /\ RunScript(c, [exit |-> IF ScriptRuns(c) THEN "other"
                            ELSE calls[c].script.exit,
                    late |-> TRUE])

(* close: the observation is stored, and after the last the Agent prompted.  *)
CheckCloses(c) ==
  LET script == calls[c].script
      left == calls[c].left - 1
  IN  /\ Checking(c) /\ script # Nil /\ ~ScriptRuns(c)
      /\ checks' = [checks EXCEPT ![RoleRunOf(c)] = @ \cup {script}]
      /\ Continue(c, [calls[c] EXCEPT
           !.script = Nil, !.left = left, !.outcomes = @ \cup {OutcomeOf(script)},
           !.step = IF left = 0 THEN "run" ELSE "check"])
      /\ UNCHANGED <<vars, versions, commands, refs>> /\ UnchangedLedger

(* assurance_check_failed: a check is not valid or its Evidence not stored;  *)
(* the session is disposed without a prompt.                                 *)
ChecksThrow(c) ==
  /\ Checking(c) /\ ~ScriptRuns(c)
  /\ Continue(c, [calls[c] EXCEPT !.step = "ended", !.runtime = "unsuccessful",
                                  !.script = Nil, !.outcomes = {}])
  /\ UNCHANGED <<vars, versions, commands, refs, checks>> /\ UnchangedLedger

(* The Agent works on: no tool call is awaited.                              *)
Prompted(c) == calls[c].step = "run" /\ calls[c].tool = Nil

CallTool(c, k) ==
  /\ Prompted(c)
  /\ OwnerOf[k] = RoleRunOf(c)
  /\ operations[k] = "none" /\ k \notin lost
  /\ ~calls[c].timedOut
  /\ Continue(c, [calls[c] EXCEPT !.tool = k])
  /\ UNCHANGED <<vars, versions, commands, refs, checks>> /\ UnchangedLedger

(* Mutant: only a call that succeeded is collected.                          *)
ToolReturnsWithSuccess(c) ==
  LET k == calls[c].tool
  IN  /\ k # Nil
      /\ operations[k] \in Final \cup {"unknown"}
      /\ Continue(c, [calls[c] EXCEPT !.tool = Nil,
           !.collected = @ \cup {o \in {k} : operations[o] = "succeeded"}])
      /\ UNCHANGED <<vars, versions, commands, refs, checks>> /\ UnchangedLedger

(* GatewayRuntimeToolCollector: the id is known once invoke has returned.    *)
ToolReturns(c) ==
  LET k == calls[c].tool
  IN  /\ k # Nil
      /\ operations[k] \in Final \cup {"unknown"}
      /\ Continue(c, [calls[c] EXCEPT !.tool = Nil, !.collected = @ \cup {k}])
      /\ UNCHANGED <<vars, versions, commands, refs, checks>> /\ UnchangedLedger

(* invoke throws: the row changed concurrently, or the ledger cannot be      *)
(* written.  The Agent is told of an error, the collector of nothing.        *)
ToolRejects(c) ==
  LET k == calls[c].tool
  IN  /\ k # Nil
      /\ Continue(c, [calls[c] EXCEPT !.tool = Nil])
      /\ lost' = lost \cup {k}
      /\ UNCHANGED <<vars, versions, commands, refs, checks, operations, dispatched>>

(* SingleSubmissionCollector: a second submission spoils the first.          *)
ReportExecution(c, declared) ==
  /\ Prompted(c)
  /\ calls[c].request.role = "executor"
  /\ \/ /\ calls[c].submissions = 0
        /\ Continue(c, [calls[c] EXCEPT !.submissions = 1, !.declared = declared])
     \/ /\ calls[c].submissions = 1
        /\ Continue(c, [calls[c] EXCEPT !.submissions = 2, !.declared = {}])
  /\ UNCHANGED <<vars, versions, commands, refs, checks>> /\ UnchangedLedger

ReportVerification(c, judgement) ==
  /\ Prompted(c)
  /\ calls[c].request.role = "verifier"
  /\ \/ /\ calls[c].submissions = 0
        /\ Continue(c, [calls[c] EXCEPT !.submissions = 1, !.judgement = judgement])
     \/ /\ calls[c].submissions = 1
        /\ Continue(c, [calls[c] EXCEPT !.submissions = 2, !.judgement = Nil])
  /\ UNCHANGED <<vars, versions, commands, refs, checks>> /\ UnchangedLedger

(* The RolePlan's limit: the session is told to abort.                       *)
TimerFires(c) ==
  /\ calls[c].step = "run"
  /\ ~calls[c].timedOut
  /\ Continue(c, [calls[c] EXCEPT !.timedOut = TRUE])
  /\ UNCHANGED <<vars, versions, commands, refs, checks>> /\ UnchangedLedger

(* Mutant: what the session says it ended with is taken for granted.         *)
RunEndsAsToldTo(c, runtime) ==
  /\ Prompted(c)
  /\ Continue(c, [calls[c] EXCEPT !.step = "ended", !.runtime = runtime])
  /\ UNCHANGED <<vars, versions, commands, refs, checks>> /\ UnchangedLedger

(* runRuntime: whatever session.run returns or throws after the timer fired  *)
(* is an abort.  The session is disposed.                                    *)
RunEnds(c, runtime) ==
  /\ Prompted(c)
  /\ calls[c].timedOut => runtime = "unsuccessful"
  /\ Continue(c, [calls[c] EXCEPT !.step = "ended", !.runtime = runtime])
  /\ UNCHANGED <<vars, versions, commands, refs, checks>> /\ UnchangedLedger

-----------------------------------------------------------------------------
(* From the end of the session to the end of the call. *)

Unprompted(c) == calls[c].request.role = "verifier" /\ calls[c].outcomes = {}

(* failRole needs no more than the lease.                                    *)
LeaseOnly(c) ==
  [NoCall EXCEPT !.step = "fail", !.request = calls[c].request,
                 !.token = calls[c].token]

MarkSettling(c) ==
  /\ calls[c].step = "ended"
  /\ MarkRoleRunSettling(GrantOf(c), calls[c].runtime)
  /\ refs' = [refs EXCEPT ![RoleRunOf(c)] = calls[c].collected]
  /\ IF Unprompted(c) THEN Continue(c, LeaseOnly(c)) ELSE Goto(c, "collect")
  /\ Versioned
  /\ UNCHANGED <<commands, checks>> /\ UnchangedLedger

(* Mutant: an Operation whose outcome stays unknown is waited for.           *)
SettleFinalOperation(c, k) ==
  /\ calls[c].step = "collect"
  /\ k \in calls[c].collected \ calls[c].settled
  /\ operations[k] \in Final
  /\ Continue(c, [calls[c] EXCEPT !.settled = @ \cup {k}])
  /\ UNCHANGED <<vars, versions, commands, refs, checks>> /\ UnchangedLedger

(* settleToolEvidence, for one Operation: what reconciliation left of it.    *)
SettleOperation(c, k) ==
  /\ calls[c].step = "collect"
  /\ k \in calls[c].collected \ calls[c].settled
  /\ operations[k] \in Final \cup {"unknown"}
  /\ Continue(c, [calls[c] EXCEPT
       !.settled = @ \cup {k},
       !.unknown = @ \/ operations[k] = "unknown"])
  /\ UNCHANGED <<vars, versions, commands, refs, checks>> /\ UnchangedLedger

ActuallyChanged(c) == {k \in calls[c].collected : operations[k] = "succeeded"}

Failable == {"implementation", "trd", "context", "prd"}

(* Mutant: the outcome of the checks is left to the verifier.                *)
SealableByVerdict(outcomes, j) ==
  /\ j.verdict = "pass" => j.finding = "none"
  /\ j.verdict = "fail" => j.finding \in Failable
  /\ j.verdict = "blocked" => j.finding = "external"

(* sealVerification                                                          *)
Sealable(outcomes, j) ==
  /\ j.verdict = "pass" => outcomes = {"passed"} /\ j.finding = "none"
  /\ "blocked" \in outcomes => j.verdict = "blocked"
  /\ "failed" \in outcomes => j.verdict = "fail"
  /\ j.verdict = "fail" => j.finding \in Failable
  /\ j.verdict = "blocked" => j.finding = "external"

(* One valid submission that agrees with what was observed.                  *)
MayHandOver(c) ==
  /\ calls[c].runtime = "completed"
  /\ calls[c].submissions = 1
  /\ IF calls[c].request.role = "executor"
     THEN calls[c].declared = ActuallyChanged(c)
     ELSE Sealable(calls[c].outcomes, calls[c].judgement)

Collected(c) == calls[c].step = "collect" /\ calls[c].settled = calls[c].collected

(* The Task and the Run are read again, for the command that follows.        *)
Reread(c, step) ==
  /\ Continue(c, [calls[c] EXCEPT !.step = step, !.seen = Current(RunOf(c))])
  /\ UNCHANGED <<vars, versions, commands, refs, checks>> /\ UnchangedLedger

(* An unknown Operation comes first, whatever the Runtime ended with.        *)
DecideToBlock(c) == Collected(c) /\ calls[c].unknown /\ Reread(c, "block")

DecideToHandOver(c) ==
  /\ Collected(c) /\ ~calls[c].unknown
  /\ MayHandOver(c)
  /\ Reread(c, "submit")

(* Evidence of the verdict that cannot be stored fails the verifier, too.    *)
DecideToFail(c) ==
  /\ Collected(c) /\ ~calls[c].unknown
  /\ calls[c].request.role = "executor" => ~MayHandOver(c)
  /\ Continue(c, LeaseOnly(c))
  /\ UNCHANGED <<vars, versions, commands, refs, checks>> /\ UnchangedLedger

(* The rest of a step that sends the last command of a call.                 *)
Finish(c) ==
  /\ Return(c)
  /\ Versioned
  /\ UNCHANGED <<commands, refs, checks>> /\ UnchangedLedger

HandOverExecution(c) ==
  /\ calls[c].step = "submit"
  /\ Fresh(c)
  /\ SubmitExecutionForVerification(GrantOf(c), calls[c].request.result)
  /\ Finish(c)

(* submitVerificationResult routes by verdict and finding class.             *)
Route(g, e, v, j) ==
  \/ j.verdict = "pass" /\ SubmitPass(g, e, v)
  \/ j.verdict = "blocked" /\ SubmitBlocked(g, e, v)
  \/ /\ j.verdict = "fail"
     /\ \/ j.finding = "implementation" /\ SubmitImplementationFailure(g, e, v)
        \/ /\ j.finding \in UpstreamFindings
           /\ SubmitUpstreamFailure(g, e, v, j.finding)

HandOverVerification(c) ==
  /\ calls[c].step = "submit"
  /\ Fresh(c)
  /\ calls[c].request.role = "verifier"
  /\ Route(GrantOf(c), calls[c].request.execution, calls[c].request.result,
           calls[c].judgement)
  /\ Finish(c)

(* failRole *)
Fail(c) ==
  /\ calls[c].step = "fail"
  /\ SettleRoleRun(GrantOf(c))
  /\ Finish(c)

(* blockRole *)
Block(c) ==
  /\ calls[c].step = "block"
  /\ Fresh(c)
  /\ BlockRoleRun(GrantOf(c))
  /\ Finish(c)

(* A command is refused, a store cannot be written, startRuntime or          *)
(* reconcile throws: the error passes out of execute or verify, which does   *)
(* nothing about the RoleRun.  While a session runs every error is caught.   *)
Throw(c) ==
  /\ calls[c].step \notin {"idle"} \cup SessionSteps
  /\ Return(c)
  /\ UNCHANGED <<vars, versions, commands, refs, checks>> /\ UnchangedLedger

(* The process dies, and its session with it.                                *)
Crash(c) ==
  /\ calls[c].step # "idle"
  /\ Return(c)
  /\ UNCHANGED <<vars, versions, commands, refs, checks>> /\ UnchangedLedger

-----------------------------------------------------------------------------
(* Around the coordinator. *)

(* The gateway: an awaited call is permitted or denied and carried out; its  *)
(* worker, or whoever reconciles the Operation, settles it later.            *)
GatewayStep(k) ==
  /\ \/ /\ \E c \in Callers : calls[c].tool = k
        /\ Ledger!Permit(k) \/ Ledger!Deny(k) \/ Ledger!Dispatch(k)
     \/ Ledger!Withdraw(k)
     \/ Ledger!LoseTrack(k)
     \/ \E outcome \in {"failed", "succeeded"} : Ledger!Settle(k, outcome)
  /\ UNCHANGED <<vars, versions, commands, calls, refs, checks, lost>>

(* What others do to the Run, or to an Approval it rests on, meanwhile.      *)
OtherCommand ==
  \E r \in Runs :
    \/ CancelIdleRun(r)
    \/ CancelBusyRun(r)
    \/ FinishCancelledStop(r)
    \/ \E a \in Approvals : \/ InvalidateDuringRun(a, "revoked", r)
                            \/ InvalidateElsewhere(a, "revoked")
    \/ \E e, v \in Artifacts : \/ ReworkImplementation(r, e, v)
                               \/ AcceptDelivery(r, e, v)

Elsewhere ==
  /\ OtherCommand \/ \E x \in RoleRuns : LeaseExpires(x)
  /\ Versioned
  /\ UNCHANGED <<commands, calls, refs, checks>> /\ UnchangedLedger

-----------------------------------------------------------------------------
(* The candidate Evidence package of a delivery that waits for acceptance.    *)

Exported(r) == UNION {refs[x] : x \in RoleRunsOf(r)}

LedgerOf(r) == {k \in Operations : operations[k] # "none" /\ roleRuns[OwnerOf[k]].run = r}

ApprovalsAreOwn(r) ==
  runs[r].prerequisites \cup {runs[r].authorization} \subseteq OwnApprovals

(* Mutant: an Operation that was denied or failed is not exported.            *)
PackageableIfSucceeded(r) ==
  /\ task.status = "awaiting_acceptance" /\ runs[r].status = "active"
  /\ \A x \in RoleRunsOf(r) : roleRuns[x].status = "settled"
  /\ \A role \in RuntimeRoles : \E x \in Attempts(r, role) :
       roleRuns[x].outcome = "succeeded"
  /\ ApprovalsEffective(r) /\ ApprovalsAreOwn(r)
  /\ Exported(r) = LedgerOf(r)
  /\ \A k \in Exported(r) : operations[k] = "succeeded"

(* build accepts the Run: its RoleRuns and Operations are settled, both roles *)
(* succeeded, its Approvals stand and are the Task's own, and the Operations  *)
(* the RoleRuns name are those of the gateway's ledger.                       *)
Packageable(r) ==
  /\ task.status = "awaiting_acceptance" /\ runs[r].status = "active"
  /\ \A x \in RoleRunsOf(r) : roleRuns[x].status = "settled"
  /\ \A role \in RuntimeRoles : \E x \in Attempts(r, role) :
       roleRuns[x].outcome = "succeeded"
  /\ ApprovalsEffective(r) /\ ApprovalsAreOwn(r)
  /\ Exported(r) = LedgerOf(r)
  /\ \A k \in Exported(r) : operations[k] \in Final

-----------------------------------------------------------------------------
(* The next-state relation. *)

Start(c) ==
  \/ Prepare(c)
  \/ PrepareAgain(c)
  \/ Lease(c)
  \/ LeaseAgain(c)
  \/ StartSession(c)
  \/ OpenSession(c)

Session(c) ==
  \/ SpawnCheck(c)
  \/ CheckExits(c)
  \/ CheckIsLate(c)
  \/ CheckCloses(c)
  \/ ChecksThrow(c)
  \/ ToolReturns(c)
  \/ ToolRejects(c)
  \/ \E runtime \in {"completed", "unsuccessful"} : RunEnds(c, runtime)

Conclude(c) ==
  \/ MarkSettling(c)
  \/ \E k \in Operations : SettleOperation(c, k)
  \/ DecideToBlock(c)
  \/ DecideToHandOver(c)
  \/ DecideToFail(c)
  \/ HandOverExecution(c)
  \/ HandOverVerification(c)
  \/ Fail(c)
  \/ Block(c)

(* What the Agent chooses to do.                                             *)
Agent(c) ==
  \/ \E k \in Operations : CallTool(c, k)
  \/ \E declared \in SUBSET OperationsOf(RoleRunOf(c)) : ReportExecution(c, declared)
  \/ \E judgement \in Judgements : ReportVerification(c, judgement)

ExecutionNext ==
  \/ \E c \in Callers :
       \/ \E req \in Requests : Begin(c, req)
       \/ Start(c)
       \/ Session(c)
       \/ calls[c].step = "run" /\ Agent(c)
       \/ TimerFires(c)
       \/ Conclude(c)
       \/ Throw(c)
       \/ Crash(c)
  \/ \E k \in Operations : GatewayStep(k)
  \/ Elsewhere

ExecutionSpec == ExecutionInit /\ [][ExecutionNext]_allVars

(* What a process does of its own accord.  An Agent that was told to abort   *)
(* ends its run, one that was not may take as long as it likes; an error is  *)
(* counted on only where a command may be refused.                           *)
Work(c) ==
  \/ Start(c)
  \/ SpawnCheck(c) \/ CheckIsLate(c) \/ CheckCloses(c)
  \/ ToolReturns(c)
  \/ TimerFires(c)
  \/ calls[c].timedOut /\ RunEnds(c, "unsuccessful")
  \/ Conclude(c)
  \/ calls[c].step \notin {"start", "collect"} /\ Throw(c)

(* The gateway answers a call, if only that its outcome is unknown.          *)
Answer(k) ==
  /\ \E c \in Callers : calls[c].tool = k
  /\ operations[k] \notin Final \cup {"unknown"}
  /\ GatewayStep(k)

ExecutionFairness ==
  /\ \A c \in Callers : WF_allVars(Work(c))
  /\ \A k \in Operations : WF_allVars(Answer(k))

FairExecutionSpec == ExecutionSpec /\ ExecutionFairness
-----------------------------------------------------------------------------
(* Properties. *)

InSession(c) == calls[c].step \in SessionSteps

(* However often execute and verify are called, again after a crash or at the *)
(* same time in another process, one Agent session is live at a time, and the *)
(* RoleRun it works for is running.                                           *)
OneSession ==
  \A c, d \in Callers : InSession(c) =>
    /\ roleRuns[RoleRunOf(c)].status = "running"
    /\ InSession(d) => c = d

(* A RoleRun that has settled, with whatever outcome, leaves no Operation     *)
(* behind whose result is not known: each is final and among its refs, unless *)
(* its invoke was rejected.  A time-out, an abort or a failed submission does *)
(* not hide one.                                                              *)
SettledOperationsAreKnown ==
  \A k \in Operations \ lost :
    roleRuns[OwnerOf[k]].status = "settled" /\ operations[k] # "none" =>
      operations[k] \in Final /\ k \in refs[OwnerOf[k]]

(* A Task waits for acceptance, or is completed, only after a verifier with  *)
(* recorded checks whose scripts all exited by themselves, with the expected *)
(* code and within their limits, however exits, limits and closing pipes     *)
(* raced.                                                                    *)
AcceptanceRestsOnChecks ==
  task.status = "awaiting_acceptance" \/ task.outcome = "completed" =>
    \E x \in RoleRuns :
      /\ roleRuns[x].role = "verifier" /\ roleRuns[x].outcome = "succeeded"
      /\ roleRuns[x].output = task.verification
      /\ checks[x] = {[exit |-> "expected", late |-> FALSE]}

(* A Run that waits for acceptance can be exported, over three stores that no *)
(* transaction covers together, except for one of whose Operations the        *)
(* coordinator was never told, which comparing the refs with the ledger finds, *)
(* and one whose manifest names an Approval of another Task: the control      *)
(* plane takes it as far as acceptance and the package refuses it.            *)
DeliveryIsPackageable ==
  \A r \in Runs :
    task.status = "awaiting_acceptance" /\ Unsettled(runs[r].status) =>
      (Packageable(r) <=> lost \cap LedgerOf(r) = {} /\ ApprovalsAreOwn(r))

(* The call that hands over the result of x in this step.                     *)
HandsOver(c, x) ==
  /\ RoleRunOf(c) = x
  /\ calls[c].step = "submit"
  /\ calls'[c].step = "idle"

(* A RoleRun succeeds only by a call that ran to its end within the time      *)
(* limit, with one submission, and only on the Task and Run rows its lease    *)
(* was taken on: although the versions are read again before the submission,  *)
(* no cancellation, revocation of the Task's own Approvals or other result    *)
(* slips in between.                                                          *)
HandoffRestsOnLease ==
  [][\A x \in RoleRuns :
       roleRuns[x].outcome # "succeeded" /\ roleRuns'[x].outcome = "succeeded" =>
         \E c \in Callers :
           /\ calls[c].step # "idle" /\ HandsOver(c, x)
           /\ ~calls[c].timedOut /\ calls[c].submissions = 1
           /\ versions.task = commands[x].lease.seen.task
           /\ versions.run[RunOf(c)] - commands[x].lease.seen.run \in {0, 1}
    ]_allVars

(* Every call of execute or verify comes to an end, whatever the Agent, the   *)
(* gateway and the other processes do.                                        *)
EveryExecutionEnds ==
  \A c \in Callers : calls[c].step # "idle" ~> calls[c].step = "idle"

(* No result is handed over while an Operation of its RoleRun is unknown      *)
(* (docs/design/executor-verifier-assurance-v0.1.md, acceptance condition 3). *)
NoHandoffOverUnknown ==
  [][\A x \in RoleRuns :
       roleRuns[x].outcome # "succeeded" /\ roleRuns'[x].outcome = "succeeded" =>
         \A k \in OperationsOf(x) : operations[k] \in Final \cup {"none"}
    ]_allVars
=============================================================================
