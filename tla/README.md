# EMI Harness in TLA+

A TLA+ development of the parts of the EMI Harness whose correctness rests on
order, interleaving and failure: the control plane that owns a Task, the tool
gateway that carries out an Agent's side effects, the coordinator that runs an
Agent session between the two, the protocol by which callers reach the durable
stores, and the session's event delivery. Paths are those of the repository,
found here under `src/`.

1. [The system](#1-the-system)
2. [Modules](#2-modules)
3. [The control plane](#3-the-control-plane)
4. [The tool gateway](#4-the-tool-gateway)
5. [Role execution](#5-role-execution)
6. [Stores and commands](#6-stores-and-commands)
7. [The runtime session](#7-the-runtime-session)
8. [Runs](#8-runs)
9. [Proofs](#9-proofs)
10. [Where the code and its documents disagree](#10-where-the-code-and-its-documents-disagree)
11. [What is not modelled](#11-what-is-not-modelled)
12. [Plan](#12-plan)

## 1. The system

EMI Harness lets people hand a Task to Agents under control: a design is
written and approved, a Run is sealed and authorized, an executor RoleRun does
the work in a Pi runtime session whose tools go through a gateway, a verifier
RoleRun judges the result, and a person accepts it. It is a TypeScript
monorepo; each package below `packages/` is a component.

| Component | State it keeps | Operations | What is hard |
|---|---|---|---|
| **Control plane** (`control-plane`) | SQLite: Task, Approvals with decisions, Runs with sealed manifests, RoleRuns with leases, artifacts, transition log, command table, outbox | 21 commands, each one `BEGIN IMMEDIATE` transaction with expected versions; `planRecovery`, `assertRoleRunMayExecute` (reads) | Approvers, workers, the user and recovery act on the same rows in any order; leases run out; Approvals are revoked while a worker runs; a Run stops while a RoleRun is open |
| **Tool gateway** (`tool-gateway`) | SQLite ledger: Operation, Decision, Intent, Result; per process: `activeInvocations` | `invoke`, `reconcile` | Several processes on one ledger, a crash between any two commits, time-outs that leave the outcome open, authority that is lost between check and use |
| **Workspace worker** (`tool-gateway/worker`) | one file of the workspace | inspect, rename, verify | It outlives its parent; others edit the file between its comparison and its rename |
| **Role execution coordinator** (`integration`) | none of its own | `execute`, `verify`; submission tools | A crash, a time-out, a failing tool and a lost lease race one another; the versions its last command expects are read again after the session; two processes may run the same RoleRun |
| **Candidate evidence package** (`integration`) | none | a digest-bound export for acceptance | It reads three stores that change meanwhile |
| **Assurance** (`assurance`) | SQLite evidence store | run checks, put evidence, seal a verdict | A check's exit, limit and pipes race; which verdicts the outcomes admit; two writers of one evidence id |
| **Pi runtime session** (`runtime-pi`) | session phase, delivery chain | run, abort, subscribe, dispose | Events go on while a run settles; listeners come, go and fail; abort and dispose at any time |
| **Resource registry** (`resource-registry`) | files, read only | load and validate | none: no state changes |
| **Event mapping, canonical JSON, migrations, scripts** | none | pure functions and start-up I/O | none |

How they interact. A user or an approver sends the control plane commands. The
coordinator leases a RoleRun, opens a runtime session, and gives it tools; a
tool call becomes `gateway.invoke`, which asks the control plane
(`ControlPlaneRoleRunAuthority` → `assertRoleRunMayExecute`) whether that very
lease still stands, commits its Intent, and starts a worker subprocess. When
the session ends, the coordinator sends `mark_role_run_settling` and then one of
`submit_execution_for_verification`, `submit_verification_result`,
`settle_role_run` and `block_role_run`. A restart reads `planRecovery` and the
ledger's unsettled Operations. Everything durable is in the three SQLite files;
everything else dies with its process.

What makes each part correct:

- *control plane*: the Task and its Run never disagree about the phase; one
  open Run, one open RoleRun; an Approval is granted by different people and
  decided once; a revocation stops the Run that rests on the Approval; a worker
  that lost its lease cannot write; what is closed or settled stays so; an
  accepted delivery was verified; who holds a lease always has a command to send.
- *tool gateway*: a call has at most one side effect handed to a worker, after
  its Intent is committed and under authority; a final outcome is told to all
  and stays; success was really written; every call comes back.
- *coordinator and assurance*: one live session per RoleRun, however often it is
  called; a result is handed over only on the rows its lease was taken on and
  only with known Operations; acceptance rests on checks that passed; every call
  ends; an acceptable delivery can be exported.
- *stores*: what is written under an id stays and every repetition is answered
  with it; effect, command row and event come together; what a command cites
  exists.
- *runtime session*: events in order and before the run returns; each failure
  reported to one run; a run answers its own prompt and returns.

## 2. Modules

| Module | What it is |
|---|---|
| `ControlPlane` | The control plane: rows, one action per command and outcome, safety |
| `ControlPlaneProgress` | What remains possible: which command is open to the holder of a lease, or to a stop |
| `ControlPlaneClaims` | What the documents state of it and the code does otherwise |
| `MCControlPlane` | Instances for TLC |
| `ControlPlaneProofs` | Lemmas about the rows commands write; theorems `RowsAreSound`, `TypeCorrect` |
| `ControlPlanePhaseProofs` | Theorems about phases, roles and settled Runs |
| `ControlPlaneApprovalProofs` | Theorems about who granted an Approval and what rests on it |
| `ControlPlaneWorkProofs` | Theorems about sessions, what is settled, and what a completed Task was accepted on |
| `OperationLedger` | Abstract: what the gateway promises of one side effect |
| `ToolGateway` | The gateway, its worker and the workspace; implements `OperationLedger` |
| `ToolGatewayProofs` | Theorems about the gateway; its refinement of `OperationLedger` |
| `MCToolGateway` | Instances for TLC |
| `RoleExecution` | The coordinator with its sessions and checks, composed with `ControlPlane` and `OperationLedger`; the candidate package |
| `RoleExecutionProofs` | Theorems about the coordinator and the control plane under it |
| `MCRoleExecution` | Instances for TLC |
| `WriteOnce` | Abstract: what a store written under ids promises |
| `CommandProtocol` | Evidence store, command transaction, outbox and their callers; implements `WriteOnce` twice |
| `CommandProtocolProofs` | Theorems about both stores; their refinements of `WriteOnce` |
| `RuntimeSession` | An Agent session and the delivery of its events |
| `RuntimeSessionProofs` | Theorems about deliveries, failures and outcomes |

`RoleExecution` EXTENDS `ControlPlane`, so its steps are that module's actions
and not copies of them, and instantiates `OperationLedger`, which `ToolGateway`
implements: what is shown of the coordinator holds over the gateway as its
callers may rely on it.

A comment that begins with `Mutant:` marks a variant of the operator that
follows it, with a bug of the kind a change to the code might bring in.
`PROJECT.json` pairs each checked property with one: put in place of the
original, it makes TLC report the property violated. No specification refers to
them.

`PROJECT.json` also maps each definition to the lines it models.

## 3. The control plane

One Task per model, with the Approvals of other Tasks (`OtherApprovals`): every
command is about the rows of one Task, but `validateManifest` takes any effective
Approval for a prerequisite and never compares its `taskId`, so a manifest may
name one of another Task. Of those Tasks only these Approvals are modelled, which
are requested, decided and invalidated whatever their own Task does
(`RequestElsewhere`, `DecideElsewhere`, `InvalidateElsewhere`), and stop no Run of
this one. `sqlite-control-plane.ts` runs every command through `command()`: one immediate transaction, the caller's expected
versions compared with the stored ones, the operation, the log, the commit. So
**one command is one action**, a failed one rolls back and is a stuttering
step, and there is no interleaving inside a command; interleaving is between
commands, and there it is unrestricted: any worker, approver, user or recovery
pass may send any command in any state.

| Variable | Rows |
|---|---|
| `task` | `tasks`, with the result refs of its latest `task_transitions` entry |
| `approvals` | `approvals` with `approval_decisions`; the expiry as a deadline ahead or passed |
| `runs` | `runs`, joined with what guards read of the sealed manifest: authorization, prerequisites, context, TRD |
| `roleRuns` | `role_runs`; `session` is a history of the lease its session was opened under |
| `artifacts` | result artifacts: what each binds and its verdict |
| `grants` | not a table: the leases workers were told they hold and may act on at any later time, however stale |
| `outbox` | `outbox` |

A command with several outcomes is several actions, e.g.
`record_approval_decision` is `DecideInPart`, `ApproveTrd`, `RequestTrdChanges`,
`RejectTrd`, `AuthorizeRun`, `RequestRunChanges` and `RejectRun`, which share
`Decide`. The code writes a decision and aggregates in one transaction, so does
each of these. Time is two environment actions, `LeaseExpires` and
`DeadlinePasses`: a clock only matters where it crosses a limit the code
compares it with.

Abstractions, each sound for the properties stated:

- Expected versions: a command commits only on the versions it was decided on,
  so it is decided and committed in one state. Command ids and replays answer
  with a stored result and write nothing: `CommandProtocol` shows it, statement
  by statement, and `RoleExecution` has the versions and the replays back.
- An Approval's snapshot in a manifest names its version. An effective Approval
  can only be revoked, so "unchanged" is "still effective".
- One RolePlan per role: the code counts attempts per `rolePlanId`.
- All Approvals of the Task require the same roles (`RequiredRoles`); which
  roles is a constant.
- A token counts up with each lease. `MaxToken` bounds how many are granted.
- The inputs of an executor are read by no guard, so it is given none.

## 4. The tool gateway

A step is what a process does between two awaits or two transactions; with
several processes on one ledger every pair of steps interleaves. `invoke` is
`InvokeNew` or a `Replay...`, then `ReadAuthority`, `CreateAuthorized` /
`CreateDenied` / `CreateIsLate`, `Dispatch` / `CancelBeforeDispatch` /
`DispatchIsLate`, and `WorkerAnswers` / `WorkerIsLost` / `TimeoutOrAbort`.
`reconcile` is `Reconcile...`. The guard of an `UPDATE ... WHERE version = ?` is
`RowIsCurrent`; the branch where it fails is modelled wherever the code has it.

The worker is a process of its own (`workers`): it inspects, renames and
verifies in three steps, may die, may be killed by the timer or the abort
signal, and lives on when its gateway crashes. The timer and the signal may fire
until the pipes are closed, also after the worker has exited, when there is
nothing left to kill (`Kill`). `Edit` is anybody else's change
to the file, at any time. `running` is what the gateway sees of the control
plane: the leases `assertRoleRunMayExecute` would still approve, which shrinks
and never grows because a fencing token is never used again.

Abstractions: a digest stands for its content; a target that cannot be
inspected is a content no request names; the write policy and the sealed plan
are the constant `Permitted`; SIGKILL is the worker's immediate death; the
request digest covers the lease, so a call under a new lease is another request
with the same idempotency key, which is refused. `dispatched`, `told` and `held`
are history for the properties and no guard reads them.

**Refinement.** `OperationLedger` says what a caller may rely on: an Operation
is permitted or denied once, dispatched at most once, ends in one final outcome,
and no caller is told another one. `ToolGateway` implements it with `status`
read off the rows (`ImplementsLedger`); crashes, overtaken processes and stale
reads map to stuttering.

## 5. Role execution

`execute` and `verify` of `role-execution-coordinator.ts`, called by any number
of processes (`calls`), each with what it has in memory. A step is what happens
between two awaits, or one command: the Task and Run rows are read in `Begin`
and `Reread` and expected in a later step (`Fresh`), so whatever another process
commits in between is seen as the version conflict it is.

| Code | Actions |
|---|---|
| `prepareRoleRun`, `acquireRoleRunLease`, first time and replayed | `Prepare`, `PrepareAgain`, `Lease`, `LeaseAgain` |
| `startRuntime` | `StartSession`, `OpenSession` |
| `runRequiredChecks`, `NodeCheckRunner.runProcess` | `SpawnCheck`, `CheckExits`, `CheckIsLate`, `CheckCloses`, `ChecksThrow` |
| tools of the session | `CallTool`, `ToolReturns`, `ToolRejects`, `ReportExecution`, `ReportVerification` |
| `runRuntime` | `TimerFires`, `RunEnds` |
| `markRoleRunSettling`, `settleToolEvidence` | `MarkSettling`, `SettleOperation` |
| the branches after it | `DecideToBlock`, `DecideToFail`, `DecideToHandOver` |
| last command | `HandOverExecution`, `HandOverVerification`, `Fail`, `Block` |
| an error that passes out; the process dies | `Throw`, `Crash` |

`Throw` is possible at every step the code does not catch. After it, or after
a crash, the same request may come again, in the same process or another.
`checks` is the `check_result` Evidence of each verifier as it was observed
(`Observation`), which is more than the outcome the verdict is compared with:
`AcceptanceRestsOnChecks` is about the script, and `OutcomeOf` is the code's
reading of it. `Elsewhere` is what people and the clock do to the Run
meanwhile. The instances begin with an authorized Run, in a state `ControlPlane`
reaches: its Approvals carry the decisions that approved them, and its manifest
names any of the Approvals of other Tasks beside its own.

**The composition.** An action of the coordinator that sends a command is that
action of `ControlPlane` together with what the call remembers, and the others
leave its rows alone; that is how the module is written, and no property claims
it. What it is good for is proved: the safety properties of section 3 hold of a
control plane driven by this coordinator (`CoordinatorKeepsPromises`,
`CoordinatorLeavesTheClosed`).

**The candidate package** changes nothing; what `build` asks of the three stores
is `Packageable`, and `DeliveryIsPackageable` compares it with the delivery the
control plane has brought to acceptance: it is refused exactly when a tool
call's `invoke` was rejected and its Operation never collected, or when the
manifest names an Approval of another Task (`candidate-evidence-package.ts:109`),
which the control plane lets pass. Those are the cases `claim_unknown` and
`claim_foreign_approval` are about (section 10).

Abstractions: a Run is one manifest; prompts, resources, tool contracts and
bindings of Evidence to ids are equal by construction and left out, and loading
them is a step that may throw. What the executor declares is a set of
Operations, for the paths they write. `lost` is history and guards only that a
call is not made twice under one key.

## 6. Stores and commands

`CommandProtocol` is one level below the actions of `ControlPlane`: a step is
one SQL statement of one process. A caller puts Evidence (`Find`, `Insert`,
`InsertFails`, `FindAgain`, `Get`) and sends the command that cites it
(`BeginImmediate`, `LookUp`, `Change` or `MarkOutboxDelivered`, `RecordResult`,
`Commit`), under ids that depend on its job only; two callers may take the same
job, with the same content or another. `transaction` is the view of the tables
the one write transaction has; a crash or a failing statement drops it. A
caller that was not answered may send the same request again, with the version
it expected the first time; one that was rejected reads the version again.

The commands of the control plane are represented by one that changes an
aggregate's version and writes an event (`Change`), since `command()` treats all
alike, and by `mark_outbox_delivered`. The deliverer is not in the repository:
it does what `planRecovery` lists, and an event it handed out before it died is
handed out again.

**Refinement.** `WriteOnce` says what both stores promise: the first row under an
id stays, a repetition is answered with that row, other content is refused.
The Evidence store implements it with `put`'s callers, the command table with
`command`'s (`EvidenceIsWriteOnce`, `CommandsAreWriteOnce`). In the first, the
caller that loses the race for the id answers with the winner's row, clock
reading and all; in the second, the reply may be lost with the row written.

## 7. The runtime session

`RuntimeSession` is one session on one event loop. `queue` is the chain of
promises `publish` appends to, each with the listeners subscribed then;
`awaited` is the listener whose promise the first of them waits for. `settle`
waits for the chain as it is when prompt has settled (`run.until`), and because
a continuation attached first runs first, it goes on before the next event is
begun (`SettleIsDue` in `NextEvent`). Pi may emit events at any time until the
session is disposed of, the end of an agent only while it is prompted: external,
and the only assumption about it.

`owed`, `got`, `failures`, `reports`, `ended` and `returned` are history.

## 8. Runs

### Passing runs

| Run | Instance and why it is enough | What it shows |
|---|---|---|
| `delivery` | 1 Run, 4 RoleRuns, 4 results, 2 attempts per role: a full round and a rework round, with the attempt limit and the RoleRun limit both reached | `PhaseAgreement`, `OneActiveRole`, `CompletionIsVerified`: through handoffs, verdicts, rework, blocks, cancellation and revocation the Task, its Run and its RoleRun agree, and a completed Task was executed and verified by two RoleRuns of one Run. `TypeOK`, `SchemaChecks`: no command writes a row the database refuses |
| `leases` | executor and verifier, 2 workers, 2 leases per RoleRun that run out in any leased status and are taken over, ExecutionResults registered by others | `SettledRunIsQuiet`, `NoNewWorkAfterStop`, `SettledIsFinal`: a settled Run has no RoleRun, a stopping one gets no work, what is settled stays so. `SessionIsFenced`: a stale worker opens no session. `HeldWorkMayGoOn`: who holds a live lease has a command that takes the RoleRun on, whatever others did to the Run. `StopIsStuckOnStrandedWork`: a stop has no command left exactly when its RoleRun was never leased, is blocked or has lost its lease |
| `approvals` | 2 roles, 3 people one of whom holds both, deadlines, 2 Approvals (TRD and Run) | `FourEyes`, `DecidedOnce` |
| `reruns` | 2 TRDs, 2 Runs, 3 Approvals of the Task and 1 of another, of either TRD: a manifest that rests on one or on both, each revoked in any state of the Run; a redesign before the first Run, or after it was superseded; a second Run under the first design, with every Approval of it still there | `RunRestsOnEffectiveApprovals`: no revocation of one of the Task's own Approvals is overlooked; `ManifestBindsDesign` |
| `gateway_race` | `FairSpec`, 2 processes, 1 call, 2 leases, 2 contents: both processes on the same Operation in every phase, the call made again after its lease was lost, or under the next one | `TypeOK`, `EffectFollowsIntent`, `ImplementsLedger`, `EveryCallReturns` |
| `gateway_files` | 1 process, 2 calls that write one file back and forth, one not permitted in one form, 3 contents | `SuccessIsReal`, `LostLeaseNeverDispatches` |
| `execution` | 2 processes that both may call `execute` and `verify` for one executor and one verifier, 1 Operation, 1 required check, 5 judgements (each verdict, each route, one invalid), 2 Approvals that may be revoked | `OneSession`: two processes, or one again after a crash, never prompt two sessions for a RoleRun. `SettledOperationsAreKnown`: no time-out, abort or failed submission hides an Operation. `HandoffRestsOnLease`: no result slips past a cancellation, revocation or time-out. `ExecutionTypeOK` |
| `execution_ends` | `FairExecutionSpec`, 1 process, 2 required checks, so that outcomes mix, 1 Operation whose `invoke` may be rejected, 2 Approvals of the Task and 1 of another, each of which may be revoked, 2 judgements (the other three, and leases that run out, are in `execution`) | `EveryExecutionEnds`, `AcceptanceRestsOnChecks`. `DeliveryIsPackageable`: what waits for acceptance can be exported, over three stores, but for the two cases of section 5 |
| `commands` | `FairSpec`, 2 callers and the deliverer, 2 jobs, 2 contents, 2 instants, 1 fault | `EvidenceIsWriteOnce`, `CommandsAreWriteOnce`; `EffectsAreRecorded`: change, command row and event are committed together, on the version the caller had read; `CitedEvidenceIsStored`, `CallsEndAndEventsArrive`, `ProtocolTypeOK` |
| `runtime_session` | `FairSpec`, 2 listeners, 3 events, 2 runs, 2 outcomes: an event before, during and after the settling of a run, and a second run that might inherit something | `InOrder`: each listener gets what was emitted while it was subscribed, in order; `ReturnedRunHidesNothing`: a run that returned was preceded by its events, and each failure is reported to one run; `RunAnswersItsOwnEnd`, `EveryRunReturns`, `SessionTypeOK` |

Bounds of the control plane: ids are sets of model values and are used up, so
"two Runs" means two in the life of the Task. `MaxToken` counts the leases of
one RoleRun (the second is the interesting one: it makes the first stale),
`MaxInputs` the artifacts a verifier is given. `DeadlineChoices`,
`ExpiryStatuses`, `RegisteredKinds` and `DeliveredTypes` switch parts of the
environment on in the runs about them and off in the others; every action fires
in some run. Symmetry is used for ids no definition tells apart (people differ
by their roles), and never in a run with a liveness property.
Bound of the gateway: `MaxVersion` stops new reconciliations, the only cycle of
the ledger; 4 admits a lost worker and a reconciliation after it.
Bounds of the others: an executor and its verifier are the shortest delivery, and
two processes suffice for any race over one RoleRun, since its lease has one
holder. `execution` has no rework round: that is the control plane's part, in
`delivery`. `MaxFaults` counts crashes, lost replies, busy databases and failing
statements of all processes together; with one, each of them happens at each
statement, against every interleaving of the others. `MaxEvents` and `MaxRuns`
bound the only unbounded counters of `RuntimeSession`.

`CHECK_DEADLOCK FALSE`: a Task that is closed, or whose ids are used up, may
stop, and so may a ledger whose Operations are all final, a coordinator, a caller
or a session of which nobody wants anything more.

### Fairness

*Control plane.* None is assumed. A coordinator whose command is refused or whose
session cannot be started throws and sends no more, `planRecovery` only lists,
and nobody need decide, accept or cancel. So `ControlPlaneProgress` states what is
possible (ENABLED) and not what will happen. The two claims that do say that
something ends are refuted under `EagerSpec` (`claim_stop`, `claim_lost_session`):
workers and a recovery more eager than the code has. That only makes the
refutation stronger; no property that holds rests on it.

*Gateway.* The event loop, the timers and SQLite's busy timeout bring each begun
call on its way, so a call's own steps are weakly fair. The worker, people,
crashes and edits are not.

*Coordinator.* `Work` is what its event loop and its timers do of their own
accord, and an Agent that was told to abort ends its run; `Answer` is the
gateway's `EveryCallReturns`. A check's script need not end by itself, its limit
passes (`CheckIsLate`); that its pipes are closed then is assumed
(`CheckCloses`): a process the script left behind with its output open would keep
the check, and `verify`, waiting. The Agent, people and crashes are not fair.

*Stores.* `put` and `command` are synchronous, so a process that has begun one
goes on (`Put`, `Command`); the deliverer goes on delivering. Nobody has to start
a call or to send it again.

*Session.* The event loop delivers, settles and ends the run; each listener's
promise settles; `Abort` is weakly fair because `runRuntime` has a timer, and a
prompt that was aborted settles. Pi need not end anything otherwise.

### Violations

The runs `claim_stop` and `claim_foreign_approval` each check one statement of the
documents that the code does not keep. Ten more configurations named `claim_...`
do the same and can be run by hand; section 10 lists all twelve. The
properties are stated in `ControlPlaneClaims`, in `ToolGateway` under "What ...
says", at the end of `RoleExecution` (`claim_unknown`), or, for
`claim_lost_lease`, it is `LostLeaseNeverDispatches` on two processes.

## 9. Proofs

TLAPS checks every theorem for every value of the constants that satisfies the
named assumptions: any number of people, roles, Runs, RoleRuns, processes,
Operations, files, callers and listeners, and any value of the bounds of
section 8. Every invariant and every action property of the passing runs is
stated by a theorem, and so are the three refinements; the two invariants of
`ControlPlaneProgress`, which are about ENABLED, stay with TLC.

### Assumptions

| Module | Assumptions | Why the code justifies them |
|---|---|---|
| `ControlPlane` | `NilAssumption`, `OwnerAssumption`, `SubjectAssumption`, `RoleAssumption`, `LimitAssumption`, `BoundAssumption` | NULL is no id; an Approval belongs to one Task; an Approval's subject is a TRD or a manifest; the roles a gate requires exist and are at least one; the limits are those `validateManifest` admits. `BoundAssumption` types the model's bounds |
| `ToolGateway` | `RequestAssumption` | what the policy permits is a request |
| `CommandProtocol` | `ProtocolAssumption`, `NilIsNoAsk` | there are finitely many jobs, so that rows can be counted; the deliverer is not one of the callers; NULL is no row, and no question |
| `RuntimeSession` | `SessionAssumption` | types of the bounds; `undefined` is no listener and no outcome |
| `RoleExecution` | `RequestAssumption`, `ExecutionAssumption` | `execute` is given no ExecutionResult, `verify` one and the RoleRun that produced it; a manifest requires a check; an idempotency key names one RoleRun; the two Approvals a Run begins with are different |

One theorem has a hypothesis of its own: `LostLeasesDispatchNothing` is about
one gateway process per ledger. With two the property fails, and
`claim_lost_lease` is the counterexample.

### Control plane

| Theorem | Says |
|---|---|
| `RowsAreSound`, `TypeCorrect` | `SchemaChecks`: no command writes a row the database's CHECK constraints turn down; `TypeOK` |
| `PhaseCorrect` | the invariant `PhaseInv` |
| `PhasesAgree` | `PhaseAgreement`: the Task and its open Run describe the same phase |
| `OneRoleAtATime` | `OneActiveRole`: one open Run, one open RoleRun, of the role the phase calls for |
| `SettledRunsAreQuiet` | `SettledRunIsQuiet`: a settled Run has no RoleRun that could still write |
| `EffectiveMeansFourEyes` | `FourEyes`: an effective Approval was granted by different people, not by its requester, for each role |
| `ApprovalsAreDecidedOnce` | `DecidedOnce` |
| `RunsRestOnEffectiveApprovals` | `RunRestsOnEffectiveApprovals`: until it is told to stop, a Run's authorization and those of its prerequisites that are the Task's own are effective. Nothing is said of prerequisites taken from other Tasks, for which it is false (`claim_foreign_approval`) |
| `ManifestsBindTheDesign` | `ManifestBindsDesign` |
| `SessionsAreFenced` | `SessionIsFenced`: a running session was opened under the newest lease |
| `SettledStaysFinal`, `StoppedRunsGetNoWork` | `SettledIsFinal`, `NoNewWorkAfterStop` |
| `CompletionsAreVerified` | `CompletionIsVerified` |

**Types and rows together.** `TypeOK` is not inductive: cancelling a blocked
Task blocks it again with the status it recorded, which is a status only because
a blocked Task has recorded one. So the induction carries `TypeOK /\
SchemaChecks`. A lemma per table says in which few ways commands write it
(`TaskWritten`, `RunWritten`, `RoleRunWritten`; later `ApprovalWritten`,
`RoleRunStep`, `TaskEntered`), from which invariants of that table follow
without looking at commands again.

**Phases.** `PhaseInv` is `PhaseAgreement /\ OneActiveRole /\ SettledRunIsQuiet
/\ RoleRunsBelong`, where `RoleRunsBelong` says that a RoleRun belongs to a Run
that has been authorized. None of the first three is inductive alone: a worker's
step moves the Task by its RoleRun's Run, which agrees with the Task only if it
is the one open Run; acceptance settles a Run that is quiet only because no
RoleRun has the phase `awaiting_acceptance`; a RoleRun is never orphaned only
because it belongs to a Run. Relative to `TypeOK` the conjunction is inductive.
The proof first states six kinds of step (only the Task moves; the Run moves;
the Run ends; a RoleRun moves; it hands off; it stops with its Run), shows that
each keeps `PhaseInv`, and then finds every command to be one of them.

**Approvals.** `FourEyes` is about Approvals that are effective, but what makes
it true happens while they are pending: `DecisionsAreSound` says of those, too,
that nobody dissented or decided twice, and of revoked ones what they were when
effective. `RunRestsOnEffectiveApprovals` is inductive relative to `PhaseInv`:
an invalidation stops the open Run of the Approval's Task, of which there is one
only because of `PhaseInv`, and that this is the Run which rests on the Approval
is known of the Task's own Approvals and of no others. `ManifestBindsDesign` needs
`PrerequisitesExist`: an Approval that was requested is never requested again
for another subject.

**Work.** `SessionIsFenced` follows from the few ways a RoleRun is written.
`CompletionIsVerified` looks at the end only, so `CompletionIsEarned` follows
the result from the phase it opened: in `verifying` the active Run has an
executor that succeeded, in `awaiting_acceptance` a verifier that passed as
well, and the artifact a RoleRun put out is never written over.

### Tool gateway

| Theorem | Says |
|---|---|
| `LedgerIsTyped` | `TypeOK`, and `LedgerInv` |
| `EffectsFollowIntents` | `EffectFollowsIntent` |
| `SuccessesAreReal` | `SuccessIsReal`, from `EffectsAreReal`: whoever claims that the content is there saw it there |
| `LostLeasesDispatchNothing` | `LostLeaseNeverDispatches` with one gateway |
| `GatewayImplementsLedger` | `ImplementsLedger` |

`LedgerInv` relates the version of a row to its status (`RowSound`) and what a
process remembers to the row (`CallSound`): never ahead of it, and as long as the
versions agree the row is what was read. It is what makes `WHERE version = ?` the
lock it is meant to be, for any number of processes. The refinement is a step
simulation (`StepIsAllowed`): an overtaken process may write nothing of an
Operation and may tell nobody an outcome that is not in the row.

### Stores

| Theorem | Says |
|---|---|
| `StoresAreTyped` | `ProtocolTypeOK`, the bound on repeated deliveries included |
| `ChangesAreRecorded` | `EffectsAreRecorded` |
| `CitationsAreStored` | `CitedEvidenceIsStored` |
| `PutImplementsWriteOnce`, `CommandImplementsWriteOnce` | `EvidenceIsWriteOnce`, `CommandsAreWriteOnce` |

`ProtocolInv` says of the open transaction what its statements have made of the
committed tables so far (`HolderSound`), of the committed tables that their rows
count alike (`TablesSound`: as many change rows as versions and events, one for
each version), of callers that a reference they hold is in the store, and that
an event is handed out again only after a fault. `EffectsAreRecorded` compares
committed tables only; what keeps it is that COMMIT installs a transaction of
which all this is known. For the two refinements a process' memory is read as
the question it asks and the answer it has, and each statement is a step of
`WriteOnce` or a stutter.

### Runtime session

| Theorem | Says |
|---|---|
| `SessionIsSound` | the invariant `SessionInv` with the types |
| `SessionsAreTyped` | `SessionTypeOK` |
| `DeliveriesAreInOrder` | `InOrder` |
| `ReturnedRunsHideNothing` | `ReturnedRunHidesNothing` |
| `RunsAnswerTheirOwnEnd` | `RunAnswersItsOwnEnd` |

`SessionInv` is about the chain: its events are the last ones emitted, in a row,
and none that a returned run waited for is among them; what a listener is owed
and has not been called with is what waits for it there (`Left(l) = Waiting(l)`)
as long as disposal has dropped nothing; a failure is pending, reported once, or
lost to disposal.

### Role execution

| Theorem | Says |
|---|---|
| `CoordinatorKeepsPromises` | the state invariants of `ControlPlane`, of `ExecutionSpec` |
| `CoordinatorLeavesTheClosed` | `SettledIsFinal`, `DecidedOnce`, `NoNewWorkAfterStop`, of `ExecutionSpec` |
| `ExecutionIsTyped` | `ExecutionTypeOK` |
| `SessionsAreAlone` | `OneSession` |
| `SettledRoleRunsKnowTheirOperations` | `SettledOperationsAreKnown` |
| `AcceptanceIsChecked` | `AcceptanceRestsOnChecks` |
| `DeliveriesArePackageable` | `DeliveryIsPackageable` |
| `HandoffsRestOnTheirLease` | `HandoffRestsOnLease` |

All eight follow from `CoordinatorInv` (lemma `CoordinatorIsSound`). It carries
the types, the inductive invariants of the control plane (`ControlInv`: the
lemmas that `ControlPlane`'s steps keep them are used as they are, since every
step is one; they hold at the start because an authorized Run stands on two
Approvals that were decided unanimously, `InitDecisions`) and `ExecutionInv`:

- `OneActor`: one call at a time is past `markRoleRunRunning` and not yet done
  with a RoleRun, and the RoleRun has the status of that call's step
  (`CallHolds`). The row alone would not do: two calls may both believe to hold
  the first lease (`LeaseAgain`), and only the status they find tells them apart.
- `CallSees`, `CallCollects`: of the Operations of its RoleRun such a call knows
  all that were not lost; those it settled are final, or it remembers that one
  is not (`unknown`). `OperationSound` and `RefsSound` say the same of the stores
  once the call is over, including a call that ended in a crash.
- `CallChecks`, `PassesAreChecked`: what a call says its checks came to is what
  their Evidence says, and every result that passes is a verifier's whose checks
  all passed. The second must cover *all* stored results, because acceptance
  takes any pair the caller names.
- `RowsStay`: while a leased RoleRun's Run is active, the Task's version is the
  one its lease was taken on and the Run's is that or, if the lease activated it,
  one more. It holds because every command that writes the Task or the Run either
  ends the RoleRun or takes the Run out of `active` (`OthersStopWork`), so the
  versions read again before the handover cannot hide another result.
- `RoleRunSound`, `CallAsks`: the command table of `:prepare` and `:lease` says
  where the RoleRun is, and a request's ExecutionResult is stored.

A step that sends no command only changes one call's memory; `MemoryStep` says
what that memory must satisfy, and 20 of the coordinator's actions are of that
kind. Each of the eight that send a command, a check that closes, a call that
is rejected, the gateway's and the others' steps has a lemma of its own (`...KeepsInv`).

### Model-checked only

Liveness (`EveryCallReturns`, `EveryExecutionEnds`, `CallsEndAndEventsArrive`,
`EveryRunReturns`) rests on fairness, and `HeldWorkMayGoOn` and
`StopIsStuckOnStrandedWork` on ENABLED, neither of which the prover treats; they
stay with TLC, and so do the claims of section 10, which are violated. No module uses RECURSIVE
operators, and no property needs induction over data: what a listener was called
with is compared element by element.

## 10. Where the code and its documents disagree

| Configuration | The code | The document |
|---|---|---|
| `claim_stop` | A Run that stops while its RoleRun is still `prepared` never settles: the RoleRun can no longer be leased, only a lease holder can settle it, and the Run waits for it | persistence-and-recovery:94, :98: prepared RoleRuns can be started, stopping Runs go on to be settled |
| `claim_foreign_approval` | A manifest may name an Approval of another Task; its revocation stops the Runs of that Task only, and the Run that rests on it stays authorized or active | state-and-run-manifest:843: when a prerequisite Approval of a Run becomes invalid, Task and Run first go on the path of stopping or blocking |
| `claim_lost_session` | A RoleRun whose worker dies while it runs stays `running`: no command takes it out without the dead worker's lease | same, :95: it becomes `settling` and is reconciled |
| `claim_acceptance` | Acceptance takes any pair of registered results that bind the Run, not the pair last handed off | README:259 |
| `claim_handoff` | After a rework the verifier may judge the previous ExecutionResult if it was among its inputs | README:255 |
| `claim_attempts` | An implementation failure returns the Task to `executing` when no attempt is left | state-and-run-manifest:739: the Task is blocked, the Run fails |
| `claim_cancel` | A Run with no open RoleRun is settled by the cancellation itself | same, :831: it is stopping first |
| `claim_planning` | A Run superseded because its TRD's Approval was revoked may return the Task to `planning` | same, :448: planning means the TRD is approved |
| `claim_lost_lease` | With two gateway processes, one that was refused authority dispatches the Operation the other authorized | tool-gateway-v0.1:93 |
| `claim_unknown` | A tool call whose `invoke` was rejected leaves an Operation the coordinator never heard of; the executor's result is handed over | executor-verifier-assurance-v0.1:40, :79: no handoff with an unknown Operation |
| `claim_not_applied` | A restarted gateway records `not_applied` while the old worker is still to rename | same, :77 |
| `claim_compare_and_set` | A change between the worker's comparison and its rename is overwritten | same, :45 |

`claim_stop` and `claim_foreign_approval` are the runs; the first
five and `claim_lost_lease` weigh most. After a foreign Approval is revoked,
commands that read the prerequisites again (`prepareRoleRun`, the handoffs,
acceptance) refuse, so the Run gets no further: it stays `active`, with the
RoleRun it has, until somebody cancels it.

Seen in the coordinator and in assurance, and part of the models as the code has
them: a required check that fails and another that is blocked admit no verdict,
since the one asks for `fail` and the other for `blocked`
(executor-verifier-assurance-v0.1:63 lets the failure decide); a script that
exits abnormally is `failed`, not `blocked` (:71), as long as it was started and
in time; Evidence that cannot be saved makes `execute` and `verify` throw with
the RoleRun left `settling`, instead of settling it as unsuccessful (:42), except
that of the checks and of the verdict; a start that was interrupted is not taken
over by `execute` (:68), because the fixed command ids answer with the first
lease or conflict, and a later lease needs a version the coordinator does not
ask for.

Seen in the control plane and not given a configuration: a superseded Run that
has stopped leaves the Task where the caller says instead of blocked
(state-and-run-manifest:834); an authorized Run that was never active is stopped
rather than rejected when it loses an Approval (:843); README:195 calls a blocked
Task recoverable, but no command unblocks one; the branches for `pendingOutcome
= failed` and for a blocked Run that resumes to `stopping` are reached by no
command; any of the Task's own Approvals that is invalidated stops the open Run, whether
or not the Run rests on it.

## 11. What is not modelled

- Event mapping, resource loading, the registry, canonical JSON and the
  migration runner: pure functions or start-up I/O without state that changes.
- The session factory and the adapter: they configure an external library; for
  the coordinator this is one step that may throw.
- Path resolution and permission bits of the worker: one file is one path.
- What the checks read: the workspace is shared with people, and nothing in the
  code relates it to the ExecutionResult.
- Storage failures: in `CommandProtocol` a statement may fail and a transaction
  is then rolled back; a damaged file is not modelled. `ControlPlane` and
  `ToolGateway` have transactions that commit or leave no trace.
- Of the candidate package, the kinds of Evidence and the resource snapshots.
- Other Tasks, but for their Approvals: nothing else of theirs is read by a
  command about this one.
- Evidence text, summaries, timestamps and audit wording.
- Build, calibration and schema scripts.

## 12. Plan

Every component that keeps state is modelled, and every action property,
refinement and invariant of the passing runs is proved, but for the two that are
about ENABLED. What is left: the resource snapshots and Evidence kinds `build`
compares when it exports a candidate package, as conditions of `Packageable`.
