----------------------------- MODULE ToolGateway -----------------------------
(***************************************************************************)
(* The tool gateway: processes that share one SQLite ledger and carry out  *)
(* each tool call of an Agent at most once, through a worker subprocess    *)
(* that replaces one file of the workspace                                 *)
(* (packages/tool-gateway/src/sqlite-tool-gateway.ts,                      *)
(* subprocess-workspace-executor.ts and worker/workspace-worker.mjs).      *)
(*                                                                         *)
(* A step is what a process does between two awaits or two transactions.   *)
(* The Operation, its Decision, its Intent and its Result are one row: the *)
(* gateway writes them in the same transactions.  A digest stands for the  *)
(* content it is the digest of.  A target that cannot be inspected is a    *)
(* content like any other that no request expects or writes: execute fails *)
(* and reconcile is inconclusive for both.                                 *)
(***************************************************************************)
EXTENDS Naturals, FiniteSets

CONSTANTS
  Gateways,      \* gateway processes over one ledger
  Calls,         \* idempotency keys: Run, RoleRun, call id and tool
  Requests,      \* what may be invoked
  Permitted,     \* requests that registration, plan and policy allow
  Leases,        \* RoleRun leases a request may name
  Paths,
  Contents,      \* of a file, Absent among them
  Absent,
  Nil

CONSTANT MaxVersion   \* bound: version from which no reconciliation is begun

VARIABLES
  running,       \* leases whose Run is active and whose RoleRun runs
  operations,    \* the ledger
  calls,         \* activeInvocations of each process
  workers,       \* the subprocess that executes an Operation
  files,         \* the workspace
  dispatched,    \* history: Operations handed to executor.execute
  told,          \* history: final outcomes callers were told
  held           \* history: contents each file has had

vars == <<running, operations, calls, workers, files, dispatched, told, held>>

-----------------------------------------------------------------------------

Request ==
  [call: Calls, lease: Leases, path: Paths, content: Contents \ {Absent},
   expected: Contents]

Status ==
  {"none", "authorized", "denied", "executing", "failed", "succeeded", "unknown"}

Final == {"denied", "failed", "succeeded"}

Operation == [status: Status, version: Nat, request: Requests \cup {Nil}]

(* Where a process is with a call: awaiting the authority for a new or for a *)
(* stored Operation, holding its verdict, about to dispatch, awaiting the    *)
(* worker that executes or the one that reconciles.                          *)
Phase ==
  {"idle", "authorizing", "decided", "reauthorizing", "dispatching",
   "executing", "reconciling"}

(* version is that of the row the process read; late says the lease was lost *)
(* before the call began.                                                    *)
Call ==
  [phase: Phase, request: Requests \cup {Nil}, allowed: BOOLEAN, version: Nat,
   verdict: {"none", "applied", "not_applied", "unknown"}, late: BOOLEAN]

Worker ==
  [phase: {"none", "started", "writing", "written", "exited"},
   answer: {"none", "succeeded", "failed", "lost"},
   wrote: BOOLEAN]

ASSUME RequestAssumption ==
  /\ Requests \subseteq Request
  /\ Permitted \subseteq Requests
  /\ Absent \in Contents
  /\ Nil \notin Requests
  /\ MaxVersion \in Nat

(* Rows, calls and workers have their types, and the parts that say whether   *)
(* one exists agree.                                                         *)
TypeOK ==
  /\ running \subseteq Leases
  /\ operations \in [Calls -> Operation]
  /\ calls \in [Gateways -> [Calls -> Call]]
  /\ workers \in [Calls -> Worker]
  /\ files \in [Paths -> Contents]
  /\ dispatched \in [Calls -> BOOLEAN]
  /\ told \in [Calls -> SUBSET Final]
  /\ held \in [Paths -> SUBSET Contents]
  /\ \A g \in Gateways, k \in Calls :
       calls[g][k].phase = "idle" <=> calls[g][k].request = Nil
  /\ \A k \in Calls : operations[k].status = "none" <=> operations[k].request = Nil
  /\ \A k \in Calls : workers[k].phase = "exited" <=> workers[k].answer # "none"

NoCall ==
  [phase |-> "idle", request |-> Nil, allowed |-> FALSE, version |-> 0,
   verdict |-> "none", late |-> FALSE]

Init ==
  /\ running \in SUBSET Leases
  /\ operations = [k \in Calls |-> [status |-> "none", version |-> 0, request |-> Nil]]
  /\ calls = [g \in Gateways |-> [k \in Calls |-> NoCall]]
  /\ workers = [k \in Calls |-> [phase |-> "none", answer |-> "none", wrote |-> FALSE]]
  /\ files \in [Paths -> Contents]
  /\ dispatched = [k \in Calls |-> FALSE]
  /\ told = [k \in Calls |-> {}]
  /\ held = [f \in Paths |-> {files[f]}]

-----------------------------------------------------------------------------
(* What the steps of a call share. *)

SetCall(g, k, call) == calls' = [calls EXCEPT ![g][k] = call]

Advance(g, k, phase) == SetCall(g, k, [calls[g][k] EXCEPT !.phase = phase])

(* Mutant: the call stays in activeInvocations.                              *)
ReturnUndeleted(g, k) == Advance(g, k, "idle")

(* The promise settles and the call leaves activeInvocations.                *)
Return(g, k) == SetCall(g, k, NoCall)

Tell(k, outcome) == told' = [told EXCEPT ![k] = @ \cup {outcome}]

(* outcome(): a caller is told the row as it stands; only what is final is   *)
(* an answer.                                                                *)
TellStored(k) ==
  IF operations[k].status \in Final THEN Tell(k, operations[k].status)
  ELSE UNCHANGED told

(* Mutant: the UPDATE names the Operation only.                              *)
RowIsThere(g, k) == operations[k].status # "none"

(* WHERE operation_id = ? AND version = ? AND status = ?                     *)
RowIsCurrent(g, k) == operations[k].version = calls[g][k].version

WriteRow(k, status) ==
  operations' = [operations EXCEPT ![k].status = status, ![k].version = @ + 1]

(* finishExecution: the Result and the status in one transaction, or what    *)
(* another process has made of the Operation meanwhile.                      *)
Finish(g, k, outcome) ==
  /\ IF RowIsCurrent(g, k)
     THEN WriteRow(k, outcome) /\ Tell(k, outcome)
     ELSE UNCHANGED operations /\ TellStored(k)
  /\ Return(g, k)

(* transition to unknown; a row that has changed makes the call throw.       *)
LoseTrack(g, k) ==
  /\ IF RowIsCurrent(g, k) THEN WriteRow(k, "unknown") ELSE UNCHANGED operations
  /\ Return(g, k)
  /\ UNCHANGED told

-----------------------------------------------------------------------------
(* invoke *)

(* activeInvocations: a call that is under way is joined, not begun again.   *)
MayBegin(g, k) == calls[g][k].phase = "idle"

Invocation(req, phase) ==
  [NoCall EXCEPT !.phase = phase, !.request = req,
                 !.version = operations[req.call].version,
                 !.late = req.lease \notin running]

InvokeNew(g, req) ==
  /\ MayBegin(g, req.call)
  /\ operations[req.call].status = "none"
  /\ SetCall(g, req.call, Invocation(req, "authorizing"))
  /\ UNCHANGED <<running, operations, workers, files, dispatched, told, held>>

(* The same request again.  Another request under the same key is refused,   *)
(* which changes nothing.                                                    *)
IsReplay(g, req) == MayBegin(g, req.call) /\ operations[req.call].request = req

ReplayFinal(g, req) ==
  /\ IsReplay(g, req)
  /\ operations[req.call].status \in Final
  /\ Tell(req.call, operations[req.call].status)
  /\ UNCHANGED <<running, operations, calls, workers, files, dispatched, held>>

(* Mutant: a stored decision to allow is good for ever.                      *)
ReplayDecided(g, req) ==
  /\ IsReplay(g, req)
  /\ operations[req.call].status = "authorized"
  /\ SetCall(g, req.call, Invocation(req, "dispatching"))
  /\ UNCHANGED <<running, operations, workers, files, dispatched, told, held>>

(* Committed, but no worker was started: a process died, or another is about *)
(* to dispatch.                                                              *)
ReplayAuthorized(g, req) ==
  /\ IsReplay(g, req)
  /\ operations[req.call].status = "authorized"
  /\ SetCall(g, req.call, Invocation(req, "reauthorizing"))
  /\ UNCHANGED <<running, operations, workers, files, dispatched, told, held>>

MayReconcile(k) ==
  /\ operations[k].status \in {"executing", "unknown"}
  /\ operations[k].version < MaxVersion

ReplayUnsettled(g, req) ==
  /\ IsReplay(g, req)
  /\ MayReconcile(req.call)
  /\ SetCall(g, req.call, Invocation(req, "reconciling"))
  /\ UNCHANGED <<running, operations, workers, files, dispatched, told, held>>

(* ControlPlaneRoleRunAuthority.authorize, then the policy.  The authority   *)
(* may also be out of reach, which denies.                                   *)
ReadAuthority(g, k) ==
  LET req == calls[g][k].request
  IN  /\ calls[g][k].phase = "authorizing"
      /\ \E allowed \in {FALSE, req.lease \in running /\ req \in Permitted} :
           SetCall(g, k, [calls[g][k] EXCEPT !.phase = "decided", !.allowed = allowed])
      /\ UNCHANGED <<running, operations, workers, files, dispatched, told, held>>

CreateAuthorized(g, k) ==
  /\ calls[g][k].phase = "decided"
  /\ calls[g][k].allowed
  /\ operations[k].status = "none"
  /\ operations' = [operations EXCEPT ![k] =
       [status |-> "authorized", version |-> 1, request |-> calls[g][k].request]]
  /\ SetCall(g, k, [calls[g][k] EXCEPT !.phase = "dispatching", !.version = 1])
  /\ UNCHANGED <<running, workers, files, dispatched, told, held>>

CreateDenied(g, k) ==
  /\ calls[g][k].phase = "decided"
  /\ ~calls[g][k].allowed
  /\ operations[k].status = "none"
  /\ operations' = [operations EXCEPT ![k] =
       [status |-> "denied", version |-> 1, request |-> calls[g][k].request]]
  /\ Tell(k, "denied")
  /\ Return(g, k)
  /\ UNCHANGED <<running, workers, files, dispatched, held>>

(* The key is taken: another process was faster.  Its Operation, if the      *)
(* request is the same, is dispatched when it may still be; anything else    *)
(* but a denial throws.                                                      *)
CreateIsLate(g, k) ==
  LET same == operations[k].request = calls[g][k].request
  IN  /\ calls[g][k].phase = "decided"
      /\ operations[k].status # "none"
      /\ IF same /\ operations[k].status = "authorized"
         THEN /\ SetCall(g, k, [calls[g][k] EXCEPT !.phase = "dispatching",
                                                   !.version = operations[k].version])
              /\ UNCHANGED told
         ELSE /\ Return(g, k)
              /\ IF same /\ operations[k].status = "denied"
                 THEN Tell(k, "denied") ELSE UNCHANGED told
      /\ UNCHANGED <<running, operations, workers, files, dispatched, held>>

Reauthorize(g, k) ==
  /\ calls[g][k].phase = "reauthorizing"
  /\ calls[g][k].request.lease \in running
  /\ Advance(g, k, "dispatching")
  /\ UNCHANGED <<running, operations, workers, files, dispatched, told, held>>

(* authorization_expired_before_execution, or the authority is out of reach. *)
ReauthorizationFails(g, k) ==
  /\ calls[g][k].phase = "reauthorizing"
  /\ Finish(g, k, "failed")
  /\ UNCHANGED <<running, workers, files, dispatched, held>>

-----------------------------------------------------------------------------
(* dispatch *)

StartWorker(k) ==
  /\ workers' = [workers EXCEPT ![k] =
       [phase |-> "started", answer |-> "none", wrote |-> FALSE]]
  /\ dispatched' = [dispatched EXCEPT ![k] = TRUE]

Exit(k, answer) ==
  workers' = [workers EXCEPT ![k] = [@ EXCEPT !.phase = "exited", !.answer = answer]]

(* The signal had fired already: cancelled_before_execution.                 *)
CancelBeforeDispatch(g, k) ==
  /\ calls[g][k].phase = "dispatching"
  /\ Finish(g, k, "failed")
  /\ UNCHANGED <<running, workers, files, dispatched, held>>

(* Mutant: the worker is started before the status is committed.             *)
DispatchFirst(g, k) ==
  /\ calls[g][k].phase = "dispatching"
  /\ RowIsCurrent(g, k)
  /\ StartWorker(k)
  /\ Advance(g, k, "executing")
  /\ UNCHANGED <<running, operations, files, told, held>>

Dispatch(g, k) ==
  /\ calls[g][k].phase = "dispatching"
  /\ RowIsCurrent(g, k)
  /\ WriteRow(k, "executing")
  /\ StartWorker(k)
  /\ SetCall(g, k, [calls[g][k] EXCEPT !.phase = "executing",
                                       !.version = operations[k].version + 1])
  /\ UNCHANGED <<running, files, told, held>>

(* Operation changed concurrently: the call throws.                          *)
DispatchIsLate(g, k) ==
  /\ calls[g][k].phase = "dispatching"
  /\ ~RowIsCurrent(g, k)
  /\ Return(g, k)
  /\ UNCHANGED <<running, operations, workers, files, dispatched, told, held>>

(* An answer that cannot be stored because the row has changed is dropped:   *)
(* the catch block's own transition finds the row changed, too.              *)
WorkerAnswers(g, k) ==
  /\ calls[g][k].phase = "executing"
  /\ workers[k].phase = "exited"
  /\ workers[k].answer \in {"succeeded", "failed"}
  /\ Finish(g, k, workers[k].answer)
  /\ UNCHANGED <<running, workers, files, dispatched, held>>

(* It exited with a code, or without an answer that can be parsed.           *)
WorkerIsLost(g, k) ==
  /\ calls[g][k].phase = "executing"
  /\ workers[k].phase = "exited" /\ workers[k].answer = "lost"
  /\ LoseTrack(g, k)
  /\ UNCHANGED <<running, workers, files, dispatched, held>>

WorkerRuns(k) == workers[k].phase \in {"started", "writing", "written"}

(* Mutant: the timer is cleared as soon as the worker has begun to write.    *)
RunsUntouched(k) == workers[k].phase = "started"

(* The timer and the abort listener are there until the call has settled,    *)
(* which is when the worker's pipes are closed: it may have exited before.   *)
CanBeKilled(k) == workers[k].phase # "none"

(* SIGKILL has no effect on a worker that has exited.                        *)
Kill(k) == IF WorkerRuns(k) THEN Exit(k, "lost") ELSE UNCHANGED workers

(* The Operation is unknown: the rename was done or was not.                 *)
TimeoutOrAbort(g, k) ==
  /\ calls[g][k].phase = "executing"
  /\ CanBeKilled(k)
  /\ Kill(k)
  /\ LoseTrack(g, k)
  /\ UNCHANGED <<running, files, dispatched, held>>

-----------------------------------------------------------------------------
(* reconcile *)

ReconcileFinal(g, k) ==
  /\ MayBegin(g, k)
  /\ operations[k].status \in Final
  /\ Tell(k, operations[k].status)
  /\ UNCHANGED <<running, operations, calls, workers, files, dispatched, held>>

(* not_dispatched: read and written without an await between them.           *)
ReconcileAuthorized(g, k) ==
  /\ MayBegin(g, k)
  /\ operations[k].status = "authorized"
  /\ WriteRow(k, "failed")
  /\ Tell(k, "failed")
  /\ UNCHANGED <<running, calls, workers, files, dispatched, held>>

ReconcileUnsettled(g, k) ==
  /\ MayBegin(g, k)
  /\ MayReconcile(k)
  /\ SetCall(g, k, Invocation(operations[k].request, "reconciling"))
  /\ UNCHANGED <<running, operations, workers, files, dispatched, told, held>>

(* Mutant: a target that is not the old content any more was written by us.  *)
VerdictByChange(req) ==
  IF files[req.path] # req.expected THEN "applied" ELSE "not_applied"

Verdict(req) ==
  IF files[req.path] = req.content THEN "applied"
  ELSE IF files[req.path] = req.expected THEN "not_applied"
  ELSE "unknown"

(* A worker that only reads; without an answer the verdict is unknown.       *)
ReconcileReads(g, k) ==
  /\ calls[g][k].phase = "reconciling"
  /\ calls[g][k].verdict = "none"
  /\ \E verdict \in {Verdict(operations[k].request), "unknown"} :
       SetCall(g, k, [calls[g][k] EXCEPT !.verdict = verdict])
  /\ UNCHANGED <<running, operations, workers, files, dispatched, told, held>>

ReconcileSettles(g, k) ==
  /\ calls[g][k].phase = "reconciling"
  /\ \/ calls[g][k].verdict = "applied" /\ Finish(g, k, "succeeded")
     \/ calls[g][k].verdict = "not_applied" /\ Finish(g, k, "failed")
  /\ UNCHANGED <<running, workers, files, dispatched, held>>

ReconcileIsInconclusive(g, k) ==
  /\ calls[g][k].phase = "reconciling"
  /\ calls[g][k].verdict = "unknown"
  /\ LoseTrack(g, k)
  /\ UNCHANGED <<running, workers, files, dispatched, held>>

-----------------------------------------------------------------------------
(* The worker. *)

Intent(k) == operations[k].request

(* inspectTarget and the comparison with expectedDigest.                     *)
WorkerInspects(k) ==
  LET current == files[Intent(k).path]
  IN  /\ workers[k].phase = "started"
      /\ IF current = Intent(k).content THEN Exit(k, "succeeded")
         ELSE IF current = Intent(k).expected
              THEN workers' = [workers EXCEPT ![k].phase = "writing"]
              ELSE Exit(k, "failed")
      /\ UNCHANGED <<running, operations, calls, files, dispatched, told, held>>

Put(path, content) ==
  /\ files' = [files EXCEPT ![path] = content]
  /\ held' = [held EXCEPT ![path] = @ \cup {content}]

(* rename(temporary, target): whatever the target has become.                *)
WorkerRenames(k) ==
  /\ workers[k].phase = "writing"
  /\ Put(Intent(k).path, Intent(k).content)
  /\ workers' = [workers EXCEPT ![k].phase = "written", ![k].wrote = TRUE]
  /\ UNCHANGED <<running, operations, calls, dispatched, told>>

(* The second inspection; a target that differs makes the worker exit 1.     *)
WorkerVerifies(k) ==
  /\ workers[k].phase = "written"
  /\ Exit(k, IF files[Intent(k).path] = Intent(k).content THEN "succeeded" ELSE "lost")
  /\ UNCHANGED <<running, operations, calls, files, dispatched, told, held>>

(* It dies of its own: out of memory, a full disk, the machine goes down.    *)
WorkerDies(k) ==
  /\ WorkerRuns(k)
  /\ Exit(k, "lost")
  /\ UNCHANGED <<running, operations, calls, files, dispatched, told, held>>

-----------------------------------------------------------------------------
(* Around the gateway. *)

(* A process dies.  Its calls are gone; its workers go on.                   *)
Crash(g) ==
  /\ \E k \in Calls : calls[g][k].phase # "idle"
  /\ calls' = [calls EXCEPT ![g] = [k \in Calls |-> NoCall]]
  /\ UNCHANGED <<running, operations, workers, files, dispatched, told, held>>

(* The lease runs out, the RoleRun settles or the Run stops: none of it is   *)
(* ever undone for the same fencing token.                                   *)
LeaseEnds(l) ==
  /\ l \in running
  /\ running' = running \ {l}
  /\ UNCHANGED <<operations, calls, workers, files, dispatched, told, held>>

(* Somebody else edits the workspace.                                        *)
Edit(path, content) ==
  /\ files[path] # content
  /\ Put(path, content)
  /\ UNCHANGED <<running, operations, calls, workers, dispatched, told>>

-----------------------------------------------------------------------------

Invoke(g, req) ==
  \/ InvokeNew(g, req)
  \/ ReplayFinal(g, req)
  \/ ReplayAuthorized(g, req)
  \/ ReplayUnsettled(g, req)

Reconcile(g, k) ==
  \/ ReconcileFinal(g, k)
  \/ ReconcileAuthorized(g, k)
  \/ ReconcileUnsettled(g, k)

(* What a process does with a call it has begun.                             *)
GatewayStep(g, k) ==
  \/ ReadAuthority(g, k)
  \/ CreateAuthorized(g, k)
  \/ CreateDenied(g, k)
  \/ CreateIsLate(g, k)
  \/ Reauthorize(g, k)
  \/ ReauthorizationFails(g, k)
  \/ CancelBeforeDispatch(g, k)
  \/ Dispatch(g, k)
  \/ DispatchIsLate(g, k)
  \/ WorkerAnswers(g, k)
  \/ WorkerIsLost(g, k)
  \/ TimeoutOrAbort(g, k)
  \/ ReconcileReads(g, k)
  \/ ReconcileSettles(g, k)
  \/ ReconcileIsInconclusive(g, k)

WorkerStep(k) ==
  \/ WorkerInspects(k)
  \/ WorkerRenames(k)
  \/ WorkerVerifies(k)
  \/ WorkerDies(k)

Environment ==
  \/ \E g \in Gateways : Crash(g)
  \/ \E l \in Leases : LeaseEnds(l)
  \/ \E path \in Paths, content \in Contents : Edit(path, content)

Next ==
  \/ \E g \in Gateways, req \in Requests : Invoke(g, req)
  \/ \E g \in Gateways, k \in Calls : Reconcile(g, k) \/ GatewayStep(g, k)
  \/ \E k \in Calls : WorkerStep(k)
  \/ Environment

Spec == Init /\ [][Next]_vars

(* The event loop, the timers and SQLite's busy timeout get a call on its    *)
(* way; nothing makes a worker, a person or a crash come.                    *)
FairSpec ==
  Spec /\ \A g \in Gateways, k \in Calls : WF_vars(GatewayStep(g, k))

-----------------------------------------------------------------------------
(* Safety. *)

(* A call begun after its lease was lost never gets to a worker: a stale     *)
(* worker process cannot have a side effect carried out, not even one that   *)
(* was authorized while its lease was good.  It holds of one gateway process *)
(* per ledger; the run claim_lost_lease shows how two of them break it.      *)
LostLeaseNeverDispatches ==
  \A g \in Gateways, k \in Calls :
    calls[g][k].late => calls[g][k].phase \notin {"dispatching", "executing"}

(* What is reported as written was really in the file, whoever settled it:   *)
(* the worker's own answer, a late one, or a reconciliation after a crash.   *)
SuccessIsReal ==
  \A k \in Calls : operations[k].status = "succeeded" =>
    operations[k].request.content \in held[operations[k].request.path]

(* The worker touches the workspace only for an Operation whose Intent and   *)
(* whose status executing were committed before.                             *)
EffectFollowsIntent ==
  \A k \in Calls : workers[k].phase # "none" =>
    /\ operations[k].status \notin {"none", "authorized", "denied"}
    /\ operations[k].request \in Permitted

(* The processes together keep the promises of the abstract ledger: one      *)
(* dispatch, final outcomes that stay, and no caller told anything else.     *)
Ledger == INSTANCE OperationLedger
            WITH status <- [k \in Calls |-> operations[k].status]

ImplementsLedger == Ledger!Spec

-----------------------------------------------------------------------------
(* Liveness. *)

(* Every call comes back, a worker that hangs and processes that overtake    *)
(* each other included.                                                      *)
EveryCallReturns ==
  \A g \in Gateways, k \in Calls :
    (calls[g][k].phase # "idle") ~> (calls[g][k].phase = "idle")

-----------------------------------------------------------------------------
(* What docs/design/tool-gateway-v0.1.md says and the code does otherwise. *)

(* Interruption and reconciliation: a target in its old state is recorded as *)
(* not applied, a known failure.                                             *)
FailedIsNotApplied ==
  \A k \in Calls : operations[k].status = "failed" => ~workers[k].wrote

(* Fixed tool contract: writing is a compare-and-set that does not overwrite *)
(* concurrent changes.                                                       *)
WriteIsCompareAndSet ==
  [][\A k \in Calls :
       workers'[k].wrote /\ ~workers[k].wrote =>
         files[Intent(k).path] = Intent(k).expected]_vars
=============================================================================
