-------------------------- MODULE ToolGatewayProofs --------------------------
(* The tool gateway for every number of processes, calls, requests, leases   *)
(* and files, and with no bound on reconciliation.                           *)
EXTENDS ToolGateway, TLAPS

-----------------------------------------------------------------------------
(* The inductive invariant. *)

(* The statuses of an Operation that was dispatched, or withdrawn.           *)
Begun == {"executing", "unknown", "failed", "succeeded"}

(* The version tells how far an Operation has come: 1 as it is created, more *)
(* from its dispatch on, before which no worker is started.                  *)
RowSound(k) ==
  LET o == operations[k]
  IN  /\ o.version = 0 <=> o.status = "none"
      /\ o.version = 1 <=> o.status \in {"authorized", "denied"}
      /\ o.status # "none" => o.request.call = k
      /\ o.status \notin {"none", "denied"} => o.request \in Permitted
      /\ o.status \in {"none", "authorized", "denied"} =>
           ~dispatched[k] /\ workers[k].phase = "none"

(* What a process remembers of the row is never ahead of it; and as long as  *)
(* the versions agree the row is still what the process read.                *)
CallSound(g, k) ==
  LET c == calls[g][k]
      o == operations[k]
  IN  /\ c.version <= o.version
      /\ c.phase # "idle" => c.request.call = k
      /\ c.phase = "decided" /\ c.allowed => c.request \in Permitted
      /\ c.phase \in {"reauthorizing", "dispatching"} =>
           c.version = 1 /\ o.status \in {"authorized"} \cup Begun
      /\ c.phase = "executing" =>
           o.status \in Begun /\ (o.version = c.version => o.status = "executing")
      /\ c.phase = "reconciling" =>
           /\ o.status \in Begun
           /\ o.version = c.version => o.status \in {"executing", "unknown"}
      /\ c.verdict # "none" => c.phase = "reconciling"

LedgerInv ==
  /\ \A k \in Calls : RowSound(k)
  /\ \A g \in Gateways, k \in Calls : CallSound(g, k)

-----------------------------------------------------------------------------
(* Types. *)

CallsTyped ==
  /\ calls \in [Gateways -> [Calls -> Call]]
  /\ \A g \in Gateways, k \in Calls :
       calls[g][k].phase = "idle" <=> calls[g][k].request = Nil

RowsTyped ==
  /\ operations \in [Calls -> Operation]
  /\ \A k \in Calls : operations[k].status = "none" <=> operations[k].request = Nil

WorkersTyped ==
  /\ workers \in [Calls -> Worker]
  /\ \A k \in Calls : workers[k].phase = "exited" <=> workers[k].answer # "none"

RestTyped ==
  /\ running \subseteq Leases
  /\ files \in [Paths -> Contents]
  /\ dispatched \in [Calls -> BOOLEAN]
  /\ told \in [Calls -> SUBSET Final]
  /\ held \in [Paths -> SUBSET Contents]

(* TypeOK is its four parts, before and after a step.                         *)
LEMMA TypeParts ==
  /\ TypeOK <=> CallsTyped /\ RowsTyped /\ WorkersTyped /\ RestTyped
  /\ TypeOK' <=> CallsTyped' /\ RowsTyped' /\ WorkersTyped' /\ RestTyped'
BY DEF TypeOK, CallsTyped, RowsTyped, WorkersTyped, RestTyped

(* The rows of one call.                                                      *)
LEMMA Fields ==
  ASSUME TypeOK, NEW g \in Gateways, NEW k \in Calls
  PROVE  /\ calls[g][k] \in Call /\ operations[k] \in Operation /\ workers[k] \in Worker
         /\ calls[g][k].phase \in Phase /\ calls[g][k].version \in Nat
         /\ operations[k].status \in Status /\ operations[k].version \in Nat
         /\ calls[g][k].phase # "idle" => calls[g][k].request \in Requests
         /\ operations[k].status # "none" => operations[k].request \in Requests
BY DEF TypeOK, Call, Operation

(* A call that is new, with the version of the row it was read from.          *)
LEMMA InvocationRow ==
  ASSUME TypeOK, NEW req \in Requests, NEW phase \in Phase \ {"idle"}
  PROVE  /\ Invocation(req, phase) \in Call
         /\ Invocation(req, phase).phase = phase
         /\ Invocation(req, phase).request = req
         /\ Invocation(req, phase).version = operations[req.call].version
         /\ Invocation(req, phase).verdict = "none"
         /\ Invocation(req, phase).allowed = FALSE
         /\ Invocation(req, phase).late = (req.lease \notin running)
<1>1. req.call \in Calls /\ operations[req.call].version \in Nat
  BY RequestAssumption DEF Request, TypeOK, Operation
<1> QED BY <1>1 DEF Invocation, NoCall, Call

(* A process that is in no call about an Operation.                          *)
LEMMA NoCallRow == NoCall \in Call /\ NoCall.phase = "idle" /\ NoCall.request = Nil
BY DEF NoCall, Call, Phase

(* Writing one call keeps the calls typed.                                    *)
LEMMA CallWritten ==
  ASSUME TypeOK, NEW g \in Gateways, NEW k \in Calls, NEW call \in Call,
         call.phase = "idle" <=> call.request = Nil,
         SetCall(g, k, call)
  PROVE  CallsTyped'
<1> USE DEF SetCall
<1>1. calls' \in [Gateways -> [Calls -> Call]]
  BY DEF TypeOK
<1>2. ASSUME NEW h \in Gateways, NEW j \in Calls
      PROVE  calls'[h][j].phase = "idle" <=> calls'[h][j].request = Nil
  BY DEF TypeOK
<1> QED BY <1>1, <1>2 DEF CallsTyped

(* A call that returns leaves calls of the right type.                       *)
LEMMA ReturnTyped ==
  ASSUME TypeOK, NEW g \in Gateways, NEW k \in Calls, Return(g, k)
  PROVE  CallsTyped'
BY CallWritten, NoCallRow DEF Return

(* Moving a call on keeps the calls typed.                                    *)
LEMMA AdvanceTyped ==
  ASSUME TypeOK, NEW g \in Gateways, NEW k \in Calls, calls[g][k].phase # "idle",
         NEW call \in Call, call.phase # "idle", call.request = calls[g][k].request,
         SetCall(g, k, call)
  PROVE  CallsTyped'
BY CallWritten DEF TypeOK

(* Writing the row of an Operation that exists keeps the rows typed.          *)
LEMMA RowWritten ==
  ASSUME TypeOK, NEW k \in Calls, NEW status \in Status \ {"none"},
         operations[k].status # "none", WriteRow(k, status)
  PROVE  RowsTyped'
<1>1. operations[k].version + 1 \in Nat /\ operations[k] \in Operation
  BY DEF TypeOK, Operation
<1>2. operations' \in [Calls -> Operation]
  BY <1>1 DEF TypeOK, WriteRow, Operation
<1>3. ASSUME NEW j \in Calls
      PROVE  operations'[j].status = "none" <=> operations'[j].request = Nil
  BY <1>1 DEF TypeOK, WriteRow, Operation
<1> QED BY <1>2, <1>3 DEF RowsTyped

(* Telling a caller keeps what was told typed.                                *)
LEMMA TellTyped ==
  ASSUME TypeOK, NEW k \in Calls
  PROVE  /\ \A outcome \in Final : Tell(k, outcome) => told' \in [Calls -> SUBSET Final]
         /\ TellStored(k) => told' \in [Calls -> SUBSET Final]
<1>1. ASSUME NEW outcome \in Final, Tell(k, outcome)
      PROVE  told' \in [Calls -> SUBSET Final]
  BY <1>1 DEF TypeOK, Tell
<1> QED BY <1>1 DEF TypeOK, TellStored

(* So do the two ways in which a call ends with a write.                      *)
LEMMA EndTyped ==
  ASSUME TypeOK, NEW g \in Gateways, NEW k \in Calls, operations[k].status # "none",
         \/ Finish(g, k, "failed") \/ Finish(g, k, "succeeded") \/ LoseTrack(g, k)
  PROVE  CallsTyped' /\ RowsTyped' /\ told' \in [Calls -> SUBSET Final]
<1>1. CallsTyped'
  BY ReturnTyped DEF Finish, LoseTrack
<1>2. RowsTyped'
  <2>1. CASE RowIsCurrent(g, k)
    BY <2>1, RowWritten DEF Finish, LoseTrack, Status
  <2>2. CASE ~RowIsCurrent(g, k)
    BY <2>2 DEF Finish, LoseTrack, TypeOK, RowsTyped
  <2> QED BY <2>1, <2>2
<1>3. told' \in [Calls -> SUBSET Final]
  <2>1. CASE LoseTrack(g, k)
    BY <2>1 DEF LoseTrack, TypeOK
  <2>2. CASE Finish(g, k, "failed") \/ Finish(g, k, "succeeded")
    BY <2>2, TellTyped DEF Finish, Final
  <2> QED BY <2>1, <2>2
<1> QED BY <1>1, <1>2, <1>3

(* invoke and reconcile begin a call or answer it from the row.               *)
LEMMA TypeOfBeginning ==
  ASSUME TypeOK, NEW g \in Gateways
  PROVE  /\ \A req \in Requests : Invoke(g, req) => TypeOK'
         /\ \A k \in Calls : Reconcile(g, k) => TypeOK'
<1> USE TypeParts
<1>1. ASSUME NEW req \in Requests, Invoke(g, req) PROVE TypeOK'
  <2>1. req.call \in Calls
    BY RequestAssumption DEF Request
  <2>2. CASE ReplayFinal(g, req)
    <3>1. told' \in [Calls -> SUBSET Final]
      BY <2>1, <2>2, TellTyped DEF ReplayFinal
    <3> QED BY <2>2, <3>1 DEF ReplayFinal, CallsTyped, RowsTyped, WorkersTyped, RestTyped
  <2>3. ASSUME NEW phase \in Phase \ {"idle"}, SetCall(g, req.call, Invocation(req, phase)),
               UNCHANGED <<running, operations, workers, files, dispatched, told, held>>
        PROVE  TypeOK'
    <3>1. CallsTyped'
      <4>1. /\ Invocation(req, phase) \in Call
            /\ Invocation(req, phase).phase # "idle" /\ Invocation(req, phase).request # Nil
        BY InvocationRow, RequestAssumption
      <4> QED BY <2>1, <2>3, <4>1, CallWritten
    <3> QED BY <2>3, <3>1 DEF RowsTyped, WorkersTyped, RestTyped
  <2> QED BY <1>1, <2>2, <2>3 DEF Invoke, InvokeNew, ReplayAuthorized, ReplayUnsettled, Phase
<1>2. ASSUME NEW k \in Calls, Reconcile(g, k) PROVE TypeOK'
  <2>1. CASE ReconcileFinal(g, k)
    <3>1. told' \in [Calls -> SUBSET Final]
      BY <2>1, TellTyped DEF ReconcileFinal
    <3> QED BY <2>1, <3>1 DEF ReconcileFinal, CallsTyped, RowsTyped, WorkersTyped, RestTyped
  <2>2. CASE ReconcileAuthorized(g, k)
    <3>1. RowsTyped'
      BY <2>2, RowWritten DEF ReconcileAuthorized, Status
    <3>2. told' \in [Calls -> SUBSET Final]
      BY <2>2, TellTyped DEF ReconcileAuthorized, Final
    <3> QED BY <2>2, <3>1, <3>2 DEF ReconcileAuthorized, CallsTyped, WorkersTyped, RestTyped
  <2>3. CASE ReconcileUnsettled(g, k)
    <3>1. operations[k].request \in Requests
      BY <2>3, Fields DEF ReconcileUnsettled, MayReconcile
    <3>2. Invocation(operations[k].request, "reconciling") \in Call
          /\ Invocation(operations[k].request, "reconciling").phase # "idle"
          /\ Invocation(operations[k].request, "reconciling").request # Nil
      <4>1. "reconciling" \in Phase \ {"idle"}
        BY DEF Phase
      <4>2. \A phase \in Phase \ {"idle"} :
              /\ Invocation(operations[k].request, phase) \in Call
              /\ Invocation(operations[k].request, phase).phase = phase
              /\ Invocation(operations[k].request, phase).request = operations[k].request
        BY <3>1, InvocationRow
      <4> QED BY <3>1, <4>1, <4>2, RequestAssumption
    <3>3. CallsTyped'
      BY <2>3, <3>2, CallWritten DEF ReconcileUnsettled
    <3> QED BY <2>3, <3>3 DEF ReconcileUnsettled, RowsTyped, WorkersTyped, RestTyped
  <2> QED BY <1>2, <2>1, <2>2, <2>3 DEF Reconcile
<1> QED BY <1>1, <1>2

(* The steps of a call until its Operation is there.                          *)
LEMMA TypeOfCreation ==
  ASSUME TypeOK, NEW g \in Gateways, NEW k \in Calls,
         ReadAuthority(g, k) \/ CreateAuthorized(g, k) \/ CreateDenied(g, k) \/ CreateIsLate(g, k)
  PROVE  TypeOK'
<1> USE TypeParts
<1>1. calls[g][k] \in Call /\ (calls[g][k].phase # "idle" => calls[g][k].request \in Requests)
  BY Fields
<1>2. CASE ReadAuthority(g, k)
  <2>1. PICK allowed \in BOOLEAN :
          SetCall(g, k, [calls[g][k] EXCEPT !.phase = "decided", !.allowed = allowed])
    BY <1>2 DEF ReadAuthority
  <2> DEFINE call == [calls[g][k] EXCEPT !.phase = "decided", !.allowed = allowed]
  <2>2. call \in Call /\ call.phase # "idle" /\ call.request = calls[g][k].request
    BY <1>1 DEF Call, Phase
  <2>4. CallsTyped'
    BY <1>2, <2>1, <2>2, AdvanceTyped DEF ReadAuthority
  <2> QED BY <1>2, <2>4 DEF ReadAuthority, RowsTyped, WorkersTyped, RestTyped
<1>3. ASSUME NEW status \in {"authorized", "denied"}, calls[g][k].phase = "decided",
             operations' = [operations EXCEPT ![k] =
               [status |-> status, version |-> 1, request |-> calls[g][k].request]]
      PROVE  RowsTyped'
  <2>1. [status |-> status, version |-> 1, request |-> calls[g][k].request] \in Operation
    BY <1>1, <1>3 DEF Operation, Status
  <2> QED BY <1>1, <1>3, <2>1, RequestAssumption DEF RowsTyped, TypeOK
<1>4. CASE CreateAuthorized(g, k)
  <2> DEFINE call == [calls[g][k] EXCEPT !.phase = "dispatching", !.version = 1]
  <2>1. SetCall(g, k, call) /\ calls[g][k].phase = "decided"
    BY <1>4 DEF CreateAuthorized
  <2>2. call \in Call /\ call.phase # "idle" /\ call.request = calls[g][k].request
    BY <1>1 DEF Call, Phase
  <2>3. CallsTyped'
    BY <2>1, <2>2, AdvanceTyped
  <2> QED BY <1>3, <1>4, <2>3 DEF CreateAuthorized, WorkersTyped, RestTyped
<1>5. CASE CreateDenied(g, k)
  <2>1. CallsTyped' /\ told' \in [Calls -> SUBSET Final]
    BY <1>5, ReturnTyped, TellTyped DEF CreateDenied, Final
  <2> QED BY <1>3, <1>5, <2>1 DEF CreateDenied, WorkersTyped, RestTyped
<1>6. CASE CreateIsLate(g, k)
  <2>1. CallsTyped'
    <3>1. CASE Return(g, k)
      BY <3>1, ReturnTyped
    <3>2. CASE SetCall(g, k, [calls[g][k] EXCEPT !.phase = "dispatching",
                                                 !.version = operations[k].version])
      <4> DEFINE call == [calls[g][k] EXCEPT !.phase = "dispatching",
                                             !.version = operations[k].version]
      <4>1. call \in Call /\ call.phase # "idle" /\ call.request = calls[g][k].request
        BY <1>1, Fields DEF Call, Phase
      <4> QED BY <1>6, <3>2, <4>1, AdvanceTyped DEF CreateIsLate
    <3> QED BY <1>6, <3>1, <3>2 DEF CreateIsLate
  <2>2. told' \in [Calls -> SUBSET Final]
    BY <1>6, TellTyped DEF CreateIsLate, Final, TypeOK
  <2> QED BY <1>6, <2>1, <2>2 DEF CreateIsLate, RowsTyped, WorkersTyped, RestTyped
<1> QED BY <1>2, <1>4, <1>5, <1>6

(* A call past its creation is one of an Operation that is there.             *)
LEMMA OperationIsThere ==
  ASSUME LedgerInv, NEW g \in Gateways, NEW k \in Calls,
         calls[g][k].phase \in {"reauthorizing", "dispatching", "executing", "reconciling"}
  PROVE  operations[k].status \in {"authorized"} \cup Begun
BY DEF LedgerInv, CallSound

(* A worker that ends leaves an answer.                                       *)
LEMMA ExitTyped ==
  ASSUME TypeOK, NEW k \in Calls, NEW answer \in {"succeeded", "failed", "lost"},
         Exit(k, answer)
  PROVE  WorkersTyped'
<1>1. workers'[k] = [workers[k] EXCEPT !.phase = "exited", !.answer = answer]
  BY DEF Exit, TypeOK
<1>2. workers' \in [Calls -> Worker]
  BY DEF Exit, TypeOK, Worker
<1>3. workers'[k].phase = "exited" /\ workers'[k].answer # "none"
  BY <1>1 DEF TypeOK, Worker
<1>4. \A j \in Calls : j # k => workers'[j] = workers[j]
  BY DEF Exit, TypeOK
<1> QED BY <1>2, <1>3, <1>4 DEF WorkersTyped, TypeOK

(* The steps of a call that is dispatched.                                    *)
LEMMA TypeOfExecution ==
  ASSUME TypeOK, LedgerInv, NEW g \in Gateways, NEW k \in Calls,
         \/ Reauthorize(g, k) \/ ReauthorizationFails(g, k) \/ CancelBeforeDispatch(g, k)
         \/ Dispatch(g, k) \/ DispatchIsLate(g, k) \/ WorkerAnswers(g, k)
         \/ WorkerIsLost(g, k) \/ TimeoutOrAbort(g, k)
  PROVE  TypeOK'
<1> USE TypeParts
<1>1. /\ calls[g][k] \in Call /\ calls[g][k].phase # "idle"
      /\ operations[k].status # "none" /\ operations[k].version + 1 \in Nat
  BY Fields, OperationIsThere
     DEF Begun, Reauthorize, ReauthorizationFails, CancelBeforeDispatch, Dispatch,
         DispatchIsLate, WorkerAnswers, WorkerIsLost, TimeoutOrAbort
<1>2. CASE Reauthorize(g, k)
  <2> DEFINE call == [calls[g][k] EXCEPT !.phase = "dispatching"]
  <2>1. SetCall(g, k, call)
    BY <1>2 DEF Reauthorize, Advance
  <2>2. call \in Call /\ call.phase # "idle" /\ call.request = calls[g][k].request
    BY <1>1 DEF Call, Phase
  <2>3. CallsTyped'
    BY <1>1, <2>1, <2>2, AdvanceTyped
  <2> QED BY <1>2, <2>3 DEF Reauthorize, RowsTyped, WorkersTyped, RestTyped
<1>3. CASE ReauthorizationFails(g, k) \/ CancelBeforeDispatch(g, k)
  <2>1. CallsTyped' /\ RowsTyped' /\ told' \in [Calls -> SUBSET Final]
    BY <1>1, <1>3, EndTyped DEF ReauthorizationFails, CancelBeforeDispatch
  <2> QED BY <1>3, <2>1 DEF ReauthorizationFails, CancelBeforeDispatch, WorkersTyped, RestTyped
<1>4. CASE Dispatch(g, k)
  <2> DEFINE call == [calls[g][k] EXCEPT !.phase = "executing",
                                         !.version = operations[k].version + 1]
  <2>1. SetCall(g, k, call)
    BY <1>4 DEF Dispatch
  <2>2. call \in Call /\ call.phase # "idle" /\ call.request = calls[g][k].request
    BY <1>1 DEF Call, Phase
  <2>3. CallsTyped'
    BY <1>1, <2>1, <2>2, AdvanceTyped
  <2>4. RowsTyped'
    BY <1>1, <1>4, RowWritten DEF Dispatch, Status
  <2>5. WorkersTyped' /\ dispatched' \in [Calls -> BOOLEAN]
    BY <1>4 DEF Dispatch, StartWorker, WorkersTyped, Worker, TypeOK
  <2> QED BY <1>4, <2>3, <2>4, <2>5 DEF Dispatch, RestTyped
<1>5. CASE DispatchIsLate(g, k)
  <2>1. CallsTyped'
    BY <1>5, ReturnTyped DEF DispatchIsLate
  <2> QED BY <1>5, <2>1 DEF DispatchIsLate, RowsTyped, WorkersTyped, RestTyped
<1>6. CASE WorkerAnswers(g, k) \/ WorkerIsLost(g, k)
  <2>1. CallsTyped' /\ RowsTyped' /\ told' \in [Calls -> SUBSET Final]
    BY <1>1, <1>6, EndTyped DEF WorkerAnswers, WorkerIsLost
  <2> QED BY <1>6, <2>1 DEF WorkerAnswers, WorkerIsLost, WorkersTyped, RestTyped
<1>7. CASE TimeoutOrAbort(g, k)
  <2>1. CallsTyped' /\ RowsTyped' /\ told' \in [Calls -> SUBSET Final]
    BY <1>1, <1>7, EndTyped DEF TimeoutOrAbort
  <2>2. WorkersTyped'
    BY <1>7, ExitTyped DEF TimeoutOrAbort, Kill, WorkersTyped
  <2> QED BY <1>7, <2>1, <2>2 DEF TimeoutOrAbort, RestTyped
<1> QED BY <1>2, <1>3, <1>4, <1>5, <1>6, <1>7

(* The steps of a reconciliation.                                             *)
LEMMA TypeOfReconciling ==
  ASSUME TypeOK, LedgerInv, NEW g \in Gateways, NEW k \in Calls,
         ReconcileReads(g, k) \/ ReconcileSettles(g, k) \/ ReconcileIsInconclusive(g, k)
  PROVE  TypeOK'
<1> USE TypeParts
<1>1. /\ calls[g][k] \in Call /\ calls[g][k].phase # "idle" /\ operations[k].status # "none"
  BY Fields, OperationIsThere
     DEF Begun, ReconcileReads, ReconcileSettles, ReconcileIsInconclusive
<1>2. CASE ReconcileReads(g, k)
  <2>1. PICK verdict \in {"applied", "not_applied", "unknown"} :
          SetCall(g, k, [calls[g][k] EXCEPT !.verdict = verdict])
    BY <1>2 DEF ReconcileReads, Verdict
  <2> DEFINE call == [calls[g][k] EXCEPT !.verdict = verdict]
  <2>2. call \in Call /\ call.phase # "idle" /\ call.request = calls[g][k].request
    BY <1>1 DEF Call
  <2>3. CallsTyped'
    BY <1>1, <2>1, <2>2, AdvanceTyped
  <2> QED BY <1>2, <2>3 DEF ReconcileReads, RowsTyped, WorkersTyped, RestTyped
<1>3. CASE ReconcileSettles(g, k) \/ ReconcileIsInconclusive(g, k)
  <2>1. CallsTyped' /\ RowsTyped' /\ told' \in [Calls -> SUBSET Final]
    BY <1>1, <1>3, EndTyped DEF ReconcileSettles, ReconcileIsInconclusive
  <2> QED BY <1>3, <2>1 DEF ReconcileSettles, ReconcileIsInconclusive, WorkersTyped, RestTyped
<1> QED BY <1>2, <1>3

(* A worker acts on the Intent that was committed.                            *)
LEMMA IntentIsThere ==
  ASSUME TypeOK, LedgerInv, NEW k \in Calls, workers[k].phase # "none"
  PROVE  /\ operations[k].status \in Begun /\ Intent(k) \in Requests
         /\ Intent(k).path \in Paths /\ Intent(k).content \in Contents
<1>1. operations[k].status \in Begun
  BY DEF LedgerInv, RowSound, TypeOK, Operation, Status, Begun
<1>2. Intent(k) \in Requests
  BY <1>1 DEF TypeOK, Operation, Intent, Begun
<1> QED BY <1>1, <1>2, RequestAssumption DEF Request

(* The steps of a worker.                                                     *)
LEMMA TypeOfWorker ==
  ASSUME TypeOK, LedgerInv, NEW k \in Calls, WorkerStep(k)
  PROVE  TypeOK'
<1> USE TypeParts
<1>1. CASE WorkerRenames(k)
  <2>1. WorkersTyped'
    BY <1>1 DEF WorkerRenames, WorkersTyped, Worker, TypeOK
  <2>2. Intent(k).path \in Paths /\ Intent(k).content \in Contents
    BY <1>1, IntentIsThere DEF WorkerRenames
  <2>3. files' \in [Paths -> Contents] /\ held' \in [Paths -> SUBSET Contents]
    BY <1>1, <2>2 DEF WorkerRenames, Put, TypeOK
  <2> QED BY <1>1, <2>1, <2>3 DEF WorkerRenames, CallsTyped, RowsTyped, RestTyped
<1>2. CASE WorkerInspects(k) \/ WorkerVerifies(k) \/ WorkerDies(k)
  <2>1. WorkersTyped'
    <3>1. CASE \E answer \in {"succeeded", "failed", "lost"} : Exit(k, answer)
      BY <3>1, ExitTyped
    <3>2. CASE workers[k].phase = "started" /\ workers' = [workers EXCEPT ![k].phase = "writing"]
      BY <3>2 DEF WorkersTyped, Worker, TypeOK
    <3> QED BY <1>2, <3>1, <3>2 DEF WorkerInspects, WorkerVerifies, WorkerDies
  <2> QED BY <1>2, <2>1 DEF WorkerInspects, WorkerVerifies, WorkerDies, CallsTyped, RowsTyped,
         RestTyped
<1> QED BY <1>1, <1>2 DEF WorkerStep

(* What happens around the gateway.                                           *)
LEMMA TypeOfEnvironment ==
  ASSUME TypeOK, Environment
  PROVE  TypeOK'
<1> USE TypeParts
<1>1. ASSUME NEW g \in Gateways, Crash(g) PROVE TypeOK'
  <2>1. CallsTyped'
    BY <1>1, NoCallRow DEF Crash, TypeOK, CallsTyped
  <2> QED BY <1>1, <2>1 DEF Crash, RowsTyped, WorkersTyped, RestTyped
<1>2. ASSUME NEW l \in Leases, LeaseEnds(l) PROVE TypeOK'
  BY <1>2 DEF LeaseEnds, CallsTyped, RowsTyped, WorkersTyped, RestTyped
<1>3. ASSUME NEW path \in Paths, NEW content \in Contents, Edit(path, content) PROVE TypeOK'
  <2>1. files' \in [Paths -> Contents] /\ held' \in [Paths -> SUBSET Contents]
    BY <1>3 DEF Edit, Put, TypeOK
  <2> QED BY <1>3, <2>1 DEF Edit, CallsTyped, RowsTyped, WorkersTyped, RestTyped
<1> QED BY <1>1, <1>2, <1>3 DEF Environment

(* Every step keeps the types, given what the processes remember.            *)
LEMMA TypeKept ==
  TypeOK /\ LedgerInv /\ [Next]_vars => TypeOK'
<1>1. TypeOK /\ UNCHANGED vars => TypeOK'
  BY DEF TypeOK, vars
<1>2. ASSUME TypeOK, LedgerInv, NEW g \in Gateways, NEW k \in Calls, GatewayStep(g, k)
      PROVE  TypeOK'
  BY <1>2, TypeOfCreation, TypeOfExecution, TypeOfReconciling DEF GatewayStep
<1> QED BY <1>1, <1>2, TypeOfBeginning, TypeOfWorker, TypeOfEnvironment DEF Next

-----------------------------------------------------------------------------
(* How a step writes the row of an Operation. *)

RowCreated(k) ==
  /\ operations[k].status = "none"
  /\ \E g \in Gateways :
       /\ calls[g][k].phase = "decided" /\ calls'[g][k].phase # "decided"
       /\ operations'[k] =
            [status |-> IF calls[g][k].allowed THEN "authorized" ELSE "denied",
             version |-> 1, request |-> calls[g][k].request]

(* The ways on, and what a success rests on.                                  *)
MayMove(k, status) ==
  \/ operations[k].status = "authorized" /\ status \in {"executing", "failed"}
  \/ /\ operations[k].status \in {"executing", "unknown"}
     /\ status \in {"unknown", "failed", "succeeded"}
     /\ status = "succeeded" => \/ workers[k].answer = "succeeded"
                                \/ \E g \in Gateways : calls[g][k].verdict = "applied"

RowMoved(k) ==
  \E status \in Begun :
    /\ MayMove(k, status)
    /\ operations'[k] =
         [operations[k] EXCEPT !.status = status, !.version = operations[k].version + 1]

(* An UPDATE of a row whose version is current moves its Operation on.       *)
LEMMA RowMoves ==
  ASSUME TypeOK, NEW j \in Calls, NEW k \in Calls, NEW status \in Begun,
         MayMove(j, status), WriteRow(j, status)
  PROVE  operations'[k] = operations[k] \/ RowMoved(k)
<1>1. CASE j # k
  BY <1>1 DEF WriteRow, TypeOK
<1>2. CASE j = k
  <2>1. operations'[k] =
          [operations[k] EXCEPT !.status = status, !.version = operations[k].version + 1]
    BY <1>2 DEF WriteRow, TypeOK
  <2> QED BY <1>2, <2>1 DEF RowMoved
<1> QED BY <1>1, <1>2

(* An INSERT creates a row where there was none.                             *)
LEMMA RowIsCreated ==
  ASSUME TypeOK, NEW g \in Gateways, NEW j \in Calls, NEW k \in Calls,
         CreateAuthorized(g, j) \/ CreateDenied(g, j)
  PROVE  operations'[k] = operations[k] \/ RowCreated(k)
<1> DEFINE row == [status |-> IF calls[g][j].allowed THEN "authorized" ELSE "denied",
                   version |-> 1, request |-> calls[g][j].request]
<1>1. /\ operations[j].status = "none" /\ calls[g][j].phase = "decided"
      /\ operations' = [operations EXCEPT ![j] = row]
  BY DEF CreateAuthorized, CreateDenied
<1>2. CASE j # k
  BY <1>1, <1>2 DEF TypeOK
<1>3. CASE j = k
  <2>1. operations'[k] = row
    BY <1>1, <1>3 DEF TypeOK
  <2>2. calls'[g][j].phase # "decided"
    <3>1. CASE CreateAuthorized(g, j)
      BY <3>1 DEF CreateAuthorized, SetCall, TypeOK, Call
    <3>2. CASE CreateDenied(g, j)
      BY <3>2 DEF CreateDenied, Return, SetCall, TypeOK, NoCall
    <3> QED BY <3>1, <3>2
  <2> QED BY <1>1, <1>3, <2>1, <2>2 DEF RowCreated
<1> QED BY <1>2, <1>3

(* Every write a call makes when it ends is guarded by the version it read.   *)
LEMMA EndMovesRow ==
  ASSUME TypeOK, LedgerInv, NEW g \in Gateways, NEW j \in Calls, NEW k \in Calls,
         \/ ReauthorizationFails(g, j) \/ CancelBeforeDispatch(g, j) \/ WorkerAnswers(g, j)
         \/ WorkerIsLost(g, j) \/ TimeoutOrAbort(g, j) \/ ReconcileSettles(g, j)
         \/ ReconcileIsInconclusive(g, j)
  PROVE  operations'[k] = operations[k] \/ RowMoved(k)
<1>1. CASE ~RowIsCurrent(g, j)
  BY <1>1 DEF ReauthorizationFails, CancelBeforeDispatch, WorkerAnswers, WorkerIsLost,
     TimeoutOrAbort, ReconcileSettles, ReconcileIsInconclusive, Finish, LoseTrack
<1>2. CASE RowIsCurrent(g, j)
  <2>1. CASE ReauthorizationFails(g, j) \/ CancelBeforeDispatch(g, j)
    <3>1. operations[j].version = 1 /\ operations[j].status \in {"authorized"} \cup Begun
      BY <1>2, <2>1 DEF ReauthorizationFails, CancelBeforeDispatch, RowIsCurrent, LedgerInv,
         CallSound
    <3>2. operations[j].status = "authorized"
      BY <3>1 DEF LedgerInv, RowSound, Begun
    <3>3. WriteRow(j, "failed")
      BY <1>2, <2>1 DEF ReauthorizationFails, CancelBeforeDispatch, Finish
    <3> QED BY <3>2, <3>3, RowMoves DEF MayMove, Begun
  <2>2. CASE WorkerAnswers(g, j) \/ WorkerIsLost(g, j) \/ TimeoutOrAbort(g, j)
    <3>1. operations[j].status = "executing"
      BY <1>2, <2>2 DEF WorkerAnswers, WorkerIsLost, TimeoutOrAbort, RowIsCurrent, LedgerInv,
         CallSound
    <3>2. PICK status \in {"unknown", "failed", "succeeded"} :
            /\ WriteRow(j, status)
            /\ status = "succeeded" => workers[j].answer = "succeeded"
      BY <1>2, <2>2 DEF WorkerAnswers, WorkerIsLost, TimeoutOrAbort, Finish, LoseTrack
    <3> QED BY <3>1, <3>2, RowMoves DEF MayMove, Begun
  <2>3. CASE ReconcileSettles(g, j) \/ ReconcileIsInconclusive(g, j)
    <3>1. operations[j].status \in {"executing", "unknown"}
      BY <1>2, <2>3 DEF ReconcileSettles, ReconcileIsInconclusive, RowIsCurrent, LedgerInv,
         CallSound
    <3>2. PICK status \in {"unknown", "failed", "succeeded"} :
            /\ WriteRow(j, status)
            /\ status = "succeeded" => calls[g][j].verdict = "applied"
      BY <1>2, <2>3 DEF ReconcileSettles, ReconcileIsInconclusive, Finish, LoseTrack
    <3> QED BY <3>1, <3>2, RowMoves DEF MayMove, Begun
  <2> QED BY <2>1, <2>2, <2>3
<1> QED BY <1>1, <1>2

(* Every step creates the row, moves it on or leaves it alone.                *)
LEMMA RowIsStepped ==
  ASSUME TypeOK, LedgerInv, Next, NEW k \in Calls
  PROVE  operations'[k] = operations[k] \/ RowCreated(k) \/ RowMoved(k)
<1>1. ASSUME NEW g \in Gateways, NEW req \in Requests, Invoke(g, req)
      PROVE  UNCHANGED operations
  BY <1>1 DEF Invoke, InvokeNew, ReplayFinal, ReplayAuthorized, ReplayUnsettled
<1>2. ASSUME NEW g \in Gateways, NEW j \in Calls, Reconcile(g, j)
      PROVE  operations'[k] = operations[k] \/ RowMoved(k)
  <2>1. CASE ReconcileAuthorized(g, j)
    BY <2>1, RowMoves DEF ReconcileAuthorized, MayMove, Begun
  <2> QED BY <1>2, <2>1 DEF Reconcile, ReconcileFinal, ReconcileUnsettled
<1>3. ASSUME NEW g \in Gateways, NEW j \in Calls, GatewayStep(g, j)
      PROVE  operations'[k] = operations[k] \/ RowCreated(k) \/ RowMoved(k)
  <2>1. CASE Dispatch(g, j)
    <3>1. operations[j].status = "authorized"
      BY <2>1 DEF Dispatch, RowIsCurrent, LedgerInv, CallSound, RowSound, Begun
    <3> QED BY <2>1, <3>1, RowMoves DEF Dispatch, MayMove, Begun
  <2>2. CASE \/ ReadAuthority(g, j) \/ CreateIsLate(g, j) \/ Reauthorize(g, j)
             \/ DispatchIsLate(g, j) \/ ReconcileReads(g, j)
    BY <2>2 DEF ReadAuthority, CreateIsLate, Reauthorize, DispatchIsLate, ReconcileReads
  <2> QED BY <1>3, <2>1, <2>2, RowIsCreated, EndMovesRow DEF GatewayStep
<1>4. ASSUME NEW j \in Calls, WorkerStep(j)
      PROVE  UNCHANGED operations
  BY <1>4 DEF WorkerStep, WorkerInspects, WorkerRenames, WorkerVerifies, WorkerDies
<1>5. ASSUME Environment PROVE UNCHANGED operations
  BY <1>5 DEF Environment, Crash, LeaseEnds, Edit
<1> QED BY <1>1, <1>2, <1>3, <1>4, <1>5 DEF Next

(* A row that is written is newer than before, and of the same request.       *)
LEMMA RowAges ==
  ASSUME TypeOK, LedgerInv, Next, NEW k \in Calls
  PROVE  \/ operations'[k] = operations[k]
         \/ /\ operations'[k].version > operations[k].version
            /\ operations[k].status # "none" =>
                 /\ operations'[k].status \in Begun
                 /\ operations'[k].request = operations[k].request
<1>1. operations[k] \in Operation /\ operations[k].version \in Nat
  BY DEF TypeOK, Operation
<1>2. CASE RowCreated(k)
  <2>1. operations'[k].version = 1 /\ operations[k].status = "none"
    BY <1>2 DEF RowCreated
  <2>2. operations[k].version = 0
    BY <2>1 DEF LedgerInv, RowSound
  <2> QED BY <2>1, <2>2
<1>3. CASE RowMoved(k)
  BY <1>1, <1>3 DEF RowMoved, Operation
<1> QED BY <1>2, <1>3, RowIsStepped

-----------------------------------------------------------------------------
(* How a step takes a call on. *)

CallBegun(g, k) ==
  /\ calls[g][k].phase = "idle" /\ UNCHANGED <<running, operations>>
  /\ \E req \in Requests :
       /\ req.call = k
       /\ \/ operations[k].status = "none"
             /\ calls'[g][k] = Invocation(req, "authorizing")
          \/ operations[k].status = "authorized"
             /\ calls'[g][k] = Invocation(req, "reauthorizing")
          \/ operations[k].status \in {"executing", "unknown"}
             /\ calls'[g][k] = Invocation(req, "reconciling")

CallDecided(g, k) ==
  /\ calls[g][k].phase = "authorizing" /\ UNCHANGED <<running, operations>>
  /\ \E allowed \in BOOLEAN :
       /\ allowed => /\ calls[g][k].request \in Permitted
                     /\ calls[g][k].request.lease \in running
       /\ calls'[g][k] = [calls[g][k] EXCEPT !.phase = "decided", !.allowed = allowed]

CallCreated(g, k) ==
  /\ calls[g][k].phase = "decided" /\ calls[g][k].allowed /\ UNCHANGED running
  /\ operations'[k] = [status |-> "authorized", version |-> 1, request |-> calls[g][k].request]
  /\ calls'[g][k] = [calls[g][k] EXCEPT !.phase = "dispatching", !.version = 1]

CallJoined(g, k) ==
  /\ calls[g][k].phase = "decided" /\ operations[k].status = "authorized"
  /\ UNCHANGED <<running, operations>>
  /\ calls'[g][k] =
       [calls[g][k] EXCEPT !.phase = "dispatching", !.version = operations[k].version]

CallReauthorized(g, k) ==
  /\ calls[g][k].phase = "reauthorizing" /\ calls[g][k].request.lease \in running
  /\ UNCHANGED <<running, operations>>
  /\ calls'[g][k] = [calls[g][k] EXCEPT !.phase = "dispatching"]

CallDispatched(g, k) ==
  /\ calls[g][k].phase = "dispatching" /\ UNCHANGED running
  /\ operations'[k].status = "executing"
  /\ operations'[k].version = operations[k].version + 1
  /\ calls'[g][k] =
       [calls[g][k] EXCEPT !.phase = "executing", !.version = operations[k].version + 1]

CallReconciled(g, k) ==
  /\ calls[g][k].phase = "reconciling" /\ UNCHANGED <<running, operations>>
  /\ \E verdict \in {"applied", "not_applied", "unknown"} :
       /\ verdict = "applied" =>
            files[operations[k].request.path] = operations[k].request.content
       /\ calls'[g][k] = [calls[g][k] EXCEPT !.verdict = verdict]

CallMoves(g, k) ==
  \/ CallBegun(g, k) \/ CallDecided(g, k) \/ CallCreated(g, k) \/ CallJoined(g, k)
  \/ CallReauthorized(g, k) \/ CallDispatched(g, k) \/ CallReconciled(g, k)

(* Only the call that is written changes.                                     *)
LEMMA OtherCalls ==
  ASSUME TypeOK, NEW h \in Gateways, NEW j \in Calls, NEW call, SetCall(h, j, call)
  PROVE  /\ calls'[h][j] = call
         /\ \A g \in Gateways, k \in Calls :
              g # h \/ k # j => calls'[g][k] = calls[g][k]
BY DEF SetCall, TypeOK

(* A call that begins remembers the row as it is.                            *)
LEMMA BeginMovesCall ==
  ASSUME TypeOK, LedgerInv, NEW h \in Gateways, NEW g \in Gateways, NEW k \in Calls,
         \/ \E req \in Requests : Invoke(h, req)
         \/ \E j \in Calls : Reconcile(h, j)
  PROVE  calls'[g][k] = calls[g][k] \/ CallMoves(g, k)
<1>1. ASSUME NEW req \in Requests, Invoke(h, req)
      PROVE  calls'[g][k] = calls[g][k] \/ CallBegun(g, k)
  <2>1. req.call \in Calls
    BY RequestAssumption DEF Request
  <2>2. CASE ReplayFinal(h, req)
    BY <2>2 DEF ReplayFinal
  <2>3. CASE g # h \/ k # req.call
    BY <1>1, <2>1, <2>2, <2>3, OtherCalls DEF Invoke, InvokeNew, ReplayAuthorized, ReplayUnsettled
  <2>4. CASE g = h /\ k = req.call
    <3>1. CASE InvokeNew(h, req)
      BY <2>1, <2>4, <3>1, OtherCalls DEF InvokeNew, MayBegin, CallBegun
    <3>2. CASE ReplayAuthorized(h, req)
      BY <2>1, <2>4, <3>2, OtherCalls DEF ReplayAuthorized, IsReplay, MayBegin, CallBegun
    <3>3. CASE ReplayUnsettled(h, req)
      BY <2>1, <2>4, <3>3, OtherCalls
         DEF ReplayUnsettled, MayReconcile, IsReplay, MayBegin, CallBegun
    <3> QED BY <1>1, <2>2, <3>1, <3>2, <3>3 DEF Invoke
  <2> QED BY <2>3, <2>4
<1>2. ASSUME NEW j \in Calls, Reconcile(h, j)
      PROVE  calls'[g][k] = calls[g][k] \/ CallBegun(g, k)
  <2>1. CASE ~ReconcileUnsettled(h, j)
    BY <1>2, <2>1 DEF Reconcile, ReconcileFinal, ReconcileAuthorized
  <2>2. CASE ReconcileUnsettled(h, j)
    <3>1. operations[j].request \in Requests /\ operations[j].request.call = j
      BY <2>2, Fields DEF ReconcileUnsettled, MayReconcile, LedgerInv, RowSound
    <3> QED BY <2>2, <3>1, OtherCalls DEF ReconcileUnsettled, MayReconcile, MayBegin, CallBegun
  <2> QED BY <2>1, <2>2
<1> QED BY <1>1, <1>2 DEF CallMoves

(* A step inside a call leaves every other call alone.                       *)
LEMMA StepMovesCall ==
  ASSUME TypeOK, LedgerInv, NEW h \in Gateways, NEW j \in Calls, NEW g \in Gateways,
         NEW k \in Calls, GatewayStep(h, j)
  PROVE  calls'[g][k] = calls[g][k] \/ calls'[g][k] = NoCall \/ CallMoves(g, k)
<1>1. CASE Return(h, j)
  BY <1>1, OtherCalls DEF Return
<1> DEFINE Only(call) == /\ calls'[h][j] = call
                         /\ g # h \/ k # j => calls'[g][k] = calls[g][k]
<1>0. \A call : SetCall(h, j, call) => Only(call)
  BY OtherCalls
<1>2. CASE ReadAuthority(h, j)
  <2>1. PICK allowed \in BOOLEAN :
          /\ allowed => calls[h][j].request \in Permitted /\ calls[h][j].request.lease \in running
          /\ SetCall(h, j, [calls[h][j] EXCEPT !.phase = "decided", !.allowed = allowed])
    BY <1>2 DEF ReadAuthority
  <2>2. calls[h][j].phase = "authorizing" /\ UNCHANGED <<running, operations>>
    BY <1>2 DEF ReadAuthority
  <2>3. Only([calls[h][j] EXCEPT !.phase = "decided", !.allowed = allowed])
    BY <1>0, <2>1
  <2> QED BY <2>1, <2>2, <2>3 DEF CallMoves, CallDecided
<1>3. CASE CreateAuthorized(h, j)
  <2>1. /\ calls[h][j].phase = "decided" /\ calls[h][j].allowed /\ UNCHANGED running
        /\ SetCall(h, j, [calls[h][j] EXCEPT !.phase = "dispatching", !.version = 1])
    BY <1>3 DEF CreateAuthorized
  <2>2. operations'[j] =
          [status |-> "authorized", version |-> 1, request |-> calls[h][j].request]
    BY <1>3 DEF CreateAuthorized, TypeOK
  <2>3. Only([calls[h][j] EXCEPT !.phase = "dispatching", !.version = 1])
    BY <1>0, <2>1
  <2> QED BY <2>1, <2>2, <2>3 DEF CallMoves, CallCreated
<1>4. CASE CreateIsLate(h, j) /\ ~Return(h, j)
  <2>1. /\ calls[h][j].phase = "decided" /\ operations[j].status = "authorized"
        /\ UNCHANGED <<running, operations>>
        /\ SetCall(h, j, [calls[h][j] EXCEPT !.phase = "dispatching",
                                             !.version = operations[j].version])
    BY <1>4 DEF CreateIsLate
  <2>2. Only([calls[h][j] EXCEPT !.phase = "dispatching", !.version = operations[j].version])
    BY <1>0, <2>1
  <2> QED BY <2>1, <2>2 DEF CallMoves, CallJoined
<1>5. CASE Reauthorize(h, j)
  <2>1. Only([calls[h][j] EXCEPT !.phase = "dispatching"])
    BY <1>0, <1>5 DEF Reauthorize, Advance
  <2> QED BY <1>5, <2>1 DEF Reauthorize, CallMoves, CallReauthorized
<1>6. CASE Dispatch(h, j)
  <2>1. operations'[j].status = "executing" /\ operations'[j].version = operations[j].version + 1
    BY <1>6 DEF Dispatch, WriteRow, TypeOK, Operation
  <2>2. /\ calls[h][j].phase = "dispatching" /\ UNCHANGED running
        /\ SetCall(h, j, [calls[h][j] EXCEPT !.phase = "executing",
                                             !.version = operations[j].version + 1])
    BY <1>6 DEF Dispatch
  <2>3. Only([calls[h][j] EXCEPT !.phase = "executing", !.version = operations[j].version + 1])
    BY <1>0, <2>2
  <2> QED BY <2>1, <2>2, <2>3 DEF CallMoves, CallDispatched
<1>7. CASE ReconcileReads(h, j)
  <2>1. PICK verdict \in {"applied", "not_applied", "unknown"} :
          /\ verdict = "applied" =>
               files[operations[j].request.path] = operations[j].request.content
          /\ SetCall(h, j, [calls[h][j] EXCEPT !.verdict = verdict])
    BY <1>7 DEF ReconcileReads, Verdict
  <2>2. calls[h][j].phase = "reconciling" /\ UNCHANGED <<running, operations>>
    BY <1>7 DEF ReconcileReads
  <2>3. Only([calls[h][j] EXCEPT !.verdict = verdict])
    BY <1>0, <2>1
  <2> QED BY <2>1, <2>2, <2>3 DEF CallMoves, CallReconciled
<1> QED BY <1>1, <1>2, <1>3, <1>4, <1>5, <1>6, <1>7
        DEF GatewayStep, CreateDenied, ReauthorizationFails, CancelBeforeDispatch, DispatchIsLate,
            WorkerAnswers, WorkerIsLost, TimeoutOrAbort, ReconcileSettles,
            ReconcileIsInconclusive, Finish, LoseTrack

(* Every step leaves a call alone, ends it or takes it on.                    *)
LEMMA CallIsStepped ==
  ASSUME TypeOK, LedgerInv, Next, NEW g \in Gateways, NEW k \in Calls
  PROVE  calls'[g][k] = calls[g][k] \/ calls'[g][k] = NoCall \/ CallMoves(g, k)
<1>1. ASSUME NEW j \in Calls, WorkerStep(j) PROVE UNCHANGED calls
  BY <1>1 DEF WorkerStep, WorkerInspects, WorkerRenames, WorkerVerifies, WorkerDies
<1>2. ASSUME NEW h \in Gateways, Crash(h)
      PROVE  calls'[g][k] = calls[g][k] \/ calls'[g][k] = NoCall
  BY <1>2 DEF Crash, TypeOK
<1>3. CASE Environment
  BY <1>2, <1>3 DEF Environment, LeaseEnds, Edit
<1> QED BY <1>1, <1>3, BeginMovesCall, StepMovesCall DEF Next

(* A worker is started by the dispatch of its Operation and by nothing else.  *)
LEMMA WorkerIsStepped ==
  ASSUME TypeOK, LedgerInv, Next, NEW k \in Calls
  PROVE  \/ workers'[k] = workers[k] /\ dispatched'[k] = dispatched[k]
         \/ operations[k].status = "authorized" /\ operations'[k].status = "executing"
         \/ workers[k].phase # "none" /\ dispatched'[k] = dispatched[k]
<1>1. ASSUME NEW g \in Gateways, NEW j \in Calls, Dispatch(g, j)
      PROVE  \/ workers'[k] = workers[k] /\ dispatched'[k] = dispatched[k]
             \/ operations[k].status = "authorized" /\ operations'[k].status = "executing"
  <2>1. CASE j = k
    <3>1. operations[k].status = "authorized"
      BY <1>1, <2>1 DEF Dispatch, RowIsCurrent, LedgerInv, CallSound, RowSound, Begun
    <3> QED BY <1>1, <2>1, <3>1 DEF Dispatch, WriteRow, TypeOK, Operation
  <2>2. CASE j # k
    BY <1>1, <2>2 DEF Dispatch, StartWorker, TypeOK
  <2> QED BY <2>1, <2>2
<1>2. ASSUME NEW g \in Gateways, NEW j \in Calls, GatewayStep(g, j), ~Dispatch(g, j)
      PROVE  \/ workers'[k] = workers[k] /\ dispatched'[k] = dispatched[k]
             \/ workers[k].phase # "none" /\ dispatched'[k] = dispatched[k]
  <2>1. CASE TimeoutOrAbort(g, j)
    BY <2>1 DEF TimeoutOrAbort, CanBeKilled, Kill, Exit, TypeOK
  <2>2. CASE ~TimeoutOrAbort(g, j)
    BY <1>2, <2>2 DEF GatewayStep, ReadAuthority, CreateAuthorized, CreateDenied, CreateIsLate,
       Reauthorize, ReauthorizationFails, CancelBeforeDispatch, DispatchIsLate, WorkerAnswers,
       WorkerIsLost, ReconcileReads, ReconcileSettles, ReconcileIsInconclusive
  <2> QED BY <2>1, <2>2
<1>3. ASSUME NEW j \in Calls, WorkerStep(j)
      PROVE  \/ workers'[k] = workers[k] /\ dispatched'[k] = dispatched[k]
             \/ workers[k].phase # "none" /\ dispatched'[k] = dispatched[k]
  BY <1>3 DEF WorkerStep, WorkerInspects, WorkerRenames, WorkerVerifies, WorkerDies, WorkerRuns,
     Exit, TypeOK
<1>4. ASSUME NEW g \in Gateways,
             \/ \E req \in Requests : Invoke(g, req)
             \/ \E j \in Calls : Reconcile(g, j)
      PROVE  UNCHANGED <<workers, dispatched>>
  BY <1>4 DEF Invoke, InvokeNew, ReplayFinal, ReplayAuthorized, ReplayUnsettled,
     Reconcile, ReconcileFinal, ReconcileAuthorized, ReconcileUnsettled
<1>5. ASSUME Environment PROVE UNCHANGED <<workers, dispatched>>
  BY <1>5 DEF Environment, Crash, LeaseEnds, Edit
<1> QED BY <1>1, <1>2, <1>3, <1>4, <1>5 DEF Next
-----------------------------------------------------------------------------
(* The invariant is inductive. *)

(* Every step keeps status, version and dispatch of a row in agreement.      *)
LEMMA RowStaysSound ==
  ASSUME TypeOK, LedgerInv, Next, NEW k \in Calls
  PROVE  RowSound(k)'
<1>1. RowSound(k) /\ operations[k] \in Operation /\ operations[k].version \in Nat
      /\ operations[k].status \in Status
  BY DEF LedgerInv, TypeOK, Operation
<1>2. CASE operations'[k] = operations[k]
  <2>1. \/ workers'[k] = workers[k] /\ dispatched'[k] = dispatched[k]
        \/ workers[k].phase # "none" /\ dispatched'[k] = dispatched[k]
    BY <1>2, WorkerIsStepped
  <2> QED BY <1>1, <1>2, <2>1 DEF RowSound
<1>3. CASE RowCreated(k)
  <2>1. PICK g \in Gateways :
          /\ calls[g][k].phase = "decided"
          /\ operations'[k] =
               [status |-> IF calls[g][k].allowed THEN "authorized" ELSE "denied",
                version |-> 1, request |-> calls[g][k].request]
    BY <1>3 DEF RowCreated
  <2>2. /\ calls[g][k].request.call = k
        /\ calls[g][k].allowed => calls[g][k].request \in Permitted
    BY <2>1 DEF LedgerInv, CallSound
  <2>3. operations[k].status = "none" /\ operations'[k].status # "executing"
    BY <1>3, <2>1 DEF RowCreated
  <2>4. ~dispatched'[k] /\ workers'[k].phase = "none"
    BY <1>1, <2>3, WorkerIsStepped DEF RowSound
  <2> QED BY <2>1, <2>2, <2>4 DEF RowSound
<1>4. CASE RowMoved(k)
  <2>1. PICK status \in Begun :
          /\ MayMove(k, status)
          /\ operations'[k] =
               [operations[k] EXCEPT !.status = status, !.version = operations[k].version + 1]
    BY <1>4 DEF RowMoved
  <2>2. /\ operations'[k].status \in Begun /\ operations'[k].request = operations[k].request
        /\ operations'[k].version = operations[k].version + 1
    BY <1>1, <2>1 DEF Operation
  <2>3. operations[k].status \notin {"none", "denied"} /\ operations[k].version # 0
    BY <1>1, <2>1 DEF MayMove, RowSound
  <2> QED BY <1>1, <2>2, <2>3 DEF RowSound, Begun
<1> QED BY <1>2, <1>3, <1>4, RowIsStepped

(* A call that stays as it is or moves on remembers no more than there is.    *)
LEMMA CallStaysSound ==
  ASSUME TypeOK, LedgerInv, Next, NEW g \in Gateways, NEW k \in Calls
  PROVE  CallSound(g, k)'
<1>1. /\ CallSound(g, k) /\ RowSound(k)
      /\ operations[k].version \in Nat /\ operations'[k].version \in Nat
      /\ calls[g][k] \in Call /\ calls[g][k].version \in Nat
  <2>1. TypeOK'
    BY TypeKept
  <2> QED BY <2>1 DEF LedgerInv, TypeOK, Operation, Call
<1>2. CASE calls'[g][k] = calls[g][k]
  <2>1. CASE operations'[k] = operations[k]
    BY <1>1, <1>2, <2>1 DEF CallSound
  <2>2. CASE /\ operations'[k].version > operations[k].version
             /\ operations[k].status # "none" => operations'[k].status \in Begun
    BY <1>1, <1>2, <2>2 DEF CallSound, Begun
  <2> QED BY <2>1, <2>2, RowAges
<1>3. CASE calls'[g][k] = NoCall
  BY <1>1, <1>3 DEF CallSound, NoCall
<1>4. CASE CallBegun(g, k)
  <2>1. PICK req \in Requests :
          /\ req.call = k
          /\ \/ operations[k].status = "none"
                /\ calls'[g][k] = Invocation(req, "authorizing")
             \/ operations[k].status = "authorized"
                /\ calls'[g][k] = Invocation(req, "reauthorizing")
             \/ operations[k].status \in {"executing", "unknown"}
                /\ calls'[g][k] = Invocation(req, "reconciling")
    BY <1>4 DEF CallBegun
  <2>2. operations' = operations
    BY <1>4 DEF CallBegun
  <2>3. PICK phase \in {"authorizing", "reauthorizing", "reconciling"} :
          /\ calls'[g][k] = Invocation(req, phase)
          /\ phase = "reauthorizing" => operations[k].status = "authorized"
          /\ phase = "reconciling" => operations[k].status \in {"executing", "unknown"}
    BY <2>1
  <2>4. /\ calls'[g][k].phase = phase /\ calls'[g][k].request = req
        /\ calls'[g][k].version = operations[k].version /\ calls'[g][k].verdict = "none"
    <3>1. phase \in Phase \ {"idle"}
      BY DEF Phase
    <3>2. \A ph \in Phase \ {"idle"} :
            /\ Invocation(req, ph).phase = ph /\ Invocation(req, ph).request = req
            /\ Invocation(req, ph).version = operations[req.call].version
            /\ Invocation(req, ph).verdict = "none"
      BY InvocationRow
    <3> QED BY <2>1, <2>3, <3>1, <3>2
  <2> QED BY <1>1, <2>1, <2>2, <2>3, <2>4 DEF CallSound, RowSound, Begun
<1>5. CASE CallDecided(g, k)
  BY <1>1, <1>5 DEF CallDecided, CallSound, Call
<1>6. CASE CallCreated(g, k)
  BY <1>1, <1>6 DEF CallCreated, CallSound, Call
<1>7. CASE CallJoined(g, k) \/ CallReauthorized(g, k)
  <2>1. /\ operations' = operations
        /\ calls'[g][k].phase = "dispatching"
        /\ calls'[g][k].request = calls[g][k].request
        /\ calls'[g][k].verdict = calls[g][k].verdict
        /\ calls'[g][k].version \in {calls[g][k].version, operations[k].version}
    BY <1>1, <1>7 DEF CallJoined, CallReauthorized, Call
  <2>2. /\ calls'[g][k].version = 1 /\ calls'[g][k].version <= operations[k].version
        /\ operations[k].status \in {"authorized"} \cup Begun
    <3>1. CASE CallJoined(g, k)
      <4>1. calls'[g][k].version = operations[k].version /\ operations[k].status = "authorized"
        BY <1>1, <3>1 DEF CallJoined, Call
      <4> QED BY <1>1, <4>1 DEF RowSound
    <3>2. CASE CallReauthorized(g, k)
      <4>1. calls'[g][k].version = calls[g][k].version /\ calls[g][k].phase = "reauthorizing"
        BY <1>1, <3>2 DEF CallReauthorized, Call
      <4> QED BY <1>1, <4>1 DEF CallSound
    <3> QED BY <1>7, <3>1, <3>2
  <2>3. calls[g][k].phase \in {"decided", "reauthorizing"}
    BY <1>7 DEF CallJoined, CallReauthorized
  <2> QED BY <1>1, <2>1, <2>2, <2>3 DEF CallSound
<1>8. CASE CallDispatched(g, k)
  BY <1>1, <1>8 DEF CallDispatched, CallSound, Call, Begun
<1>9. CASE CallReconciled(g, k)
  BY <1>1, <1>9 DEF CallReconciled, CallSound, Call
<1> QED BY <1>2, <1>3, <1>4, <1>5, <1>6, <1>7, <1>8, <1>9, CallIsStepped DEF CallMoves

(* Every step keeps the invariant of rows and calls.                         *)
LEMMA LedgerKept ==
  TypeOK /\ LedgerInv /\ [Next]_vars => LedgerInv'
<1>1. TypeOK /\ LedgerInv /\ Next => LedgerInv'
  BY RowStaysSound, CallStaysSound DEF LedgerInv
<1>2. LedgerInv /\ UNCHANGED vars => LedgerInv'
  BY DEF LedgerInv, RowSound, CallSound, vars
<1> QED BY <1>1, <1>2

(* An empty ledger.                                                          *)
LEMMA LedgerStarts == Init => TypeOK /\ LedgerInv
<1> SUFFICES ASSUME Init PROVE TypeOK /\ LedgerInv
  OBVIOUS
<1>1. /\ operations \in [Calls -> Operation] /\ calls \in [Gateways -> [Calls -> Call]]
      /\ workers \in [Calls -> Worker]
  BY NoCallRow DEF Init, Operation, Status, Worker
<1>2. /\ \A k \in Calls : /\ operations[k].status = "none" /\ operations[k].version = 0
                          /\ operations[k].request = Nil
                          /\ workers[k].phase = "none" /\ workers[k].answer = "none"
                          /\ ~dispatched[k]
      /\ \A g \in Gateways, k \in Calls : calls[g][k] = NoCall
  BY DEF Init
<1>3. TypeOK
  BY <1>1, <1>2, NoCallRow DEF Init, TypeOK
<1>4. LedgerInv
  BY <1>2 DEF LedgerInv, RowSound, CallSound, NoCall
<1> QED BY <1>3, <1>4

(* Rows, calls and workers keep their types, and what each process remembers  *)
(* of a row stays true of it, with any number of processes overtaking each    *)
(* other and dying.                                                           *)
THEOREM LedgerIsTyped == Spec => []TypeOK /\ []LedgerInv
<1>1. TypeOK /\ LedgerInv /\ [Next]_vars => TypeOK' /\ LedgerInv'
  BY TypeKept, LedgerKept
<1> QED BY <1>1, LedgerStarts, PTL DEF Spec

(* No worker is ever started for an Operation whose Intent was not permitted, *)
(* or whose status executing was not committed before.                        *)
THEOREM EffectsFollowIntents == Spec => []EffectFollowsIntent
<1>1. TypeOK /\ LedgerInv => EffectFollowsIntent
  BY DEF LedgerInv, RowSound, EffectFollowsIntent
<1> QED BY <1>1, LedgerIsTyped, PTL
-----------------------------------------------------------------------------
(* What is reported as written was in the file. *)

WasHeld(k) == operations[k].request.content \in held[operations[k].request.path]

(* Whoever claims that the content is there saw it there: the worker that     *)
(* answers, the reconciliation that reads, the row that was written from one  *)
(* of the two.                                                                *)
EffectsAreReal ==
  /\ \A path \in Paths : files[path] \in held[path]
  /\ \A k \in Calls :
       workers[k].answer = "succeeded" \/ operations[k].status = "succeeded" => WasHeld(k)
  /\ \A g \in Gateways, k \in Calls : calls[g][k].verdict = "applied" => WasHeld(k)

(* No content a file has had is forgotten.                                    *)
LEMMA HeldGrows ==
  ASSUME TypeOK, LedgerInv, Next, \A path \in Paths : files[path] \in held[path],
         NEW path \in Paths
  PROVE  held[path] \subseteq held'[path] /\ files'[path] \in held'[path]
<1>1. ASSUME NEW p \in Paths, NEW content, Put(p, content)
      PROVE  held[path] \subseteq held'[path] /\ files'[path] \in held'[path]
  BY <1>1 DEF Put, TypeOK
<1>2. ASSUME NEW k \in Calls, WorkerStep(k)
      PROVE  held[path] \subseteq held'[path] /\ files'[path] \in held'[path]
  <2>1. CASE WorkerRenames(k)
    <3>1. Intent(k).path \in Paths /\ Put(Intent(k).path, Intent(k).content)
      BY <2>1, IntentIsThere DEF WorkerRenames
    <3> QED BY <1>1, <3>1
  <2> QED BY <1>2, <2>1 DEF WorkerStep, WorkerInspects, WorkerVerifies, WorkerDies
<1>3. ASSUME Environment
      PROVE  held[path] \subseteq held'[path] /\ files'[path] \in held'[path]
  BY <1>1, <1>3 DEF Environment, Crash, LeaseEnds, Edit
<1>4. ASSUME NEW g \in Gateways,
             \/ \E req \in Requests : Invoke(g, req)
             \/ \E k \in Calls : Reconcile(g, k)
      PROVE  UNCHANGED <<files, held>>
  BY <1>4 DEF Invoke, InvokeNew, ReplayFinal, ReplayAuthorized, ReplayUnsettled,
     Reconcile, ReconcileFinal, ReconcileAuthorized, ReconcileUnsettled
<1>5. ASSUME NEW g \in Gateways, NEW k \in Calls, GatewayStep(g, k)
      PROVE  UNCHANGED <<files, held>>
  BY <1>5 DEF GatewayStep, ReadAuthority, CreateAuthorized, CreateDenied, CreateIsLate,
     Reauthorize, ReauthorizationFails, CancelBeforeDispatch, Dispatch, DispatchIsLate,
     WorkerAnswers, WorkerIsLost, TimeoutOrAbort, ReconcileReads, ReconcileSettles,
     ReconcileIsInconclusive
<1> QED BY <1>2, <1>3, <1>4, <1>5 DEF Next

(* A worker that answers that it succeeded has just read the content.         *)
LEMMA SuccessIsSeen ==
  ASSUME TypeOK, Next, NEW k \in Calls, workers'[k].answer = "succeeded"
  PROVE  \/ workers[k].answer = "succeeded"
         \/ workers[k].phase # "none" /\ files[Intent(k).path] = Intent(k).content
<1>1. ASSUME NEW j \in Calls, NEW answer, Exit(j, answer)
      PROVE  \/ workers[k].answer = "succeeded"
             \/ j = k /\ answer = "succeeded"
  BY <1>1 DEF Exit, TypeOK, Worker
<1>2. ASSUME NEW j \in Calls, WorkerStep(j)
      PROVE  \/ workers[k].answer = "succeeded"
             \/ workers[k].phase # "none" /\ files[Intent(k).path] = Intent(k).content
  <2>1. CASE WorkerInspects(j) \/ WorkerVerifies(j) \/ WorkerDies(j)
    <3>1. CASE workers' = [workers EXCEPT ![j].phase = "writing"]
      BY <3>1 DEF TypeOK, Worker
    <3>2. ASSUME NEW answer \in {"succeeded", "failed", "lost"}, Exit(j, answer),
                 answer = "succeeded" =>
                   /\ workers[j].phase # "none"
                   /\ files[Intent(j).path] = Intent(j).content
          PROVE  \/ workers[k].answer = "succeeded"
                 \/ workers[k].phase # "none" /\ files[Intent(k).path] = Intent(k).content
      BY <1>1, <3>2
    <3>3. CASE WorkerDies(j)
      BY <3>2, <3>3 DEF WorkerDies
    <3>4. CASE WorkerInspects(j)
      BY <3>1, <3>2, <3>4 DEF WorkerInspects
    <3>5. CASE WorkerVerifies(j)
      BY <3>2, <3>5 DEF WorkerVerifies
    <3> QED BY <2>1, <3>3, <3>4, <3>5
  <2>2. CASE WorkerRenames(j)
    BY <2>2 DEF WorkerRenames, TypeOK, Worker
  <2> QED BY <1>2, <2>1, <2>2 DEF WorkerStep
<1>3. ASSUME NEW g \in Gateways, NEW j \in Calls, GatewayStep(g, j)
      PROVE  workers[k].answer = "succeeded"
  <2>1. CASE TimeoutOrAbort(g, j)
    <3>1. CASE Exit(j, "lost")
      BY <1>1, <3>1
    <3>2. CASE UNCHANGED workers
      BY <3>2
    <3> QED BY <2>1, <3>1, <3>2 DEF TimeoutOrAbort, Kill
  <2>2. CASE Dispatch(g, j)
    BY <2>2 DEF Dispatch, StartWorker, TypeOK
  <2>3. CASE ~TimeoutOrAbort(g, j) /\ ~Dispatch(g, j)
    BY <1>3, <2>3 DEF GatewayStep, ReadAuthority, CreateAuthorized, CreateDenied, CreateIsLate,
       Reauthorize, ReauthorizationFails, CancelBeforeDispatch, DispatchIsLate, WorkerAnswers,
       WorkerIsLost, ReconcileReads, ReconcileSettles, ReconcileIsInconclusive
  <2> QED BY <2>1, <2>2, <2>3
<1>4. ASSUME NEW g \in Gateways,
             \/ \E req \in Requests : Invoke(g, req)
             \/ \E j \in Calls : Reconcile(g, j)
      PROVE  UNCHANGED workers
  BY <1>4 DEF Invoke, InvokeNew, ReplayFinal, ReplayAuthorized, ReplayUnsettled,
     Reconcile, ReconcileFinal, ReconcileAuthorized, ReconcileUnsettled
<1>5. ASSUME Environment PROVE UNCHANGED workers
  BY <1>5 DEF Environment, Crash, LeaseEnds, Edit
<1> QED BY <1>2, <1>3, <1>4, <1>5 DEF Next

(* Every step keeps what a worker wrote and the ledger in agreement.         *)
LEMMA EffectsStayReal ==
  TypeOK /\ LedgerInv /\ EffectsAreReal /\ [Next]_vars => EffectsAreReal'
<1>1. EffectsAreReal /\ UNCHANGED vars => EffectsAreReal'
  BY DEF EffectsAreReal, WasHeld, vars
<1> SUFFICES ASSUME TypeOK, LedgerInv, EffectsAreReal, Next PROVE EffectsAreReal'
  BY <1>1
<1>2. ASSUME NEW path \in Paths
      PROVE  held[path] \subseteq held'[path] /\ files'[path] \in held'[path]
  BY HeldGrows DEF EffectsAreReal
<1>3. ASSUME NEW k \in Calls, operations[k].status # "none"
      PROVE  /\ operations[k].request.path \in Paths
             /\ operations'[k].request = operations[k].request
  <2>1. operations[k].request \in Requests
    BY <1>3 DEF TypeOK, Operation
  <2>2. operations[k].request.path \in Paths
    BY <2>1, RequestAssumption DEF Request
  <2>3. operations'[k].request = operations[k].request
    BY <1>3, RowAges
  <2> QED BY <2>2, <2>3
<1>4. ASSUME NEW k \in Calls, operations[k].status # "none", WasHeld(k)
      PROVE  WasHeld(k)'
  BY <1>2, <1>3, <1>4 DEF WasHeld
<1>5. ASSUME NEW k \in Calls, operations[k].status # "none",
             files[operations[k].request.path] = operations[k].request.content
      PROVE  WasHeld(k)'
  <2>1. WasHeld(k)
    BY <1>3, <1>5 DEF EffectsAreReal, WasHeld
  <2> QED BY <1>4, <1>5, <2>1
<1>6. ASSUME NEW k \in Calls, workers'[k].answer = "succeeded"
      PROVE  WasHeld(k)'
  <2>1. workers[k].phase # "none"
    <3>1. workers[k].answer = "succeeded" => workers[k].phase = "exited"
      BY DEF TypeOK
    <3> QED BY <1>6, <3>1, SuccessIsSeen
  <2>2. operations[k].status # "none"
    BY <2>1 DEF LedgerInv, RowSound
  <2> QED BY <1>4, <1>5, <1>6, <2>2, SuccessIsSeen DEF EffectsAreReal, Intent
<1>7. ASSUME NEW k \in Calls, operations'[k].status = "succeeded"
      PROVE  WasHeld(k)'
  <2>1. CASE operations'[k] = operations[k]
    BY <1>4, <1>7, <2>1 DEF EffectsAreReal
  <2>2. CASE RowCreated(k)
    BY <1>7, <2>2 DEF RowCreated
  <2>3. CASE RowMoved(k)
    <3>1. PICK status \in Begun :
            /\ MayMove(k, status)
            /\ operations'[k] =
                 [operations[k] EXCEPT !.status = status, !.version = operations[k].version + 1]
      BY <2>3 DEF RowMoved
    <3>2. status = "succeeded"
      BY <1>7, <3>1 DEF TypeOK, Operation
    <3> QED BY <1>4, <3>1, <3>2 DEF MayMove, EffectsAreReal
  <2> QED BY <2>1, <2>2, <2>3, RowIsStepped
<1>8. ASSUME NEW g \in Gateways, NEW k \in Calls, calls'[g][k].verdict = "applied"
      PROVE  WasHeld(k)'
  <2>1. CASE calls[g][k].verdict = "applied"
    <3>1. operations[k].status # "none"
      BY <2>1 DEF LedgerInv, CallSound, Begun
    <3> QED BY <1>4, <2>1, <3>1 DEF EffectsAreReal
  <2>2. CASE calls[g][k].verdict # "applied"
    <3>1. CASE CallReconciled(g, k)
      <4>1. operations[k].status # "none"
        BY <3>1 DEF CallReconciled, LedgerInv, CallSound, Begun
      <4>2. calls[g][k] \in Call
        BY Fields
      <4> QED BY <1>5, <1>8, <3>1, <4>1, <4>2 DEF CallReconciled, Call
    <3>2. CASE CallBegun(g, k)
      <4>1. PICK req \in Requests : \E phase \in Phase \ {"idle"} :
              calls'[g][k] = Invocation(req, phase)
        BY <3>2 DEF CallBegun, Phase
      <4> QED BY <1>8, <4>1 DEF Invocation, NoCall
    <3>3. CASE \/ CallDecided(g, k) \/ CallCreated(g, k) \/ CallJoined(g, k)
               \/ CallReauthorized(g, k) \/ CallDispatched(g, k)
      <4>1. calls[g][k] \in Call
        BY Fields
      <4> QED BY <1>8, <2>2, <3>3, <4>1
              DEF CallDecided, CallCreated, CallJoined, CallReauthorized, CallDispatched, Call
    <3> QED BY <1>8, <2>2, <3>1, <3>2, <3>3, CallIsStepped DEF CallMoves, NoCall
  <2> QED BY <2>1, <2>2
<1> QED BY <1>2, <1>6, <1>7, <1>8 DEF EffectsAreReal

(* An Operation that is recorded as succeeded had its content in its file,    *)
(* whether its own worker said so, a late answer was stored, or another       *)
(* process reconciled it after a crash or a timeout.                          *)
THEOREM SuccessesAreReal == Spec => []SuccessIsReal
<1>1. Init => EffectsAreReal
  BY DEF Init, EffectsAreReal, NoCall
<1>2. EffectsAreReal => SuccessIsReal
  BY DEF EffectsAreReal, SuccessIsReal, WasHeld
<1> QED BY <1>1, <1>2, EffectsStayReal, LedgerIsTyped, PTL DEF Spec
-----------------------------------------------------------------------------
(* A lost lease, with one gateway process per ledger. *)

(* A call that begins late is refused by whatever authority it reads, because *)
(* nothing but this process can have created its Operation meanwhile.         *)
LateIsRefused ==
  \A g \in Gateways, k \in Calls :
    /\ calls[g][k].late =>
         /\ calls[g][k].request.lease \notin running
         /\ calls[g][k].phase \notin {"dispatching", "executing"}
         /\ calls[g][k].phase = "decided" => ~calls[g][k].allowed
    /\ calls[g][k].phase \in {"authorizing", "decided"} => operations[k].status = "none"

(* No lease comes back.                                                       *)
LEMMA LeasesEnd == TypeOK /\ Next => running' \subseteq running
<1> SUFFICES ASSUME Next PROVE running' \subseteq running
  OBVIOUS
<1>1. ASSUME NEW g \in Gateways, NEW req \in Requests, Invoke(g, req) PROVE UNCHANGED running
  BY <1>1 DEF Invoke, InvokeNew, ReplayFinal, ReplayAuthorized, ReplayUnsettled
<1>2. ASSUME NEW g \in Gateways, NEW k \in Calls, Reconcile(g, k) PROVE UNCHANGED running
  BY <1>2 DEF Reconcile, ReconcileFinal, ReconcileAuthorized, ReconcileUnsettled
<1>3. ASSUME NEW g \in Gateways, NEW k \in Calls, GatewayStep(g, k) PROVE UNCHANGED running
  BY <1>3 DEF GatewayStep, ReadAuthority, CreateAuthorized, CreateDenied, CreateIsLate,
     Reauthorize, ReauthorizationFails, CancelBeforeDispatch, Dispatch, DispatchIsLate,
     WorkerAnswers, WorkerIsLost, TimeoutOrAbort, ReconcileReads, ReconcileSettles,
     ReconcileIsInconclusive
<1>4. ASSUME NEW k \in Calls, WorkerStep(k) PROVE UNCHANGED running
  BY <1>4 DEF WorkerStep, WorkerInspects, WorkerRenames, WorkerVerifies, WorkerDies
<1>5. ASSUME Environment PROVE running' \subseteq running
  BY <1>5 DEF Environment, Crash, LeaseEnds, Edit
<1> QED BY <1>1, <1>2, <1>3, <1>4, <1>5 DEF Next

(* With one gateway, a call that begins late stays refused.                  *)
LEMMA LateStaysRefused ==
  ASSUME \A g, h \in Gateways : g = h
  PROVE  TypeOK /\ LedgerInv /\ LateIsRefused /\ [Next]_vars => LateIsRefused'
<1>1. LateIsRefused /\ UNCHANGED vars => LateIsRefused'
  BY DEF LateIsRefused, vars
<1> SUFFICES ASSUME TypeOK, LedgerInv, LateIsRefused, Next, NEW g \in Gateways, NEW k \in Calls
    PROVE  /\ calls'[g][k].late =>
                /\ calls'[g][k].request.lease \notin running'
                /\ calls'[g][k].phase \notin {"dispatching", "executing"}
                /\ calls'[g][k].phase = "decided" => ~calls'[g][k].allowed
           /\ calls'[g][k].phase \in {"authorizing", "decided"} => operations'[k].status = "none"
  BY <1>1 DEF LateIsRefused
<1>2. /\ calls[g][k] \in Call /\ running' \subseteq running
      /\ calls[g][k].late =>
           /\ calls[g][k].request.lease \notin running
           /\ calls[g][k].phase \notin {"dispatching", "executing"}
           /\ calls[g][k].phase = "decided" => ~calls[g][k].allowed
      /\ calls[g][k].phase \in {"authorizing", "decided"} => operations[k].status = "none"
  BY Fields, LeasesEnd DEF LateIsRefused
<1>3. CASE calls'[g][k] = calls[g][k]
  <2>1. calls[g][k].phase \in {"authorizing", "decided"} => operations'[k] = operations[k]
    <3>1. ~(calls[g][k].phase \in {"authorizing", "decided"} /\ RowCreated(k))
      BY <1>3 DEF RowCreated
    <3>2. ~(operations[k].status = "none" /\ RowMoved(k))
      BY DEF RowMoved, MayMove
    <3> QED BY <1>2, <3>1, <3>2, RowIsStepped
  <2> QED BY <1>2, <1>3, <2>1
<1>4. CASE calls'[g][k] = NoCall
  BY <1>4 DEF NoCall
<1>5. CASE CallBegun(g, k)
  <2>1. PICK req \in Requests : \E phase \in {"authorizing", "reauthorizing", "reconciling"} :
          /\ calls'[g][k] = Invocation(req, phase)
          /\ phase = "authorizing" => operations[k].status = "none"
    BY <1>5 DEF CallBegun
  <2> QED BY <1>5, <2>1 DEF CallBegun, Invocation, NoCall
<1>6. CASE CallDecided(g, k)
  BY <1>2, <1>6 DEF CallDecided, Call
<1>7. CASE CallCreated(g, k) \/ CallDispatched(g, k)
  BY <1>2, <1>7 DEF CallCreated, CallDispatched, Call
<1>8. CASE CallJoined(g, k)
  BY <1>2, <1>8 DEF CallJoined
<1>9. CASE CallReauthorized(g, k)
  BY <1>2, <1>9 DEF CallReauthorized, Call
<1>10. CASE CallReconciled(g, k)
  BY <1>2, <1>10 DEF CallReconciled, Call
<1> QED BY <1>3, <1>4, <1>5, <1>6, <1>7, <1>8, <1>9, <1>10, CallIsStepped DEF CallMoves

(* With one gateway process per ledger no call that was begun after its lease *)
(* was lost gets to a worker.  The hypothesis is the one under which the      *)
(* property holds: claim_lost_lease breaks it with two processes.             *)
THEOREM LostLeasesDispatchNothing ==
  ASSUME \A g, h \in Gateways : g = h
  PROVE  Spec => []LostLeaseNeverDispatches
<1>1. Init => LateIsRefused
  BY DEF Init, LateIsRefused, NoCall
<1>2. LateIsRefused => LostLeaseNeverDispatches
  BY DEF LateIsRefused, LostLeaseNeverDispatches
<1>3. TypeOK /\ LedgerInv /\ LateIsRefused /\ [Next]_vars => LateIsRefused'
  BY LateStaysRefused
<1> QED BY <1>1, <1>2, <1>3, LedgerIsTyped, PTL DEF Spec
-----------------------------------------------------------------------------
(* The processes together implement the abstract ledger. *)

Statuses == [k \in Calls |-> operations[k].status]

LedgerVars == <<Statuses, dispatched, told>>

LedgerStep == Ledger!Next \/ UNCHANGED LedgerVars

(* The abstract status of an Operation is that of its row ...                *)
LEMMA StatusOf == ASSUME NEW k \in Calls PROVE Statuses[k] = operations[k].status
BY DEF Statuses

(* ... when the row is written ...                                           *)
LEMMA StatusWritten ==
  ASSUME TypeOK, NEW k \in Calls, NEW status, WriteRow(k, status)
  PROVE  Statuses' = [Statuses EXCEPT ![k] = status]
<1>1. ASSUME NEW j \in Calls
      PROVE  operations'[j].status = IF j = k THEN status ELSE operations[j].status
  BY DEF WriteRow, TypeOK, Operation
<1> QED BY <1>1 DEF Statuses

(* ... and when it is created.                                               *)
LEMMA StatusCreated ==
  ASSUME TypeOK, NEW k \in Calls, NEW status, NEW version, NEW request,
         operations' = [operations EXCEPT ![k] =
           [status |-> status, version |-> version, request |-> request]]
  PROVE  Statuses' = [Statuses EXCEPT ![k] = status]
<1>1. ASSUME NEW j \in Calls
      PROVE  operations'[j].status = IF j = k THEN status ELSE operations[j].status
  BY DEF TypeOK
<1> QED BY <1>1 DEF Statuses

(* An answer from the row as it stands is a replay.                           *)
LEMMA AnswerIsReplay ==
  ASSUME NEW k \in Calls, UNCHANGED <<operations, dispatched>>,
         \/ operations[k].status \in Final /\ Tell(k, operations[k].status)
         \/ TellStored(k)
  PROVE  LedgerStep
<1>1. UNCHANGED Statuses
  BY DEF Statuses
<1>2. CASE operations[k].status \in Final /\ Tell(k, operations[k].status)
  <2>1. Ledger!Replay(k)
    BY <1>1, <1>2, StatusOf DEF Ledger!Replay, Ledger!Final, Final, Tell, Statuses
  <2> QED BY <2>1 DEF LedgerStep, Ledger!Next
<1>3. CASE UNCHANGED told
  BY <1>1, <1>3 DEF LedgerStep, LedgerVars
<1> QED BY <1>2, <1>3 DEF TellStored

(* What a call writes and tells at its end withdraws or settles.              *)
LEMMA FinishIsAllowed ==
  ASSUME TypeOK, LedgerInv, NEW g \in Gateways, NEW k \in Calls,
         NEW outcome \in {"failed", "succeeded"}, Finish(g, k, outcome), UNCHANGED dispatched,
         RowIsCurrent(g, k) =>
           \/ operations[k].status = "authorized" /\ outcome = "failed"
           \/ operations[k].status \in {"executing", "unknown"}
  PROVE  LedgerStep
<1>1. CASE RowIsCurrent(g, k)
  <2>1. Statuses' = [Statuses EXCEPT ![k] = outcome]
    BY <1>1, StatusWritten DEF Finish
  <2>2. told' = [told EXCEPT ![k] = @ \cup {outcome}]
    BY <1>1 DEF Finish, Tell
  <2>3. Ledger!MayTell(k, outcome)
    BY <2>2 DEF Ledger!MayTell
  <2>4. CASE operations[k].status = "authorized" /\ outcome = "failed"
    <3>1. Ledger!Withdraw(k)
      BY <2>1, <2>3, <2>4, StatusOf DEF Ledger!Withdraw, Statuses
    <3> QED BY <3>1 DEF LedgerStep, Ledger!Next
  <2>5. CASE operations[k].status \in {"executing", "unknown"}
    <3>1. Ledger!Settle(k, outcome)
      BY <2>1, <2>3, <2>5, StatusOf DEF Ledger!Settle, Statuses
    <3> QED BY <3>1 DEF LedgerStep, Ledger!Next
  <2> QED BY <1>1, <2>4, <2>5
<1>2. CASE ~RowIsCurrent(g, k)
  BY <1>2, AnswerIsReplay DEF Finish
<1> QED BY <1>1, <1>2

(* Losing track of an Operation is a step of the abstract ledger or a        *)
(* stutter.                                                                  *)
LEMMA LossIsAllowed ==
  ASSUME TypeOK, NEW g \in Gateways, NEW k \in Calls, LoseTrack(g, k), UNCHANGED dispatched,
         RowIsCurrent(g, k) => operations[k].status \in {"executing", "unknown"}
  PROVE  LedgerStep
<1>1. CASE RowIsCurrent(g, k)
  <2>1. Statuses' = [Statuses EXCEPT ![k] = "unknown"]
    BY <1>1, StatusWritten DEF LoseTrack
  <2>2. CASE operations[k].status = "executing"
    <3>1. Ledger!LoseTrack(k)
      BY <2>1, <2>2, StatusOf DEF Ledger!LoseTrack, Statuses, LoseTrack
    <3> QED BY <3>1 DEF LedgerStep, Ledger!Next
  <2>3. CASE operations[k].status = "unknown"
    <3>1. UNCHANGED Statuses
      BY <2>1, <2>3, StatusOf DEF Statuses
    <3> QED BY <3>1 DEF LedgerStep, LedgerVars, LoseTrack
  <2> QED BY <1>1, <2>2, <2>3
<1>2. CASE ~RowIsCurrent(g, k)
  BY <1>2 DEF LoseTrack, LedgerStep, LedgerVars, Statuses
<1> QED BY <1>1, <1>2

(* The steps that begin a call or answer it from the row.                     *)
LEMMA BeginningIsAllowed ==
  ASSUME TypeOK, LedgerInv, NEW g \in Gateways
  PROVE  /\ \A req \in Requests : Invoke(g, req) => LedgerStep
         /\ \A k \in Calls : Reconcile(g, k) => LedgerStep
<1>1. UNCHANGED <<operations, dispatched, told>> => LedgerStep
  BY DEF LedgerStep, LedgerVars, Statuses
<1>2. ASSUME NEW req \in Requests, Invoke(g, req) PROVE LedgerStep
  <2>1. req.call \in Calls
    BY RequestAssumption DEF Request
  <2>2. CASE ReplayFinal(g, req)
    BY <2>1, <2>2, AnswerIsReplay DEF ReplayFinal
  <2> QED BY <1>1, <1>2, <2>2 DEF Invoke, InvokeNew, ReplayAuthorized, ReplayUnsettled
<1>3. ASSUME NEW k \in Calls, Reconcile(g, k) PROVE LedgerStep
  <2>1. CASE ReconcileFinal(g, k)
    BY <2>1, AnswerIsReplay DEF ReconcileFinal
  <2>2. CASE ReconcileAuthorized(g, k)
    <3>1. Statuses' = [Statuses EXCEPT ![k] = "failed"]
      BY <2>2, StatusWritten DEF ReconcileAuthorized
    <3>2. Ledger!MayTell(k, "failed")
      BY <2>2 DEF ReconcileAuthorized, Tell, Ledger!MayTell
    <3>3. Ledger!Withdraw(k)
      BY <2>2, <3>1, <3>2, StatusOf DEF ReconcileAuthorized, Ledger!Withdraw, Statuses
    <3> QED BY <3>3 DEF LedgerStep, Ledger!Next
  <2> QED BY <1>1, <1>3, <2>1, <2>2 DEF Reconcile, ReconcileUnsettled
<1> QED BY <1>2, <1>3

(* The steps that create or join an Operation.                                *)
LEMMA CreationIsAllowed ==
  ASSUME TypeOK, NEW g \in Gateways, NEW k \in Calls,
         CreateAuthorized(g, k) \/ CreateDenied(g, k) \/ CreateIsLate(g, k)
  PROVE  LedgerStep
<1>1. CASE CreateAuthorized(g, k)
  <2>1. Statuses' = [Statuses EXCEPT ![k] = "authorized"]
    BY <1>1, StatusCreated DEF CreateAuthorized
  <2>2. Ledger!Permit(k)
    BY <1>1, <2>1, StatusOf DEF CreateAuthorized, Ledger!Permit, Statuses
  <2> QED BY <2>2 DEF LedgerStep, Ledger!Next
<1>2. CASE CreateDenied(g, k)
  <2>1. Statuses' = [Statuses EXCEPT ![k] = "denied"]
    BY <1>2, StatusCreated DEF CreateDenied
  <2>2. Ledger!MayTell(k, "denied")
    BY <1>2 DEF CreateDenied, Tell, Ledger!MayTell
  <2>3. Ledger!Deny(k)
    BY <1>2, <2>1, <2>2, StatusOf DEF CreateDenied, Ledger!Deny, Statuses
  <2> QED BY <2>3 DEF LedgerStep, Ledger!Next
<1>3. CASE CreateIsLate(g, k)
  <2>1. CASE operations[k].status = "denied" /\ Tell(k, "denied")
    BY <1>3, <2>1, AnswerIsReplay DEF CreateIsLate, Final
  <2>2. CASE UNCHANGED told
    BY <1>3, <2>2 DEF CreateIsLate, LedgerStep, LedgerVars, Statuses
  <2> QED BY <1>3, <2>1, <2>2 DEF CreateIsLate
<1> QED BY <1>1, <1>2, <1>3

(* The dispatch, the only step that hands the side effect to a worker.        *)
LEMMA DispatchIsAllowed ==
  ASSUME TypeOK, LedgerInv, NEW g \in Gateways, NEW k \in Calls, Dispatch(g, k)
  PROVE  LedgerStep
<1>1. operations[k].status = "authorized" /\ ~dispatched[k]
  BY DEF Dispatch, RowIsCurrent, LedgerInv, CallSound, RowSound, Begun
<1>2. Statuses' = [Statuses EXCEPT ![k] = "executing"]
  BY StatusWritten DEF Dispatch
<1>3. Ledger!Dispatch(k)
  BY <1>1, <1>2, StatusOf DEF Dispatch, StartWorker, Ledger!Dispatch, Statuses
<1> QED BY <1>3 DEF LedgerStep, Ledger!Next

(* The steps that end a call with what it came to.                            *)
LEMMA EndIsAllowed ==
  ASSUME TypeOK, LedgerInv, NEW g \in Gateways, NEW k \in Calls,
         \/ ReauthorizationFails(g, k) \/ CancelBeforeDispatch(g, k) \/ WorkerAnswers(g, k)
         \/ WorkerIsLost(g, k) \/ TimeoutOrAbort(g, k) \/ ReconcileSettles(g, k)
         \/ ReconcileIsInconclusive(g, k)
  PROVE  LedgerStep
<1>1. UNCHANGED dispatched
  BY DEF ReauthorizationFails, CancelBeforeDispatch, WorkerAnswers, WorkerIsLost,
     TimeoutOrAbort, ReconcileSettles, ReconcileIsInconclusive
<1>2. CASE ReauthorizationFails(g, k) \/ CancelBeforeDispatch(g, k)
  <2>1. RowIsCurrent(g, k) => operations[k].status = "authorized"
    BY <1>2 DEF ReauthorizationFails, CancelBeforeDispatch, RowIsCurrent, LedgerInv, CallSound,
       RowSound, Begun
  <2> QED BY <1>1, <1>2, <2>1, FinishIsAllowed DEF ReauthorizationFails, CancelBeforeDispatch
<1>3. CASE WorkerAnswers(g, k) \/ WorkerIsLost(g, k) \/ TimeoutOrAbort(g, k)
  <2>1. RowIsCurrent(g, k) => operations[k].status = "executing"
    BY <1>3 DEF WorkerAnswers, WorkerIsLost, TimeoutOrAbort, RowIsCurrent, LedgerInv, CallSound
  <2> QED BY <1>1, <1>3, <2>1, FinishIsAllowed, LossIsAllowed
          DEF WorkerAnswers, WorkerIsLost, TimeoutOrAbort
<1>4. CASE ReconcileSettles(g, k) \/ ReconcileIsInconclusive(g, k)
  <2>1. RowIsCurrent(g, k) => operations[k].status \in {"executing", "unknown"}
    BY <1>4 DEF ReconcileSettles, ReconcileIsInconclusive, RowIsCurrent, LedgerInv, CallSound
  <2> QED BY <1>1, <1>4, <2>1, FinishIsAllowed, LossIsAllowed
          DEF ReconcileSettles, ReconcileIsInconclusive
<1> QED BY <1>2, <1>3, <1>4

(* Step simulation: every step of the gateway is one of the abstract ledger  *)
(* or a stutter.                                                             *)
LEMMA StepIsAllowed ==
  TypeOK /\ LedgerInv /\ [Next]_vars => LedgerStep
<1>1. UNCHANGED <<operations, dispatched, told>> => LedgerStep
  BY DEF LedgerStep, LedgerVars, Statuses
<1>2. UNCHANGED vars => LedgerStep
  BY <1>1 DEF vars
<1> SUFFICES ASSUME TypeOK, LedgerInv, Next PROVE LedgerStep
  BY <1>2
<1>3. ASSUME NEW g \in Gateways, NEW k \in Calls, GatewayStep(g, k) PROVE LedgerStep
  <2>1. CASE \/ ReadAuthority(g, k) \/ Reauthorize(g, k) \/ DispatchIsLate(g, k)
             \/ ReconcileReads(g, k)
    BY <1>1, <2>1 DEF ReadAuthority, Reauthorize, DispatchIsLate, ReconcileReads
  <2> QED BY <1>3, <2>1, CreationIsAllowed, DispatchIsAllowed, EndIsAllowed DEF GatewayStep
<1>4. ASSUME NEW k \in Calls, WorkerStep(k) PROVE LedgerStep
  BY <1>1, <1>4 DEF WorkerStep, WorkerInspects, WorkerRenames, WorkerVerifies, WorkerDies
<1>5. ASSUME Environment PROVE LedgerStep
  BY <1>1, <1>5 DEF Environment, Crash, LeaseEnds, Edit
<1> QED BY <1>3, <1>4, <1>5, BeginningIsAllowed DEF Next

(* Whatever the processes, their deaths and their replays do together, the    *)
(* ledger they share keeps its promises: one dispatch of a side effect that   *)
(* was authorized before, final outcomes that stay, and no caller told        *)
(* anything that is not on record.                                            *)
THEOREM GatewayImplementsLedger == Spec => ImplementsLedger
<1>1. Init => Ledger!Init
  BY DEF Init, Ledger!Init
<1>2. TypeOK /\ LedgerInv /\ [Next]_vars => [Ledger!Next]_LedgerVars
  BY StepIsAllowed DEF LedgerStep
<1> QED BY <1>1, <1>2, LedgerIsTyped, PTL DEF Spec, ImplementsLedger, Ledger!Spec, LedgerVars, Statuses
=============================================================================
