-------------------------- MODULE RoleExecutionProofs --------------------------
(* The role execution coordinator, for every number of processes, requests,  *)
(* Operations and checks: it sends the control plane nothing but commands,    *)
(* and what it promises of sessions, Operations, checks and handoffs holds    *)
(* however its calls interleave, repeat, throw and crash.                     *)
EXTENDS RoleExecution, ControlPlaneWorkProofs, FiniteSetTheorems

-----------------------------------------------------------------------------
(* The inductive invariant. *)

(* The status its RoleRun has as long as a call is at one of these steps.    *)
StatusFor(step) ==
  IF step \in {"check", "run", "ended"} THEN "running"
  ELSE IF step \in {"collect", "submit", "fail", "block"} THEN "settling"
  ELSE "none"

(* A call that has opened the session of its RoleRun acts for it.            *)
Acts(call) == StatusFor(call.step) # "none"

CallHolds(call) ==
  Acts(call) => roleRuns[call.request.roleRun].status = StatusFor(call.step)

(* What a call has in memory, by itself.                                     *)
CallRemembers(call) ==
  /\ call.tool # Nil =>
       /\ call.step = "run" /\ OwnerOf[call.tool] = call.request.roleRun
       /\ call.tool \notin call.collected
  /\ call.step \in {"idle", "prepare", "lease", "start", "open"} =>
       call.collected = {} /\ call.settled = {} /\ call.outcomes = {}
  /\ call.step = "check" => call.left # 0 /\ call.collected = {}
  /\ call.step = "run" /\ call.request.role = "verifier" => call.outcomes # {}
  /\ call.step = "ended" /\ call.request.role = "verifier" /\ call.outcomes = {} =>
       call.collected = {}
  /\ call.step = "ended" => call.runtime # "none"
  /\ call.step \in {"ended", "collect"} /\ call.runtime = "completed" => ~call.timedOut
  /\ call.step = "submit" =>
       /\ call.settled = call.collected /\ ~call.unknown
       /\ call.submissions = 1 /\ ~call.timedOut
       /\ call.request.role = "verifier" => Sealable(call.outcomes, call.judgement)

(* What it knows of the Operations of its RoleRun: those it collected exist,  *)
(* and those it settled have an outcome, or it knows of one that has none.    *)
CallCollects(call) ==
  /\ \A k \in call.collected :
       k \notin lost /\ operations[k] # "none" /\ OwnerOf[k] = call.request.roleRun
  /\ call.tool # Nil => call.tool \notin lost
  /\ \A k \in call.settled :
       operations[k] \in Final \/ (operations[k] = "unknown" /\ call.unknown)

(* None of those it was told of is missing.                                  *)
CallSees(call, k) ==
  Acts(call) /\ OwnerOf[k] = call.request.roleRun /\ operations[k] # "none" =>
    /\ call.step \in {"check", "run", "ended"} => k = call.tool \/ k \in call.collected
    /\ call.step \in {"collect", "submit", "block"} => k \in call.collected
    /\ call.step = "fail" => operations[k] \in Final

(* What it says its checks came to is what their Evidence says.              *)
CallChecks(call) ==
  Acts(call) /\ (call.outcomes # {} \/ call.step = "check") =>
    call.outcomes = {OutcomeOf(o) : o \in checks[call.request.roleRun]}

(* What it asks for: an ExecutionResult that is stored, and a RoleRun that is *)
(* prepared for its Run before it is leased.                                  *)
CallAsks(call) ==
  /\ call.step # "idle" /\ call.request.role = "verifier" =>
       call.request.execution \in Registered
  /\ call.step \notin {"idle", "prepare"} =>
       /\ commands[call.request.roleRun].prepare # Nil
       /\ commands[call.request.roleRun].prepare.run = call.request.run

CallSound(call) ==
  /\ CallHolds(call) /\ CallRemembers(call) /\ CallCollects(call) /\ CallChecks(call)
  /\ CallAsks(call)
  /\ \A k \in Operations \ lost : CallSees(call, k)

(* One call at a time acts for a RoleRun.                                    *)
OneActor ==
  \A c, d \in Callers :
    Acts(calls[c]) /\ Acts(calls[d]) /\ RoleRunOf(c) = RoleRunOf(d) => c = d

(* Where the Operations of a RoleRun are once its session is over.           *)
OperationSound(k) ==
  operations[k] # "none" =>
    LET x == roleRuns[OwnerOf[k]]
    IN  /\ x.status \notin {"none", "prepared", "starting"}
        /\ x.status \in {"settling", "blocked", "settled"} => k \in refs[OwnerOf[k]]
        /\ x.status = "settled" => operations[k] \in Final

Over(status) == status \in {"settling", "blocked", "settled"}

RefsSound(x) ==
  /\ refs[x] # {} => Over(roleRuns[x].status)
  /\ \A k \in refs[x] : k \notin lost /\ operations[k] # "none" /\ OwnerOf[k] = x

(* A RoleRun is prepared, leased and checked once, for the Run its command    *)
(* names, and its result is stored.                                           *)
RoleRunSound(x) ==
  /\ commands[x].prepare = Nil <=> roleRuns[x].status = "none"
  /\ commands[x].prepare # Nil => commands[x].prepare.run = roleRuns[x].run
  /\ commands[x].lease = Nil <=> roleRuns[x].status \in {"none", "prepared"}
  /\ roleRuns[x].status \in {"none", "prepared", "starting"} => checks[x] = {}
  /\ roleRuns[x].output # Nil => roleRuns[x].output \in Registered

(* As long as its Run is active, the rows are those the lease was taken on.   *)
RowsStay(x) ==
  LET run  == roleRuns[x].run
      seen == commands[x].lease.seen
  IN  roleRuns[x].status \in {"starting", "running", "settling"}
      /\ runs[run].status = "active" =>
        /\ versions.task = seen.task
        /\ versions.run[run] - seen.run \in {0, 1}

(* x is a verifier all of whose checks passed.                               *)
Good == [exit |-> "expected", late |-> FALSE]

CheckedBy(v, x) ==
  /\ roleRuns[x].role = "verifier" /\ roleRuns[x].outcome = "succeeded"
  /\ roleRuns[x].output = v
  /\ checks[x] = {Good}

(* Every result that passes is of such a verifier, and the Task waits for     *)
(* acceptance, or is completed, on one that passes.                           *)
PassesAreChecked ==
  /\ \A v \in Artifacts :
       artifacts[v].verdict = "pass" => \E x \in RoleRuns : CheckedBy(v, x)
  /\ task.status = "awaiting_acceptance" \/ task.outcome = "completed" =>
       task.verification \in Artifacts /\ artifacts[task.verification].verdict = "pass"

ExecutionInv ==
  /\ \A c \in Callers : CallSound(calls[c])
  /\ OneActor
  /\ \A k \in Operations \ lost : OperationSound(k)
  /\ \A x \in RoleRuns : RefsSound(x) /\ RoleRunSound(x) /\ RowsStay(x)
  /\ PassesAreChecked

-----------------------------------------------------------------------------
(* Types. *)

CallsTyped ==
  /\ calls \in [Callers -> Call]
  /\ \A c \in Callers : calls[c].step = "idle" <=> calls[c].request = Nil

VersionsTyped == versions \in [task: Nat, run: [Runs -> Nat]]

StoresTyped ==
  /\ commands \in [RoleRuns ->
       [prepare: PrepareCommand \cup {Nil}, lease: LeaseCommand \cup {Nil}]]
  /\ operations \in [Operations -> OperationStatus]
  /\ dispatched \in [Operations -> BOOLEAN]
  /\ refs \in [RoleRuns -> SUBSET Operations]
  /\ checks \in [RoleRuns -> SUBSET Observation]
  /\ lost \in SUBSET Operations

(* ExecutionTypeOK is its four parts, before and after a step.                *)
LEMMA ExecutionTypeParts ==
  /\ ExecutionTypeOK <=> TypeOK /\ CallsTyped /\ VersionsTyped /\ StoresTyped
  /\ ExecutionTypeOK' <=> TypeOK' /\ CallsTyped' /\ VersionsTyped' /\ StoresTyped'
BY DEF ExecutionTypeOK, CallsTyped, VersionsTyped, StoresTyped

(* What execute and verify are called with.                                   *)
LEMMA RequestFields ==
  ASSUME NEW req \in Requests
  PROVE  /\ req \in Request /\ req # Nil
         /\ req.roleRun \in RoleRuns /\ req.role \in RuntimeRoles /\ req.run \in Runs
         /\ req.worker \in Workers /\ req.result \in Artifacts
         /\ req.role = "executor" => req.execution = Nil
         /\ req.role = "verifier" => req.execution \in Artifacts /\ req.executor \in RoleRuns
<1>1. req \in Request
  BY RequestAssumption
<1>2. req # Nil
  BY ExecutionAssumption
<1>3. /\ req.roleRun \in RoleRuns /\ req.role \in RuntimeRoles /\ req.run \in Runs
      /\ req.worker \in Workers /\ req.result \in Artifacts
      /\ req.execution \in Artifacts \cup {Nil} /\ req.executor \in RoleRuns \cup {Nil}
  BY <1>1 DEF Request
<1> QED BY <1>1, <1>2, <1>3, RequestAssumption

(* What a call remembers, by field.                                           *)
LEMMA CallFields ==
  ASSUME CallsTyped, NEW c \in Callers
  PROVE  /\ calls[c] \in Call
         /\ calls[c].step \in Steps
         /\ calls[c].step # "idle" => calls[c].request \in Requests /\ RunOf(c) \in Runs
                                      /\ RoleRunOf(c) \in RoleRuns
         /\ calls[c].token \in Nat /\ calls[c].seen \in Seen
         /\ calls[c].tool \in Operations \cup {Nil}
         /\ calls[c].collected \subseteq Operations /\ calls[c].settled \subseteq Operations
         /\ calls[c].outcomes \subseteq Outcomes
<1>1. calls[c] \in Call
  BY DEF CallsTyped
<1>2. calls[c].step # "idle" => calls[c].request \in Requests
  BY <1>1 DEF CallsTyped, Call
<1>3. calls[c].step # "idle" => RunOf(c) \in Runs /\ RoleRunOf(c) \in RoleRuns
  BY <1>2, RequestFields DEF RunOf, RoleRunOf
<1> QED BY <1>1, <1>2, <1>3 DEF Call

(* A process that is in no call.                                             *)
LEMMA NoCallFields ==
  /\ NoCall \in Call /\ NoCall.step = "idle" /\ NoCall.request = Nil /\ NoCall.tool = Nil
  /\ NoCall.settled = {} /\ NoCall.collected = {} /\ NoCall.outcomes = {}
<1>1. 0 \in 0..RequiredChecks /\ 0 \in 0..2
  BY ExecutionAssumption
<1>2. /\ "idle" \in Steps /\ [task |-> 0, run |-> 0] \in Seen
  BY DEF Steps, Seen
<1> QED BY <1>1, <1>2 DEF NoCall, Call

(* A step of one call writes its memory and no other's.                       *)
LEMMA CallWritten ==
  ASSUME CallsTyped, NEW c \in Callers, NEW call \in Call,
         call.step = "idle" <=> call.request = Nil, Continue(c, call)
  PROVE  /\ CallsTyped'
         /\ calls'[c] = call
         /\ \A d \in Callers : d # c => calls'[d] = calls[d]
BY DEF CallsTyped, Continue

(* A call that goes on with the same memory.                                 *)
LEMMA GotoContinues ==
  ASSUME CallsTyped, NEW c \in Callers, NEW step, Goto(c, step)
  PROVE  Continue(c, [calls[c] EXCEPT !.step = step])
BY DEF CallsTyped, Goto, Continue

(* The rows a process reads have versions that are numbers.                   *)
LEMMA CurrentTyped ==
  ASSUME VersionsTyped, NEW r \in Runs
  PROVE  Current(r) \in Seen
<1>1. versions.task \in Nat /\ versions.run[r] \in Nat
  BY DEF VersionsTyped
<1> QED BY <1>1 DEF Current, Seen

(* Versions count up.                                                        *)
LEMMA VersionsKept ==
  ASSUME VersionsTyped, Versioned \/ UNCHANGED versions
  PROVE  VersionsTyped'
<1>1. CASE UNCHANGED versions
  BY <1>1 DEF VersionsTyped
<1>2. CASE Versioned
  <2>1. versions.task \in Nat /\ versions.run \in [Runs -> Nat]
    BY DEF VersionsTyped
  <2>2. versions.task + (IF task' = task THEN 0 ELSE 1) \in Nat
    BY <2>1
  <2>3. \A r \in Runs : versions.run[r] + (IF runs'[r] = runs[r] THEN 0 ELSE 1) \in Nat
    BY <2>1
  <2> QED BY <1>2, <2>2, <2>3 DEF Versioned, VersionsTyped
<1> QED BY <1>1, <1>2

-----------------------------------------------------------------------------
(* Every step is a command of the control plane, or writes none of its rows. *)

(* A verifier is prepared with one artifact, which is stored.                 *)
LEMMA InputsMayBeChosen ==
  ASSUME NEW req \in Requests, req.role = "verifier" => req.execution \in Registered
  PROVE  InputsOf(req) \in InputChoices(req.role)
<1>1. req.role \in {"executor", "verifier"}
  BY RequestFields DEF RuntimeRoles
<1>2. CASE req.role = "executor"
  BY <1>2, RequestFields DEF InputsOf, InputChoices
<1>3. CASE req.role = "verifier"
  <2>1. InputsOf(req) = {req.execution}
    BY <1>3, RequestFields, NilAssumption DEF InputsOf
  <2>2. Cardinality({req.execution}) = 1
    BY FS_Singleton
  <2>3. MaxInputs \in Nat /\ MaxInputs >= 1
    BY BoundAssumption, RequestAssumption
  <2> QED BY <1>3, <2>1, <2>2, <2>3 DEF InputChoices
<1> QED BY <1>1, <1>2, <1>3

(* prepareRoleRun asks the control plane for an input it admits.             *)
LEMMA PrepareIsCommand ==
  ASSUME CallsTyped, NEW c \in Callers, CallAsks(calls[c]), Prepare(c)
  PROVE  Next
<1>1. calls[c].request \in Requests /\ calls[c].step # "idle"
  BY CallFields DEF Prepare
<1>2. InputsOf(calls[c].request) \in InputChoices(calls[c].request.role)
  BY <1>1, InputsMayBeChosen DEF CallAsks
<1>3. PrepareRoleRun(RoleRunOf(c), RunOf(c), calls[c].request.role, InputsOf(calls[c].request))
  BY DEF Prepare
<1>4. RoleRunOf(c) \in RoleRuns /\ RunOf(c) \in Runs /\ calls[c].request.role \in RuntimeRoles
  BY <1>1, CallFields, RequestFields
<1> QED BY <1>2, <1>3, <1>4 DEF RunCommand, Next

(* acquireRoleRunLease is sent for a RoleRun that exists.                    *)
LEMMA LeaseIsCommand ==
  ASSUME CallsTyped, NEW c \in Callers, Lease(c)
  PROVE  Next
<1>1. calls[c].request \in Requests
  BY CallFields DEF Lease
<1>2. RoleRunOf(c) \in RoleRuns /\ calls[c].request.worker \in Workers
  BY <1>1, CallFields, RequestFields DEF RoleRunOf
<1>3. /\ AcquireRoleRunLease(RoleRunOf(c), calls[c].request.worker)
      /\ roleRuns[RoleRunOf(c)].status # "none"
  BY DEF Lease
<1> QED BY <1>2, <1>3 DEF WorkerCommand, Next

(* What a call sends under its lease.                                         *)
LEMMA LeasedIsCommand ==
  ASSUME CallsTyped, NEW c \in Callers, CallRemembers(calls[c]),
         \/ OpenSession(c) \/ MarkSettling(c) \/ Fail(c) \/ Block(c)
         \/ HandOverExecution(c) \/ HandOverVerification(c)
  PROVE  Next
<1>1. calls[c].step # "idle"
  BY DEF OpenSession, MarkSettling, Fail, Block, HandOverExecution, HandOverVerification
<1>2. calls[c].request \in Requests /\ calls[c].request.result \in Artifacts
  BY <1>1, CallFields, RequestFields
<1>3. CASE OpenSession(c) \/ MarkSettling(c) \/ Fail(c) \/ Block(c)
  <2>1. MarkSettling(c) => calls[c].runtime \in {"completed", "unsuccessful"}
    BY CallFields DEF Call, CallRemembers, MarkSettling
  <2>2. PICK g \in grants :
          \/ MarkRoleRunRunning(g) \/ SettleRoleRun(g) \/ BlockRoleRun(g)
          \/ \E runtime \in {"completed", "unsuccessful"} : MarkRoleRunSettling(g, runtime)
    BY <1>3, <2>1 DEF OpenSession, MarkSettling, Fail, Block, MarkRoleRunRunning,
       MarkRoleRunSettling, SettleRoleRun, BlockRoleRun, RoleLeaseHeld
  <2> QED BY <2>2 DEF WorkerCommand, Next
<1>4. CASE HandOverExecution(c)
  <2>1. PICK g \in grants : SubmitExecutionForVerification(g, calls[c].request.result)
    BY <1>4 DEF HandOverExecution, SubmitExecutionForVerification, RoleLeaseHeld
  <2> QED BY <1>2, <2>1 DEF WorkerCommand, Next
<1>5. CASE HandOverVerification(c)
  <2>1. calls[c].request.execution \in Artifacts
    BY <1>2, <1>5, RequestFields DEF HandOverVerification
  <2>2. PICK g \in grants :
          SubmitVerification(g, calls[c].request.execution, calls[c].request.result)
    BY <1>5 DEF HandOverVerification, Route, SubmitVerification, SubmitPass, SubmitBlocked,
       SubmitImplementationFailure, SubmitUpstreamFailure, SubmitVerificationResult, RoleLeaseHeld
  <2> QED BY <1>2, <2>1, <2>2 DEF WorkerCommand, Next
<1> QED BY <1>3, <1>4, <1>5

(* What others do to the Run are commands, too.                              *)
LEMMA ElsewhereIsCommand ==
  ASSUME Elsewhere
  PROVE  Next
<1>1. CASE \E x \in RoleRuns : LeaseExpires(x)
  BY <1>1 DEF Environment, Next
<1>2. CASE OtherCommand
  <2>1. "revoked" \in Invalidations
    BY DEF Invalidations
  <2>2. ASSUME NEW a \in Approvals, InvalidateElsewhere(a, "revoked")
        PROVE  Next
    BY <2>1, <2>2 DEF InvalidateElsewhere, OtherTask, Environment, Next
  <2> QED BY <1>2, <2>1, <2>2 DEF OtherCommand, StopCommand, InvalidateApproval,
         AcceptanceCommand, Next
<1> QED BY <1>1, <1>2 DEF Elsewhere

-----------------------------------------------------------------------------
(* Steps in which a call goes on in memory: it reads, or its session does.    *)

MemoryStep(c, call) ==
  /\ Continue(c, call) /\ call \in Call /\ (call.step = "idle" <=> call.request = Nil)
  /\ UNCHANGED <<vars, versions, commands, refs, checks>> /\ UnchangedLedger
  /\ Acts(call) => Acts(calls[c]) /\ call.request = calls[c].request
  /\ CallSound(call)

(* Such a step keeps the types ...                                           *)
LEMMA MemoryKeepsTypes ==
  ASSUME ExecutionTypeOK, NEW c \in Callers, NEW call, MemoryStep(c, call)
  PROVE  ExecutionTypeOK'
<1>1. TypeOK /\ CallsTyped /\ VersionsTyped /\ StoresTyped
  BY ExecutionTypeParts
<1>2. CallsTyped'
  BY <1>1, CallWritten DEF MemoryStep
<1>3. VersionsTyped'
  BY <1>1, VersionsKept DEF MemoryStep
<1>4. TypeOK'
  BY <1>1 DEF MemoryStep, TypeOK, vars
<1>5. StoresTyped'
  BY <1>1 DEF MemoryStep, StoresTyped, UnchangedLedger
<1> QED BY <1>2, <1>3, <1>4, <1>5, ExecutionTypeParts

(* A call is as sound as it was if nothing is written that it rests on.       *)
LEMMA SoundCallStays ==
  ASSUME NEW d \in Callers, NEW call, calls'[d] = call, CallSound(call),
         UNCHANGED <<vars, commands, checks>>, UnchangedLedger
  PROVE  CallSound(calls[d])'
<1>1. CallHolds(calls[d])'
  BY DEF CallSound, CallHolds, vars, Acts, StatusFor
<1>2. CallRemembers(calls[d])'
  BY DEF CallSound, CallRemembers, Sealable
<1>3. CallCollects(calls[d])'
  BY DEF CallSound, CallCollects, UnchangedLedger
<1>4. \A k \in Operations \ lost' : CallSees(calls[d], k)'
  BY DEF CallSound, CallSees, UnchangedLedger, Acts
<1>5. CallChecks(calls[d])'
  BY DEF CallSound, CallChecks, Acts
<1>6. CallAsks(calls[d])'
  BY DEF CallSound, CallAsks, vars, Registered
<1> QED BY <1>1, <1>2, <1>3, <1>4, <1>5, <1>6 DEF CallSound, UnchangedLedger

(* ... and the invariant.                                                    *)
LEMMA MemoryKeepsInv ==
  ASSUME CallsTyped, ExecutionInv, NEW c \in Callers, NEW call, MemoryStep(c, call)
  PROVE  ExecutionInv'
<1>1. calls'[c] = call /\ \A d \in Callers : d # c => calls'[d] = calls[d]
  BY CallWritten DEF MemoryStep
<1>2. UNCHANGED <<vars, versions, commands, refs, checks>> /\ UnchangedLedger
  BY DEF MemoryStep
<1>3. ASSUME NEW d \in Callers
      PROVE  CallSound(calls[d])'
  <2>1. PICK old : old = calls[d]
    OBVIOUS
  <2>2. CallSound(old)
    BY <2>1 DEF ExecutionInv
  <2>3. CASE d = c
    BY <1>1, <1>2, <2>3, SoundCallStays DEF MemoryStep
  <2>4. CASE d # c
    BY <1>1, <1>2, <2>1, <2>2, <2>4, SoundCallStays
  <2> QED BY <2>3, <2>4
<1>4. OneActor'
  <2>1. OneActor
    BY DEF ExecutionInv
  <2>2. \A d \in Callers : /\ Acts(calls'[d]) => Acts(calls[d])
                           /\ Acts(calls'[d]) => calls'[d].request = calls[d].request
    BY <1>1 DEF MemoryStep
  <2> QED BY <2>1, <2>2 DEF OneActor, RoleRunOf, Acts
<1>5. \A k \in Operations \ lost' : OperationSound(k)'
  BY <1>2 DEF ExecutionInv, OperationSound, vars, UnchangedLedger
<1>6. \A x \in RoleRuns : RefsSound(x)' /\ RoleRunSound(x)'
  BY <1>2 DEF ExecutionInv, RefsSound, RoleRunSound, Over, Registered, vars, UnchangedLedger
<1>7. \A x \in RoleRuns : RowsStay(x)'
  BY <1>2 DEF ExecutionInv, RowsStay, vars
<1>8. PassesAreChecked'
  BY <1>2 DEF ExecutionInv, PassesAreChecked, CheckedBy, vars
<1> QED BY <1>3, <1>4, <1>5, <1>6, <1>7, <1>8 DEF ExecutionInv

(* What makes a step in memory: its call is typed and sound.                  *)
LEMMA MemoryStepIs ==
  ASSUME NEW c \in Callers, NEW call \in Call, Continue(c, call),
         UNCHANGED <<vars, versions, commands, refs, checks>>, UnchangedLedger,
         call.step = "idle" <=> call.request = Nil,
         Acts(call) => Acts(calls[c]) /\ call.request = calls[c].request,
         CallHolds(call), CallRemembers(call), CallCollects(call), CallChecks(call),
         CallAsks(call), \A k \in Operations \ lost : CallSees(call, k)
  PROVE  MemoryStep(c, call)
BY DEF MemoryStep, CallSound

(* A process that is in no call claims nothing.                              *)
LEMMA NoCallIsSound == CallSound(NoCall)
<1>1. ~Acts(NoCall)
  BY NoCallFields DEF Acts, StatusFor
<1> QED BY <1>1, NoCallFields DEF CallSound, CallHolds, CallRemembers, CallCollects, CallChecks,
           CallAsks, CallSees

(* A call that returns, throws or dies leaves its memory.                     *)
LEMMA ReturnIsMemory ==
  ASSUME NEW c \in Callers, Throw(c) \/ Crash(c)
  PROVE  MemoryStep(c, NoCall)
<1>1. ~Acts(NoCall)
  BY NoCallFields DEF Acts, StatusFor
<1> QED BY <1>1, NoCallFields, NoCallIsSound DEF Throw, Crash, Return, MemoryStep

(* A call that has not opened its session yet.                                *)
LEMMA EarlyIsMemory ==
  ASSUME NEW c \in Callers, NEW call \in Call, Continue(c, call),
         UNCHANGED <<vars, versions, commands, refs, checks>>, UnchangedLedger,
         call.step \in {"prepare", "lease", "start", "open"}, call.request # Nil,
         call.tool = Nil, call.collected = {}, call.settled = {}, call.outcomes = {},
         CallAsks(call)
  PROVE  MemoryStep(c, call)
<1>1. ~Acts(call)
  BY DEF Acts, StatusFor
<1>2. CallHolds(call) /\ CallRemembers(call) /\ CallCollects(call) /\ CallChecks(call)
  BY <1>1 DEF CallHolds, CallRemembers, CallCollects, CallChecks
<1>3. \A k \in Operations \ lost : CallSees(call, k)
  BY <1>1 DEF CallSees
<1> QED BY <1>1, <1>2, <1>3 DEF MemoryStep, CallSound

(* A call begins: verify knows of an ExecutionResult because its executor    *)
(* handed it over.                                                           *)
LEMMA BeginIsMemory ==
  ASSUME CallsTyped, VersionsTyped, TypeOK, \A x \in RoleRuns : RoleRunSound(x),
         NEW c \in Callers, NEW req \in Requests, Begin(c, req)
  PROVE  \E call : MemoryStep(c, call)
<1>1. PICK call : call = [NoCall EXCEPT !.step = "prepare", !.request = req,
                                        !.seen = Current(req.run)]
  OBVIOUS
<1>2. Current(req.run) \in Seen
  BY RequestFields, CurrentTyped
<1>3. call \in Call
  BY <1>1, <1>2, NoCallFields, RequestFields DEF Call, Steps
<1>4. /\ call.step = "prepare" /\ call.request = req /\ call.tool = Nil /\ call.collected = {}
      /\ call.settled = {} /\ call.outcomes = {}
  BY <1>1 DEF NoCall
<1>5. req.role = "verifier" => req.execution \in Registered
  <2>1. CASE req.role = "verifier"
    <3>1. req.execution \in Artifacts /\ req.executor \in RoleRuns
      BY <2>1, RequestFields
    <3>2. roleRuns[req.executor].output = req.execution
      BY <2>1 DEF Begin, ExecutorBound
    <3> QED BY <3>1, <3>2, NilAssumption DEF RoleRunSound
  <2> QED BY <2>1
<1>6. CallAsks(call)
  BY <1>4, <1>5 DEF CallAsks
<1>7. Continue(c, call) /\ UNCHANGED <<vars, versions, commands, refs, checks>> /\ UnchangedLedger
  BY <1>1 DEF Begin
<1> QED BY <1>3, <1>4, <1>6, <1>7, EarlyIsMemory, RequestFields

(* Replayed commands and the creation of the session.                        *)
LEMMA StartIsMemory ==
  ASSUME CallsTyped, NEW c \in Callers, CallSound(calls[c]),
         PrepareAgain(c) \/ LeaseAgain(c) \/ StartSession(c)
  PROVE  \E call : MemoryStep(c, call)
<1>1. /\ calls[c].step \in {"prepare", "lease", "start"} /\ calls[c].request \in Requests
      /\ RoleRunOf(c) \in RoleRuns /\ RunOf(c) \in Runs
  BY CallFields DEF PrepareAgain, LeaseAgain, StartSession
<1>2. /\ calls[c].tool = Nil /\ calls[c].collected = {} /\ calls[c].settled = {}
      /\ calls[c].outcomes = {}
  BY <1>1 DEF CallSound, CallRemembers
<1>3. UNCHANGED <<vars, versions, commands, refs, checks>> /\ UnchangedLedger
  BY DEF PrepareAgain, LeaseAgain, StartSession
<1>4. ASSUME NEW step \in {"lease", "start", "open"}, NEW token \in Nat,
             step = "lease" => PrepareAgain(c),
             Continue(c, [calls[c] EXCEPT !.step = step, !.token = token])
      PROVE  \E call : MemoryStep(c, call)
  <2>1. PICK call : call = [calls[c] EXCEPT !.step = step, !.token = token]
    OBVIOUS
  <2>2. calls[c] \in Call /\ step \in Steps
    BY CallFields DEF Steps
  <2>3. call \in Call
    BY <2>1, <2>2 DEF Call
  <2>4. /\ call.step = step /\ call.request = calls[c].request /\ call.tool = Nil
        /\ call.collected = {} /\ call.settled = {} /\ call.outcomes = {}
    BY <1>2, <2>1, <2>2 DEF Call
  <2>5. call.request.role = "verifier" => call.request.execution \in Registered
    BY <1>1, <2>4 DEF CallSound, CallAsks
  <2>6. /\ commands[RoleRunOf(c)].prepare # Nil
        /\ commands[RoleRunOf(c)].prepare.run = RunOf(c)
    <3>1. CASE PrepareAgain(c)
      <4>1. Preparation(c) \in PrepareCommand
        BY <1>1, RequestFields, CallFields DEF Preparation, PrepareCommand, Request, RunOf
      <4>2. Preparation(c) # Nil /\ Preparation(c).run = RunOf(c)
        BY <4>1, ExecutionAssumption DEF Preparation
      <4> QED BY <3>1, <4>2 DEF PrepareAgain
    <3>2. CASE ~PrepareAgain(c)
      BY <1>1, <3>2 DEF CallSound, CallAsks, RoleRunOf, RunOf, LeaseAgain, StartSession
    <3> QED BY <3>1, <3>2
  <2>7. CallAsks(call)
    BY <2>4, <2>5, <2>6 DEF CallAsks, RoleRunOf, RunOf
  <2> QED BY <1>1, <1>3, <1>4, <2>1, <2>3, <2>4, <2>7, EarlyIsMemory, RequestFields
<1>5. CASE PrepareAgain(c)
  <2>1. Continue(c, [calls[c] EXCEPT !.step = "lease"])
    BY <1>5, GotoContinues DEF PrepareAgain
  <2>2. [calls[c] EXCEPT !.step = "lease"]
          = [calls[c] EXCEPT !.step = "lease", !.token = calls[c].token]
    BY CallFields DEF Call
  <2> QED BY <1>4, <1>5, <2>1, <2>2, CallFields
<1>6. CASE LeaseAgain(c)
  <2>1. Continue(c, [calls[c] EXCEPT !.step = "start", !.token = 1])
    BY <1>6 DEF LeaseAgain
  <2> QED BY <1>4, <2>1
<1>7. CASE StartSession(c)
  <2>1. Continue(c, [calls[c] EXCEPT !.step = "open"])
    BY <1>7, GotoContinues DEF StartSession
  <2>2. [calls[c] EXCEPT !.step = "open"]
          = [calls[c] EXCEPT !.step = "open", !.token = calls[c].token]
    BY CallFields DEF Call
  <2> QED BY <1>4, <2>1, <2>2, CallFields
<1> QED BY <1>5, <1>6, <1>7

(* A call whose session goes on, or ends.                                     *)
LEMMA SessionIsMemory ==
  ASSUME CallsTyped, NEW c \in Callers, CallSound(calls[c]), calls[c].step \in {"check", "run"},
         NEW call \in Call, Continue(c, call),
         UNCHANGED <<vars, versions, commands, refs, checks>>, UnchangedLedger,
         call.request = calls[c].request, call.step \in {"check", "run", "ended"},
         CallRemembers(call), CallCollects(call), CallChecks(call),
         \A k \in Operations \ lost : CallSees(call, k)
  PROVE  MemoryStep(c, call)
<1>1. Acts(calls[c]) /\ Acts(call) /\ StatusFor(call.step) = StatusFor(calls[c].step)
  BY DEF Acts, StatusFor
<1>2. CallHolds(call) /\ CallAsks(call)
  BY <1>1 DEF CallSound, CallHolds, CallAsks
<1>3. call.request # Nil
  BY CallFields, RequestFields
<1> QED BY <1>1, <1>2, <1>3, MemoryStepIs

(* What a call knows of Operations and checks rests on these.                 *)
SameWork(old, call) ==
  /\ call.step = old.step \/ (old.step = "run" /\ call.step = "ended")
  /\ call.request = old.request /\ call.tool = old.tool
  /\ call.collected = old.collected /\ call.settled = old.settled
  /\ call.unknown = old.unknown /\ call.outcomes = old.outcomes

(* A step that collects nothing, settles nothing and closes no check.        *)
LEMMA SameWorkIsMemory ==
  ASSUME CallsTyped, NEW c \in Callers, CallSound(calls[c]), calls[c].step \in {"check", "run"},
         NEW call \in Call, Continue(c, call),
         UNCHANGED <<vars, versions, commands, refs, checks>>, UnchangedLedger,
         SameWork(calls[c], call), CallRemembers(call)
  PROVE  MemoryStep(c, call)
<1>1. CallCollects(call)
  BY DEF SameWork, CallSound, CallCollects
<1>2. CallChecks(call)
  BY DEF SameWork, CallSound, CallChecks, Acts, StatusFor
<1>3. \A k \in Operations \ lost : CallSees(call, k)
  BY DEF SameWork, CallSound, CallSees, Acts, StatusFor
<1> QED BY <1>1, <1>2, <1>3, SessionIsMemory DEF SameWork

(* The script of a check starts, exits or is killed.                         *)
LEMMA ScriptIsMemory ==
  ASSUME CallsTyped, NEW c \in Callers, CallSound(calls[c]),
         SpawnCheck(c) \/ CheckExits(c) \/ CheckIsLate(c)
  PROVE  \E call : MemoryStep(c, call)
<1>1. calls[c].step = "check"
  BY DEF SpawnCheck, CheckExits, CheckIsLate, Checking
<1>2. calls[c].script # Nil => calls[c].script \in Script
  BY CallFields DEF Call
<1>3. PICK script \in Script : RunScript(c, script)
  <2>1. CASE SpawnCheck(c)
    BY <2>1 DEF SpawnCheck, Script, Exits
  <2>2. CASE CheckExits(c)
    <3>1. PICK exit \in {"expected", "other"} :
            RunScript(c, [calls[c].script EXCEPT !.exit = exit])
      BY <2>2 DEF CheckExits
    <3>2. [calls[c].script EXCEPT !.exit = exit] \in Script
      BY <1>2, <2>2 DEF CheckExits, ScriptRuns, Script, Exits
    <3> QED BY <3>1, <3>2
  <2>3. CASE CheckIsLate(c)
    <3>1. [exit |-> IF ScriptRuns(c) THEN "other" ELSE calls[c].script.exit, late |-> TRUE]
            \in Script
      BY <1>2, <2>3 DEF CheckIsLate, Script, Exits
    <3> QED BY <2>3, <3>1 DEF CheckIsLate
  <2> QED BY <2>1, <2>2, <2>3
<1>4. PICK call : call = [calls[c] EXCEPT !.script = script]
  OBVIOUS
<1>5. calls[c] \in Call
  BY CallFields
<1>6. call \in Call
  BY <1>4, <1>5 DEF Call
<1>7. /\ SameWork(calls[c], call) /\ call.step = "check" /\ call.left = calls[c].left
  BY <1>1, <1>4, <1>5 DEF Call, SameWork
<1>8. CallRemembers(call)
  BY <1>1, <1>7 DEF SameWork, CallSound, CallRemembers
<1>9. Continue(c, call) /\ UNCHANGED <<vars, versions, commands, refs, checks>> /\ UnchangedLedger
  BY <1>3, <1>4 DEF RunScript
<1> QED BY <1>1, <1>6, <1>7, <1>8, <1>9, SameWorkIsMemory

(* assurance_check_failed: nothing was prompted, so nothing was called.      *)
LEMMA ThrownChecksAreMemory ==
  ASSUME CallsTyped, NEW c \in Callers, CallSound(calls[c]), ChecksThrow(c)
  PROVE  \E call : MemoryStep(c, call)
<1>1. PICK call : call = [calls[c] EXCEPT !.step = "ended", !.runtime = "unsuccessful",
                                          !.script = Nil, !.outcomes = {}]
  OBVIOUS
<1>2. calls[c] \in Call /\ calls[c].step = "check"
  BY CallFields DEF ChecksThrow, Checking
<1>3. call \in Call
  BY <1>1, <1>2 DEF Call, Steps
<1>4. /\ call.step = "ended" /\ call.runtime = "unsuccessful" /\ call.outcomes = {}
      /\ call.request = calls[c].request /\ call.tool = calls[c].tool
      /\ call.collected = calls[c].collected /\ call.settled = calls[c].settled
      /\ call.unknown = calls[c].unknown
  BY <1>1, <1>2 DEF Call
<1>5. CallRemembers(call)
  BY <1>2, <1>4 DEF CallSound, CallRemembers
<1>6. CallCollects(call)
  BY <1>4 DEF CallSound, CallCollects
<1>7. CallChecks(call)
  BY <1>4 DEF CallChecks
<1>8. \A k \in Operations \ lost : CallSees(call, k)
  BY <1>2, <1>4 DEF CallSound, CallSees, Acts, StatusFor
<1> QED BY <1>1, <1>2, <1>3, <1>4, <1>5, <1>6, <1>7, <1>8, SessionIsMemory DEF ChecksThrow

(* Submissions, the timer and the end of the session.                        *)
LEMMA AgentIsMemory ==
  ASSUME CallsTyped, NEW c \in Callers, CallSound(calls[c]),
         \/ \E declared \in SUBSET OperationsOf(RoleRunOf(c)) : ReportExecution(c, declared)
         \/ \E judgement \in Judgements : ReportVerification(c, judgement)
         \/ TimerFires(c)
         \/ \E runtime \in {"completed", "unsuccessful"} : RunEnds(c, runtime)
  PROVE  \E call : MemoryStep(c, call)
<1>1. calls[c] \in Call /\ calls[c].step = "run"
  BY CallFields DEF ReportExecution, ReportVerification, TimerFires, RunEnds, Prompted
<1>2. UNCHANGED <<vars, versions, commands, refs, checks>> /\ UnchangedLedger
  BY DEF ReportExecution, ReportVerification, TimerFires, RunEnds
<1>3. ASSUME NEW call \in Call, Continue(c, call), SameWork(calls[c], call),
             call.step = "ended" =>
               /\ calls[c].tool = Nil /\ call.runtime # "none"
               /\ call.runtime = "completed" => ~call.timedOut
      PROVE  \E new : MemoryStep(c, new)
  <2>1. CallRemembers(call)
    BY <1>1, <1>3 DEF SameWork, CallSound, CallRemembers
  <2> QED BY <1>1, <1>2, <1>3, <2>1, SameWorkIsMemory
<1>4. ASSUME NEW declared \in SUBSET OperationsOf(RoleRunOf(c)), ReportExecution(c, declared)
      PROVE  \E call : MemoryStep(c, call)
  <2>1. PICK written \in SUBSET Operations, n \in {1, 2} :
          Continue(c, [calls[c] EXCEPT !.submissions = n, !.declared = written])
    BY <1>4 DEF ReportExecution, OperationsOf
  <2>2. PICK call : call = [calls[c] EXCEPT !.submissions = n, !.declared = written]
    OBVIOUS
  <2>3. n \in 0..2
    OBVIOUS
  <2>4. call \in Call
    BY <1>1, <2>2, <2>3 DEF Call
  <2>5. SameWork(calls[c], call) /\ call.step = "run"
    BY <1>1, <2>2 DEF Call, SameWork
  <2> QED BY <1>3, <2>1, <2>2, <2>4, <2>5
<1>5. ASSUME NEW judgement \in Judgements, ReportVerification(c, judgement)
      PROVE  \E call : MemoryStep(c, call)
  <2>1. judgement \in Judgement
    BY ExecutionAssumption
  <2>2. PICK made \in Judgement \cup {Nil}, n \in {1, 2} :
          Continue(c, [calls[c] EXCEPT !.submissions = n, !.judgement = made])
    BY <1>5, <2>1 DEF ReportVerification
  <2>3. PICK call : call = [calls[c] EXCEPT !.submissions = n, !.judgement = made]
    OBVIOUS
  <2>4. n \in 0..2
    OBVIOUS
  <2>5. call \in Call
    BY <1>1, <2>3, <2>4 DEF Call
  <2>6. SameWork(calls[c], call) /\ call.step = "run"
    BY <1>1, <2>3 DEF Call, SameWork
  <2> QED BY <1>3, <2>2, <2>3, <2>5, <2>6
<1>6. CASE TimerFires(c)
  <2>1. PICK call : call = [calls[c] EXCEPT !.timedOut = TRUE]
    OBVIOUS
  <2>2. call \in Call /\ SameWork(calls[c], call) /\ call.step = "run"
    BY <1>1, <2>1 DEF Call, SameWork
  <2> QED BY <1>3, <1>6, <2>1, <2>2 DEF TimerFires
<1>7. ASSUME NEW runtime \in {"completed", "unsuccessful"}, RunEnds(c, runtime)
      PROVE  \E call : MemoryStep(c, call)
  <2>1. PICK call : call = [calls[c] EXCEPT !.step = "ended", !.runtime = runtime]
    OBVIOUS
  <2>2. call \in Call
    BY <1>1, <2>1 DEF Call, Steps
  <2>3. /\ SameWork(calls[c], call) /\ call.step = "ended" /\ call.runtime = runtime
        /\ call.timedOut = calls[c].timedOut
    BY <1>1, <2>1 DEF Call, SameWork
  <2> QED BY <1>3, <1>7, <2>1, <2>2, <2>3 DEF RunEnds, Prompted
<1> QED BY <1>4, <1>5, <1>6, <1>7

(* A tool is called, and returns with an id that is collected.               *)
LEMMA ToolIsMemory ==
  ASSUME CallsTyped, NEW c \in Callers, CallSound(calls[c]),
         (\E k \in Operations : CallTool(c, k)) \/ ToolReturns(c)
  PROVE  \E call : MemoryStep(c, call)
<1>1. calls[c] \in Call /\ calls[c].step = "run"
  BY CallFields DEF CallTool, ToolReturns, Prompted, CallSound, CallRemembers
<1>2. UNCHANGED <<vars, versions, commands, refs, checks>> /\ UnchangedLedger
  BY DEF CallTool, ToolReturns
<1>3. Nil \notin Operations
  BY ExecutionAssumption
<1>4. ASSUME NEW k \in Operations, CallTool(c, k)
      PROVE  \E call : MemoryStep(c, call)
  <2>1. PICK call : call = [calls[c] EXCEPT !.tool = k]
    OBVIOUS
  <2>2. call \in Call
    BY <1>1, <2>1 DEF Call
  <2>3. /\ call.step = "run" /\ call.request = calls[c].request /\ call.tool = k
        /\ call.collected = calls[c].collected /\ call.settled = calls[c].settled
        /\ call.unknown = calls[c].unknown /\ call.outcomes = calls[c].outcomes
    BY <1>1, <2>1 DEF Call
  <2>4. /\ OwnerOf[k] = calls[c].request.roleRun /\ k \notin lost /\ operations[k] = "none"
        /\ calls[c].tool = Nil
    BY <1>4 DEF CallTool, RoleRunOf, Prompted
  <2>5. CallRemembers(call)
    BY <1>1, <2>3, <2>4 DEF CallSound, CallRemembers, CallCollects
  <2>6. CallCollects(call)
    BY <2>3, <2>4 DEF CallSound, CallCollects
  <2>7. CallChecks(call)
    BY <1>1, <2>3 DEF CallSound, CallChecks, Acts, StatusFor
  <2>8. \A o \in Operations \ lost : CallSees(call, o)
    BY <1>1, <1>3, <2>3, <2>4 DEF CallSound, CallSees, Acts, StatusFor
  <2>9. Continue(c, call)
    BY <1>4, <2>1 DEF CallTool
  <2> QED BY <1>1, <1>2, <2>2, <2>3, <2>5, <2>6, <2>7, <2>8, <2>9, SessionIsMemory
<1>5. CASE ToolReturns(c)
  <2>1. PICK k : k = calls[c].tool
    OBVIOUS
  <2>2. PICK call : call = [calls[c] EXCEPT !.tool = Nil, !.collected = @ \cup {k}]
    OBVIOUS
  <2>3. /\ k \in Operations /\ operations[k] \in Final \cup {"unknown"}
        /\ OwnerOf[k] = calls[c].request.roleRun /\ k \notin lost
    BY <1>5, <2>1, CallFields DEF ToolReturns, CallSound, CallRemembers, CallCollects
  <2>4. call \in Call
    BY <1>1, <2>2, <2>3 DEF Call
  <2>5. /\ call.step = "run" /\ call.request = calls[c].request /\ call.tool = Nil
        /\ call.collected = calls[c].collected \cup {k} /\ call.settled = calls[c].settled
        /\ call.unknown = calls[c].unknown /\ call.outcomes = calls[c].outcomes
    BY <1>1, <2>2 DEF Call
  <2>6. CallRemembers(call)
    BY <1>1, <2>5 DEF CallSound, CallRemembers
  <2>7. CallCollects(call)
    BY <2>3, <2>5 DEF CallSound, CallCollects, Final
  <2>8. CallChecks(call)
    BY <1>1, <2>5 DEF CallSound, CallChecks, Acts, StatusFor
  <2>9. \A o \in Operations \ lost : CallSees(call, o)
    BY <1>1, <2>1, <2>5 DEF CallSound, CallSees, Acts, StatusFor
  <2>10. Continue(c, call)
    BY <1>5, <2>1, <2>2 DEF ToolReturns
  <2> QED BY <1>1, <1>2, <2>4, <2>5, <2>6, <2>7, <2>8, <2>9, <2>10, SessionIsMemory
<1> QED BY <1>4, <1>5

(* A call that has recorded the end of its session.                           *)
LEMMA SettlingIsMemory ==
  ASSUME CallsTyped, NEW c \in Callers, CallSound(calls[c]), calls[c].step = "collect",
         NEW call \in Call, Continue(c, call),
         UNCHANGED <<vars, versions, commands, refs, checks>>, UnchangedLedger,
         call.request = calls[c].request, call.step \in {"collect", "submit", "fail", "block"},
         CallRemembers(call), CallCollects(call), CallChecks(call),
         \A k \in Operations \ lost : CallSees(call, k)
  PROVE  MemoryStep(c, call)
<1>1. Acts(calls[c]) /\ Acts(call) /\ StatusFor(call.step) = StatusFor(calls[c].step)
  BY DEF Acts, StatusFor
<1>2. CallHolds(call) /\ CallAsks(call)
  BY <1>1 DEF CallSound, CallHolds, CallAsks
<1>3. call.request # Nil
  BY CallFields, RequestFields
<1> QED BY <1>1, <1>2, <1>3, MemoryStepIs

(* settleToolEvidence sees one Operation final, or remembers it is not.      *)
LEMMA SettleIsMemory ==
  ASSUME CallsTyped, NEW c \in Callers, CallSound(calls[c]),
         NEW k \in Operations, SettleOperation(c, k)
  PROVE  \E call : MemoryStep(c, call)
<1>1. calls[c] \in Call /\ calls[c].step = "collect"
  BY CallFields DEF SettleOperation
<1>2. PICK call : call = [calls[c] EXCEPT !.settled = @ \cup {k},
                                          !.unknown = @ \/ operations[k] = "unknown"]
  OBVIOUS
<1>3. calls[c].unknown \in BOOLEAN /\ (calls[c].unknown \/ operations[k] = "unknown") \in BOOLEAN
  BY <1>1 DEF Call
<1>4. call \in Call
  BY <1>1, <1>2, <1>3 DEF Call
<1>5. /\ call.step = "collect" /\ call.request = calls[c].request
      /\ call.tool = calls[c].tool /\ call.collected = calls[c].collected
      /\ call.settled = calls[c].settled \cup {k} /\ call.outcomes = calls[c].outcomes
      /\ call.runtime = calls[c].runtime /\ call.timedOut = calls[c].timedOut
  BY <1>1, <1>2 DEF Call
<1>6. call.unknown = (calls[c].unknown \/ operations[k] = "unknown")
  BY <1>1, <1>2 DEF Call
<1>7. CallRemembers(call)
  BY <1>1, <1>5 DEF CallSound, CallRemembers
<1>8. CallCollects(call)
  BY <1>5, <1>6 DEF CallSound, CallCollects, SettleOperation
<1>9. CallChecks(call)
  BY <1>1, <1>5 DEF CallSound, CallChecks, Acts, StatusFor
<1>10. \A o \in Operations \ lost : CallSees(call, o)
  BY <1>1, <1>5 DEF CallSound, CallSees, Acts, StatusFor
<1>11. Continue(c, call) /\ UNCHANGED <<vars, versions, commands, refs, checks>> /\ UnchangedLedger
  BY <1>2 DEF SettleOperation
<1> QED BY <1>1, <1>4, <1>5, <1>7, <1>8, <1>9, <1>10, <1>11, SettlingIsMemory

(* What is left to do is decided when every Operation is settled.             *)
LEMMA DecisionIsMemory ==
  ASSUME CallsTyped, VersionsTyped, NEW c \in Callers, CallSound(calls[c]),
         DecideToBlock(c) \/ DecideToHandOver(c)
  PROVE  \E call : MemoryStep(c, call)
<1>1. /\ calls[c] \in Call /\ calls[c].step = "collect"
      /\ calls[c].settled = calls[c].collected
  BY CallFields DEF DecideToBlock, DecideToHandOver, Collected
<1>2. Current(RunOf(c)) \in Seen
  BY <1>1, CallFields, CurrentTyped
<1>3. PICK step \in {"block", "submit"} :
        /\ Reread(c, step)
        /\ step = "submit" => ~calls[c].unknown /\ MayHandOver(c)
  BY DEF DecideToBlock, DecideToHandOver
<1>4. PICK call : call = [calls[c] EXCEPT !.step = step, !.seen = Current(RunOf(c))]
  OBVIOUS
<1>5. step \in Steps
  BY DEF Steps
<1>6. call \in Call
  BY <1>1, <1>2, <1>4, <1>5 DEF Call
<1>7. /\ call.step = step /\ call.request = calls[c].request
      /\ call.tool = calls[c].tool /\ call.collected = calls[c].collected
      /\ call.settled = calls[c].settled /\ call.outcomes = calls[c].outcomes
      /\ call.runtime = calls[c].runtime /\ call.timedOut = calls[c].timedOut
      /\ call.unknown = calls[c].unknown /\ call.submissions = calls[c].submissions
      /\ call.judgement = calls[c].judgement
  BY <1>1, <1>4 DEF Call
<1>8. CallRemembers(call)
  <2>1. calls[c].tool = Nil /\ (calls[c].runtime = "completed" => ~calls[c].timedOut)
    BY <1>1 DEF CallSound, CallRemembers
  <2>2. step = "submit" =>
          /\ calls[c].runtime = "completed" /\ calls[c].submissions = 1
          /\ calls[c].request.role = "verifier" =>
               Sealable(calls[c].outcomes, calls[c].judgement)
    BY <1>3 DEF MayHandOver
  <2> QED BY <1>1, <1>3, <1>7, <2>1, <2>2 DEF CallRemembers
<1>9. CallCollects(call)
  BY <1>7 DEF CallSound, CallCollects
<1>10. CallChecks(call)
  BY <1>1, <1>7 DEF CallSound, CallChecks, Acts, StatusFor
<1>11. \A o \in Operations \ lost : CallSees(call, o)
  BY <1>1, <1>7 DEF CallSound, CallSees, Acts, StatusFor
<1>12. Continue(c, call) /\ UNCHANGED <<vars, versions, commands, refs, checks>> /\ UnchangedLedger
  BY <1>3, <1>4 DEF Reread
<1> QED BY <1>1, <1>6, <1>7, <1>8, <1>9, <1>10, <1>11, <1>12, SettlingIsMemory

(* The memory of a call that only fails its RoleRun.                          *)
LEMMA LeaseOnlyFields ==
  ASSUME CallsTyped, NEW c \in Callers, calls[c].step # "idle"
  PROVE  /\ LeaseOnly(c) \in Call
         /\ LeaseOnly(c).step = "fail" /\ LeaseOnly(c).request = calls[c].request
         /\ LeaseOnly(c).tool = Nil /\ LeaseOnly(c).collected = {} /\ LeaseOnly(c).settled = {}
         /\ LeaseOnly(c).outcomes = {}
<1>1. calls[c].request \in Requests /\ calls[c].token \in Nat /\ "fail" \in Steps
  BY CallFields DEF Steps
<1>2. LeaseOnly(c) \in Call
  BY <1>1, NoCallFields DEF LeaseOnly, Call
<1> QED BY <1>2 DEF LeaseOnly, NoCall

(* failRole is reached with every Operation of the RoleRun settled.          *)
LEMMA FailureIsMemory ==
  ASSUME CallsTyped, NEW c \in Callers, CallSound(calls[c]), DecideToFail(c)
  PROVE  \E call : MemoryStep(c, call)
<1>1. /\ calls[c].step = "collect" /\ calls[c].settled = calls[c].collected
      /\ ~calls[c].unknown
  BY DEF DecideToFail, Collected
<1>2. PICK call : call = LeaseOnly(c)
  OBVIOUS
<1>3. /\ call \in Call /\ call.step = "fail" /\ call.request = calls[c].request
      /\ call.tool = Nil /\ call.collected = {} /\ call.settled = {} /\ call.outcomes = {}
  BY <1>1, <1>2, LeaseOnlyFields
<1>4. CallRemembers(call) /\ CallCollects(call) /\ CallChecks(call)
  BY <1>3 DEF CallRemembers, CallCollects, CallChecks
<1>5. ASSUME NEW k \in Operations \ lost
      PROVE  CallSees(call, k)
  <2>1. operations[k] # "none" /\ OwnerOf[k] = calls[c].request.roleRun => k \in calls[c].collected
    BY <1>1 DEF CallSound, CallSees, Acts, StatusFor
  <2>2. k \in calls[c].collected => operations[k] \in Final
    BY <1>1 DEF CallSound, CallCollects
  <2> QED BY <1>3, <2>1, <2>2 DEF CallSees
<1> QED BY <1>1, <1>2, <1>3, <1>4, <1>5, SettlingIsMemory DEF DecideToFail

(* The steps a call takes in memory only.                                     *)
InMemory(c) ==
  \/ \E req \in Requests : Begin(c, req)
  \/ PrepareAgain(c) \/ LeaseAgain(c) \/ StartSession(c)
  \/ SpawnCheck(c) \/ CheckExits(c) \/ CheckIsLate(c) \/ ChecksThrow(c)
  \/ ToolReturns(c) \/ \E runtime \in {"completed", "unsuccessful"} : RunEnds(c, runtime)
  \/ Agent(c) \/ TimerFires(c)
  \/ \E k \in Operations : SettleOperation(c, k)
  \/ DecideToBlock(c) \/ DecideToHandOver(c) \/ DecideToFail(c)
  \/ Throw(c) \/ Crash(c)

(* Every step that sends no command is such a step.                          *)
LEMMA InMemoryIsMemoryStep ==
  ASSUME TypeOK, CallsTyped, VersionsTyped, ExecutionInv, NEW c \in Callers, InMemory(c)
  PROVE  \E call : MemoryStep(c, call)
<1>1. CallSound(calls[c]) /\ \A x \in RoleRuns : RoleRunSound(x)
  BY DEF ExecutionInv
<1>2. CASE \E req \in Requests : Begin(c, req)
  BY <1>1, <1>2, BeginIsMemory
<1>3. CASE PrepareAgain(c) \/ LeaseAgain(c) \/ StartSession(c)
  BY <1>1, <1>3, StartIsMemory
<1>4. CASE SpawnCheck(c) \/ CheckExits(c) \/ CheckIsLate(c)
  BY <1>1, <1>4, ScriptIsMemory
<1>5. CASE ChecksThrow(c)
  BY <1>1, <1>5, ThrownChecksAreMemory
<1>6. CASE ToolReturns(c) \/ \E k \in Operations : CallTool(c, k)
  BY <1>1, <1>6, ToolIsMemory
<1>7. CASE \/ \E declared \in SUBSET OperationsOf(RoleRunOf(c)) : ReportExecution(c, declared)
           \/ \E judgement \in Judgements : ReportVerification(c, judgement)
           \/ TimerFires(c)
           \/ \E runtime \in {"completed", "unsuccessful"} : RunEnds(c, runtime)
  BY <1>1, <1>7, AgentIsMemory
<1>8. CASE \E k \in Operations : SettleOperation(c, k)
  BY <1>1, <1>8, SettleIsMemory
<1>9. CASE DecideToBlock(c) \/ DecideToHandOver(c)
  BY <1>1, <1>9, DecisionIsMemory
<1>10. CASE DecideToFail(c)
  BY <1>1, <1>10, FailureIsMemory
<1>11. CASE Throw(c) \/ Crash(c)
  BY <1>11, ReturnIsMemory
<1> QED BY <1>2, <1>3, <1>4, <1>5, <1>6, <1>7, <1>8, <1>9, <1>10, <1>11 DEF InMemory, Agent

(* The steps that write more than memory.                                     *)
Sends(c) ==
  \/ Prepare(c) \/ Lease(c) \/ OpenSession(c) \/ MarkSettling(c)
  \/ HandOverExecution(c) \/ HandOverVerification(c) \/ Fail(c) \/ Block(c)

(* The steps as the proof groups them.                                       *)
LEMMA StepsOfExecution ==
  ASSUME ExecutionNext
  PROVE  \/ \E c \in Callers : InMemory(c) \/ Sends(c) \/ CheckCloses(c) \/ ToolRejects(c)
         \/ \E k \in Operations : GatewayStep(k)
         \/ Elsewhere
BY DEF ExecutionNext, Start, Session, Conclude, InMemory, Sends

(* Every step is a command or leaves the rows of the control plane alone.    *)
LEMMA StepIsCommand ==
  ASSUME TypeOK, CallsTyped, VersionsTyped, ExecutionInv, ExecutionNext
  PROVE  UNCHANGED vars \/ Next
<1>1. ASSUME NEW c \in Callers
      PROVE  CallAsks(calls[c]) /\ CallRemembers(calls[c])
  BY DEF ExecutionInv, CallSound
<1>2. ASSUME NEW c \in Callers, InMemory(c)
      PROVE  UNCHANGED vars
  BY <1>2, InMemoryIsMemoryStep DEF MemoryStep
<1>3. ASSUME NEW c \in Callers, Sends(c)
      PROVE  Next
  BY <1>1, <1>3, PrepareIsCommand, LeaseIsCommand, LeasedIsCommand DEF Sends
<1>4. ASSUME NEW c \in Callers, CheckCloses(c) \/ ToolRejects(c)
      PROVE  UNCHANGED vars
  BY <1>4 DEF CheckCloses, ToolRejects
<1>5. ASSUME NEW k \in Operations, GatewayStep(k)
      PROVE  UNCHANGED vars
  BY <1>5 DEF GatewayStep
<1> QED BY <1>2, <1>3, <1>4, <1>5, StepsOfExecution, ElsewhereIsCommand

-----------------------------------------------------------------------------
(* Steps that write RoleRuns, their checks or the ledger. *)

(* What a command writes of RoleRuns.                                         *)
RoleRunMoves(x, from, to) ==
  /\ roleRuns[x].status = from /\ roleRuns'[x].status = to
  /\ \A y \in RoleRuns : y # x => roleRuns'[y] = roleRuns[y]

(* Another call is as sound as it was if its RoleRun keeps what it rests on.  *)
LEMMA CallStaysSound ==
  ASSUME NEW d \in Callers, NEW old, old = calls[d], calls'[d] = old, CallSound(old),
         UnchangedLedger, Registered \subseteq Registered',
         Acts(old) => /\ roleRuns'[old.request.roleRun].status = roleRuns[old.request.roleRun].status
                      /\ checks'[old.request.roleRun] = checks[old.request.roleRun],
         old.step # "idle" /\ commands[old.request.roleRun].prepare # Nil =>
           commands'[old.request.roleRun].prepare = commands[old.request.roleRun].prepare
  PROVE  CallSound(calls[d])'
<1>1. CallHolds(calls[d])'
  BY DEF CallSound, CallHolds, Acts, StatusFor
<1>2. CallRemembers(calls[d])'
  BY DEF CallSound, CallRemembers, Sealable
<1>3. CallCollects(calls[d])'
  BY DEF CallSound, CallCollects, UnchangedLedger
<1>4. \A k \in Operations \ lost' : CallSees(calls[d], k)'
  BY DEF CallSound, CallSees, UnchangedLedger, Acts
<1>5. CallChecks(calls[d])'
  BY DEF CallSound, CallChecks, Acts
<1>6. CallAsks(calls[d])'
  BY DEF CallSound, CallAsks
<1> QED BY <1>1, <1>2, <1>3, <1>4, <1>5, <1>6 DEF CallSound

(* While a call writes its RoleRun no other call acts for it.                 *)
LEMMA OnlyActor ==
  ASSUME ExecutionInv, NEW c \in Callers, NEW d \in Callers, d # c, Acts(calls[d]),
         Acts(calls[c]) \/ roleRuns[RoleRunOf(c)].status \notin {"running", "settling"}
  PROVE  RoleRunOf(d) # RoleRunOf(c)
<1>1. roleRuns[RoleRunOf(d)].status \in {"running", "settling"}
  BY DEF ExecutionInv, CallSound, CallHolds, Acts, StatusFor, RoleRunOf
<1> QED BY <1>1 DEF ExecutionInv, OneActor

(* A call that writes its own RoleRun leaves the calls for other RoleRuns    *)
(* sound.                                                                    *)
LEMMA OthersStaySound ==
  ASSUME CallsTyped, ExecutionInv, NEW c \in Callers, NEW call \in Call, Continue(c, call),
         call.step = "idle" <=> call.request = Nil,
         Acts(calls[c]) \/ roleRuns[RoleRunOf(c)].status \notin {"running", "settling"},
         Acts(call) => call.request = calls[c].request,
         UnchangedLedger, Registered \subseteq Registered',
         \A y \in RoleRuns : y # RoleRunOf(c) =>
           roleRuns'[y].status = roleRuns[y].status /\ checks'[y] = checks[y],
         \A y \in RoleRuns : commands[y].prepare # Nil =>
           commands'[y].prepare = commands[y].prepare
  PROVE  /\ \A d \in Callers : d # c => CallSound(calls[d])'
         /\ OneActor'
<1>1. calls'[c] = call /\ \A d \in Callers : d # c => calls'[d] = calls[d]
  BY CallWritten
<1>2. ASSUME NEW d \in Callers, d # c
      PROVE  CallSound(calls[d])'
  <2>1. PICK old : old = calls[d]
    OBVIOUS
  <2>2. CallSound(old) /\ calls'[d] = old
    BY <1>1, <1>2, <2>1 DEF ExecutionInv
  <2>3. old.step # "idle" => old.request.roleRun \in RoleRuns
    BY <2>1, CallFields DEF RoleRunOf
  <2>4. Acts(old) => old.request.roleRun # RoleRunOf(c) /\ old.step # "idle"
    BY <1>2, <2>1, OnlyActor DEF RoleRunOf, Acts, StatusFor
  <2> QED BY <2>1, <2>2, <2>3, <2>4, CallStaysSound
<1>3. OneActor'
  <2>1. ASSUME NEW d \in Callers, d # c, Acts(calls[d]), Acts(call)
        PROVE  calls[d].request.roleRun # call.request.roleRun
    BY <2>1, OnlyActor DEF RoleRunOf
  <2>2. ASSUME NEW d \in Callers, NEW b \in Callers,
               Acts(calls'[d]), Acts(calls'[b]),
               calls'[d].request.roleRun = calls'[b].request.roleRun
        PROVE  d = b
    <3>1. CASE d # c /\ b # c
      BY <1>1, <2>2, <3>1 DEF ExecutionInv, OneActor, RoleRunOf
    <3>2. CASE d = c \/ b = c
      BY <1>1, <2>1, <2>2, <3>2
    <3> QED BY <3>1, <3>2
  <2> QED BY <2>2 DEF OneActor, RoleRunOf, Acts
<1> QED BY <1>2, <1>3

(* Rows that no step writes keep their versions.                              *)
LEMMA RowsStayUnwritten ==
  ASSUME VersionsTyped, Versioned \/ UNCHANGED versions, UNCHANGED <<task, runs>>,
         NEW x \in RoleRuns, RowsStay(x),
         roleRuns'[x].status \in {"starting", "running", "settling"} =>
           /\ roleRuns[x].status \in {"starting", "running", "settling"}
           /\ roleRuns'[x].run = roleRuns[x].run /\ roleRuns[x].run \in Runs
           /\ commands'[x].lease = commands[x].lease
  PROVE  RowsStay(x)'
<1>1. versions'.task = versions.task /\ \A r \in Runs : versions'.run[r] = versions.run[r]
  BY DEF VersionsTyped, Versioned
<1> QED BY <1>1 DEF RowsStay

(* Passes that are stored stay checked.                                       *)
LEMMA PassesStay ==
  ASSUME PassesAreChecked, UNCHANGED <<task, artifacts>>,
         \A x \in RoleRuns : roleRuns[x].outcome = "succeeded" =>
           roleRuns'[x] = roleRuns[x] /\ checks'[x] = checks[x]
  PROVE  PassesAreChecked'
BY DEF PassesAreChecked, CheckedBy

(* What is left to show of a command: what it makes of its call, of the       *)
(* RoleRun it writes and of that RoleRun's Operations, of the rows leases were *)
(* taken on and of passes.                                                    *)
LEMMA CommandKeepsInv ==
  ASSUME CallsTyped, ExecutionInv, NEW c \in Callers, NEW x \in RoleRuns, x = RoleRunOf(c),
         NEW call \in Call, Continue(c, call), call.step = "idle" <=> call.request = Nil,
         NEW from, NEW to, RoleRunMoves(x, from, to), UnchangedLedger, UNCHANGED checks,
         Acts(calls[c]) \/ from \notin {"running", "settling"},
         Acts(call) => call.request = calls[c].request,
         Registered \subseteq Registered',
         \A y \in RoleRuns : y # x => commands'[y] = commands[y] /\ refs'[y] = refs[y],
         commands[x].prepare # Nil => commands'[x].prepare = commands[x].prepare,
         CallSound(calls[c])', RefsSound(x)', RoleRunSound(x)',
         \A k \in Operations \ lost : OwnerOf[k] = x => OperationSound(k)',
         \A y \in RoleRuns : RowsStay(y)',
         PassesAreChecked'
  PROVE  ExecutionInv'
<1>1. /\ \A d \in Callers : d # c => CallSound(calls[d])'
      /\ OneActor'
  BY OthersStaySound DEF RoleRunMoves
<1>2. \A d \in Callers : CallSound(calls[d])'
  BY <1>1
<1>3. ASSUME NEW k \in Operations \ lost
      PROVE  OperationSound(k)'
  <2>1. CASE OwnerOf[k] = x
    BY <2>1
  <2>2. CASE OwnerOf[k] # x
    <3>1. OwnerOf[k] \in RoleRuns /\ OperationSound(k)
      BY ExecutionAssumption DEF ExecutionInv
    <3>2. /\ roleRuns'[OwnerOf[k]] = roleRuns[OwnerOf[k]]
          /\ refs'[OwnerOf[k]] = refs[OwnerOf[k]]
      BY <2>2, <3>1 DEF RoleRunMoves
    <3> QED BY <3>1, <3>2 DEF OperationSound, UnchangedLedger
  <2> QED BY <2>1, <2>2
<1>4. ASSUME NEW y \in RoleRuns, y # x
      PROVE  RefsSound(y)' /\ RoleRunSound(y)'
  <2>1. /\ roleRuns'[y] = roleRuns[y] /\ commands'[y] = commands[y] /\ refs'[y] = refs[y]
        /\ checks' = checks
    BY <1>4 DEF RoleRunMoves
  <2>2. RefsSound(y) /\ RoleRunSound(y)
    BY DEF ExecutionInv
  <2>3. RefsSound(y)'
    BY <2>1, <2>2 DEF RefsSound, UnchangedLedger
  <2>4. RoleRunSound(y)'
    BY <2>1, <2>2 DEF RoleRunSound
  <2> QED BY <2>3, <2>4
<1>5. \A y \in RoleRuns : RefsSound(y)' /\ RoleRunSound(y)'
  BY <1>4
<1> QED BY <1>1, <1>2, <1>3, <1>5 DEF ExecutionInv, UnchangedLedger

(* The rows and memory of the call that sends a command.                      *)
LEMMA Sender ==
  ASSUME TypeOK, CallsTyped, ExecutionInv, NEW c \in Callers, calls[c].step # "idle"
  PROVE  /\ RoleRunOf(c) \in RoleRuns /\ RunOf(c) \in Runs
         /\ calls[c].request \in Requests /\ calls[c].request # Nil /\ calls[c] \in Call
         /\ CallSound(calls[c])
         /\ RoleRunSound(RoleRunOf(c)) /\ RefsSound(RoleRunOf(c)) /\ RowsStay(RoleRunOf(c))
         /\ roleRuns[RoleRunOf(c)] \in RoleRun
<1>1. RoleRunOf(c) \in RoleRuns /\ RunOf(c) \in Runs
  BY CallFields
<1> QED BY <1>1, CallFields, RequestFields DEF ExecutionInv, TypeOK

(* A RoleRun that has succeeded is not written by a command that finds it at  *)
(* work.                                                                      *)
LEMMA PassesStayUnwritten ==
  ASSUME SchemaChecks, ExecutionInv, NEW x \in RoleRuns, NEW from, NEW to,
         from # "settled", RoleRunMoves(x, from, to), UNCHANGED <<task, artifacts, checks>>
  PROVE  PassesAreChecked'
<1>1. roleRuns[x].outcome # "succeeded"
  BY DEF RoleRunMoves, SchemaChecks
<1> QED BY <1>1, PassesStay DEF RoleRunMoves, ExecutionInv

(* prepareRoleRun                                                            *)
LEMMA PrepareKeepsInv ==
  ASSUME ExecutionTypeOK, SchemaChecks, PhaseInv, ExecutionInv, NEW c \in Callers, Prepare(c)
  PROVE  ExecutionInv' /\ CallsTyped' /\ VersionsTyped' /\ StoresTyped'
<1>1. TypeOK /\ CallsTyped /\ VersionsTyped /\ StoresTyped
  BY ExecutionTypeParts
<1>2. calls[c].step = "prepare"
  BY DEF Prepare
<1>x. PICK x \in RoleRuns : x = RoleRunOf(c)
  BY <1>1, <1>2, Sender
<1>3. /\ x \in RoleRuns /\ RunOf(c) \in Runs /\ calls[c].request \in Requests
      /\ calls[c].request # Nil /\ calls[c] \in Call /\ CallSound(calls[c])
      /\ RoleRunSound(x) /\ RefsSound(x)
  BY <1>1, <1>2, <1>x, Sender
<1>4. PICK call : call = [calls[c] EXCEPT !.step = "lease"]
  OBVIOUS
<1>5. call \in Call
  BY <1>3, <1>4 DEF Call, Steps
<1>6. /\ call.step = "lease" /\ call.request = calls[c].request /\ call.tool = calls[c].tool
      /\ call.collected = calls[c].collected /\ call.settled = calls[c].settled
      /\ call.outcomes = calls[c].outcomes
  BY <1>3, <1>4 DEF Call
<1>7. Continue(c, call)
  BY <1>1, <1>4, GotoContinues DEF Prepare
<1>8. /\ CallsTyped' /\ calls'[c] = call
  BY <1>1, <1>3, <1>5, <1>6, <1>7, CallWritten
<1>9. Preparation(c) \in PrepareCommand
  BY <1>3, RequestFields, CallFields, <1>1 DEF Preparation, PrepareCommand, Request, RunOf
<1>10. Preparation(c) # Nil /\ Preparation(c).run = RunOf(c)
  BY <1>9, ExecutionAssumption DEF Preparation
<1>11. /\ commands' = [commands EXCEPT ![x].prepare = Preparation(c)]
       /\ commands[x].prepare = Nil /\ UnchangedLedger /\ UNCHANGED <<refs, checks>>
       /\ Versioned /\ roleRuns[x].status = "none"
       /\ UNCHANGED <<task, approvals, runs, artifacts, grants, outbox>>
  BY <1>x DEF Prepare, PrepareRoleRun
<1>12. PICK row : /\ roleRuns' = [roleRuns EXCEPT ![x] = row]
                  /\ row.status = "prepared" /\ row.run = RunOf(c) /\ row.output = Nil
  <2>1. PICK row : row = [NoRoleRun EXCEPT !.status = "prepared", !.run = RunOf(c),
          !.role = calls[c].request.role, !.inputs = InputsOf(calls[c].request)]
    OBVIOUS
  <2>2. row.status = "prepared" /\ row.run = RunOf(c) /\ row.output = Nil
    BY <2>1 DEF NoRoleRun
  <2> QED BY <1>x, <2>1, <2>2 DEF Prepare, PrepareRoleRun
<1>13. RoleRunMoves(x, "none", "prepared") /\ roleRuns'[x] = row
  BY <1>1, <1>3, <1>11, <1>12 DEF RoleRunMoves, TypeOK
<1>14. VersionsTyped' /\ StoresTyped'
  <2>1. commands' \in [RoleRuns ->
          [prepare: PrepareCommand \cup {Nil}, lease: LeaseCommand \cup {Nil}]]
    BY <1>1, <1>3, <1>9, <1>11 DEF StoresTyped
  <2> QED BY <1>1, <1>11, <2>1, VersionsKept DEF StoresTyped, UnchangedLedger
<1>15. /\ commands'[x].prepare = Preparation(c) /\ commands'[x].lease = commands[x].lease
       /\ \A y \in RoleRuns : y # x => commands'[y] = commands[y]
  BY <1>1, <1>3, <1>11 DEF StoresTyped
<1>16. CallSound(calls[c])'
  <2>1. ~Acts(call)
    BY <1>6 DEF Acts, StatusFor
  <2>2. /\ call.tool = Nil /\ call.collected = {} /\ call.settled = {} /\ call.outcomes = {}
    BY <1>2, <1>3, <1>6 DEF CallSound, CallRemembers
  <2>3. CallAsks(calls[c])'
    BY <1>x, <1>2, <1>3, <1>6, <1>8, <1>10, <1>11, <1>15 DEF CallAsks, CallSound, Registered, RoleRunOf,
       RunOf
  <2>4. CallHolds(calls[c])' /\ CallCollects(calls[c])' /\ CallChecks(calls[c])'
    BY <1>8, <2>1, <2>2 DEF CallHolds, CallCollects, CallChecks, Acts
  <2>5. CallRemembers(calls[c])'
    BY <1>6, <1>8, <2>2 DEF CallRemembers
  <2>6. \A k \in Operations \ lost' : CallSees(calls[c], k)'
    BY <1>8, <2>1 DEF CallSees, Acts
  <2> QED BY <2>3, <2>4, <2>5, <2>6 DEF CallSound
<1>17. RoleRunSound(x)'
  BY <1>3, <1>10, <1>11, <1>12, <1>13, <1>15 DEF RoleRunSound
<1>18. RefsSound(x)'
  BY <1>3, <1>11, <1>13 DEF RefsSound, Over, UnchangedLedger
<1>19. \A k \in Operations \ lost : OwnerOf[k] = x => OperationSound(k)'
  BY <1>11 DEF ExecutionInv, OperationSound, UnchangedLedger
<1>20. ASSUME NEW y \in RoleRuns
       PROVE  RowsStay(y)'
  <2>1. RowsStay(y)
    BY DEF ExecutionInv
  <2>2. roleRuns'[y].status \in {"starting", "running", "settling"} =>
          y # x /\ roleRuns[y].status # "none" /\ roleRuns[y].run \in Runs
    BY <1>13 DEF RoleRunMoves, PhaseInv, RoleRunsBelong
  <2> QED BY <1>1, <1>11, <1>13, <1>15, <2>1, <2>2, RowsStayUnwritten DEF RoleRunMoves
<1>21. PassesAreChecked'
  BY <1>3, <1>11, <1>13, PassesStayUnwritten
<1>22. ExecutionInv'
  <2>1. Registered' = Registered /\ ~Acts(call) /\ call.step # "idle"
    BY <1>6, <1>11 DEF Registered, Acts, StatusFor
  <2> QED BY <1>x, <1>1, <1>3, <1>5, <1>6, <1>7, <1>11, <1>13, <1>15, <1>16, <1>17, <1>18, <1>19,
             <1>20, <1>21, <2>1, CommandKeepsInv
<1> QED BY <1>8, <1>14, <1>22

(* One RoleRun is open at a time.                                             *)
LEMMA OneOpenRoleRun ==
  ASSUME TypeOK, PhaseInv, NEW x \in RoleRuns, NEW y \in RoleRuns,
         Unsettled(roleRuns[x].status), Unsettled(roleRuns[y].status)
  PROVE  x = y
<1>1. /\ roleRuns[x].run \in UnsettledRuns /\ x \in UnsettledRoleRuns(roleRuns[x].run)
      /\ roleRuns[y].run \in UnsettledRuns /\ y \in UnsettledRoleRuns(roleRuns[y].run)
      /\ roleRuns[x].run \in Runs
  BY OpenRoleRun
<1> QED BY <1>1 DEF PhaseInv, OneActiveRole

(* acquireRoleRunLease: no other RoleRun is open whose rows it could make    *)
(* stale.                                                                    *)
LEMMA LeaseKeepsInv ==
  ASSUME ExecutionTypeOK, SchemaChecks, PhaseInv, ExecutionInv, NEW c \in Callers, Lease(c)
  PROVE  ExecutionInv' /\ CallsTyped' /\ VersionsTyped' /\ StoresTyped'
<1>1. TypeOK /\ CallsTyped /\ VersionsTyped /\ StoresTyped
  BY ExecutionTypeParts
<1>2. calls[c].step = "lease"
  BY DEF Lease
<1>x. PICK x \in RoleRuns : x = RoleRunOf(c)
  BY <1>1, <1>2, Sender
<1>3. /\ RunOf(c) \in Runs /\ calls[c].request \in Requests
      /\ calls[c].request # Nil /\ calls[c] \in Call /\ CallSound(calls[c])
      /\ RoleRunSound(x) /\ RefsSound(x) /\ roleRuns[x] \in RoleRun
  BY <1>1, <1>2, <1>x, Sender
<1>4. PICK call : call = [calls[c] EXCEPT !.step = "start", !.token = roleRuns[x].token + 1]
  OBVIOUS
<1>5. call \in Call
  <2>1. roleRuns[x].token + 1 \in Nat /\ "start" \in Steps
    BY <1>3 DEF RoleRun, Steps
  <2> QED BY <1>3, <1>4, <2>1 DEF Call
<1>6. /\ call.step = "start" /\ call.request = calls[c].request /\ call.tool = calls[c].tool
      /\ call.collected = calls[c].collected /\ call.settled = calls[c].settled
      /\ call.outcomes = calls[c].outcomes
  BY <1>3, <1>4 DEF Call
<1>7. Continue(c, call)
  BY <1>4, <1>x DEF Lease
<1>8. /\ CallsTyped' /\ calls'[c] = call
  BY <1>1, <1>3, <1>5, <1>6, <1>7, CallWritten
<1>9. Leasing(c) \in LeaseCommand
  BY <1>3, RequestFields, CallFields, <1>1 DEF Leasing, LeaseCommand, Request, RunOf
<1>10. Leasing(c) # Nil /\ Leasing(c).seen = calls[c].seen
  BY <1>9, ExecutionAssumption DEF Leasing
<1>11. /\ commands' = [commands EXCEPT ![x].lease = Leasing(c)]
       /\ UnchangedLedger /\ UNCHANGED <<refs, checks>>
       /\ Versioned /\ roleRuns[x].status = "prepared" /\ Fresh(c)
       /\ UNCHANGED <<task, approvals, artifacts, outbox>>
  BY <1>x DEF Lease, AcquireRoleRunLease
<1>12. PICK row : /\ roleRuns' = [roleRuns EXCEPT ![x] = row]
                  /\ row.status = "starting" /\ row.run = roleRuns[x].run
                  /\ row.output = roleRuns[x].output
  <2>1. PICK row : row = [roleRuns[x] EXCEPT !.status = "starting", !.lease = "live",
          !.owner = calls[c].request.worker, !.token = roleRuns[x].token + 1]
    OBVIOUS
  <2>2. /\ row.status = "starting" /\ row.run = roleRuns[x].run
        /\ row.output = roleRuns[x].output
    BY <1>3, <2>1 DEF RoleRun
  <2>3. roleRuns' = [roleRuns EXCEPT ![x] = row]
    BY <1>1, <1>x, <2>1 DEF Lease, AcquireRoleRunLease, TypeOK
  <2> QED BY <2>2, <2>3
<1>13. RoleRunMoves(x, "prepared", "starting") /\ roleRuns'[x] = row
  BY <1>1, <1>3, <1>11, <1>12 DEF RoleRunMoves, TypeOK
<1>14. VersionsTyped' /\ StoresTyped'
  <2>1. commands' \in [RoleRuns ->
          [prepare: PrepareCommand \cup {Nil}, lease: LeaseCommand \cup {Nil}]]
    BY <1>1, <1>3, <1>9, <1>11 DEF StoresTyped
  <2> QED BY <1>1, <1>11, <2>1, VersionsKept DEF StoresTyped, UnchangedLedger
<1>15. /\ commands'[x].lease = Leasing(c) /\ commands'[x].prepare = commands[x].prepare
       /\ \A y \in RoleRuns : y # x => commands'[y] = commands[y]
  BY <1>1, <1>3, <1>11 DEF StoresTyped
<1>16. CallSound(calls[c])'
  <2>1. ~Acts(call)
    BY <1>6 DEF Acts, StatusFor
  <2>2. /\ call.tool = Nil /\ call.collected = {} /\ call.settled = {} /\ call.outcomes = {}
    BY <1>2, <1>3, <1>6 DEF CallSound, CallRemembers
  <2>3. CallAsks(calls[c])'
    BY <1>x, <1>2, <1>3, <1>6, <1>8, <1>11, <1>15 DEF CallAsks, CallSound, Registered, RoleRunOf
  <2>4. CallHolds(calls[c])' /\ CallCollects(calls[c])' /\ CallChecks(calls[c])'
    BY <1>8, <2>1, <2>2 DEF CallHolds, CallCollects, CallChecks, Acts
  <2>5. CallRemembers(calls[c])'
    BY <1>6, <1>8, <2>2 DEF CallRemembers
  <2>6. \A k \in Operations \ lost' : CallSees(calls[c], k)'
    BY <1>8, <2>1 DEF CallSees, Acts
  <2> QED BY <2>3, <2>4, <2>5, <2>6 DEF CallSound
<1>17. RoleRunSound(x)'
  BY <1>3, <1>10, <1>11, <1>12, <1>13, <1>15 DEF RoleRunSound, Registered
<1>18. RefsSound(x)'
  BY <1>3, <1>11, <1>13 DEF RefsSound, Over, UnchangedLedger
<1>19. \A k \in Operations \ lost : OwnerOf[k] = x => OperationSound(k)'
  BY <1>11 DEF ExecutionInv, OperationSound, UnchangedLedger
<1>20. RowsStay(x)'
  <2>1. roleRuns[x].run = RunOf(c)
    BY <1>x, <1>2, <1>3, <1>11 DEF CallSound, CallAsks, RoleRunSound, RoleRunOf, RunOf
  <2>2. calls[c].seen.task = versions.task /\ calls[c].seen.run = versions.run[RunOf(c)]
    BY <1>11 DEF Fresh, Current
  <2>3. /\ versions'.task = versions.task + 0
        /\ \/ versions'.run[RunOf(c)] = versions.run[RunOf(c)] + 0
           \/ versions'.run[RunOf(c)] = versions.run[RunOf(c)] + 1
    BY <1>3, <1>11 DEF Versioned
  <2>4. versions.task \in Nat /\ versions.run[RunOf(c)] \in Nat
    BY <1>1, <1>3 DEF VersionsTyped
  <2>5. /\ versions'.task = calls[c].seen.task
        /\ versions'.run[RunOf(c)] - calls[c].seen.run \in {0, 1}
    BY <2>2, <2>3, <2>4
  <2> QED BY <1>10, <1>12, <1>13, <1>15, <2>1, <2>5 DEF RowsStay
<1>21. ASSUME NEW y \in RoleRuns, y # x
       PROVE  RowsStay(y)'
  <2>1. ~Unsettled(roleRuns[y].status)
    BY <1>1, <1>11, <1>21, OneOpenRoleRun DEF Unsettled
  <2>2. roleRuns'[y].status \notin {"starting", "running", "settling"}
    BY <1>13, <1>21, <2>1 DEF RoleRunMoves, Unsettled
  <2> QED BY <2>2 DEF RowsStay
<1>22. PassesAreChecked'
  BY <1>3, <1>11, <1>13, PassesStayUnwritten
<1>23. ExecutionInv'
  <2>1. Registered' = Registered /\ ~Acts(call) /\ call.step # "idle"
    BY <1>6, <1>11 DEF Registered, Acts, StatusFor
  <2>2. \A y \in RoleRuns : RowsStay(y)'
    BY <1>20, <1>21
  <2> QED BY <1>x, <1>1, <1>3, <1>5, <1>6, <1>7, <1>11, <1>13, <1>15, <1>16, <1>17, <1>18, <1>19,
             <1>22, <2>1, <2>2, CommandKeepsInv
<1> QED BY <1>8, <1>14, <1>23

(* A command under a lease that writes the RoleRun alone.                     *)
WritesAlone(c, x, call, from, to, row, collected) ==
  /\ x = RoleRunOf(c) /\ calls[c].step # "idle"
  /\ call \in Call /\ Continue(c, call) /\ (call.step = "idle" <=> call.request = Nil)
  /\ from \in {"starting", "running", "settling"} /\ to \in {"running", "settling", "settled"}
  /\ roleRuns' = [roleRuns EXCEPT ![x] = row] /\ roleRuns[x].status = from /\ row.status = to
  /\ row.run = roleRuns[x].run /\ row.output \in {roleRuns[x].output, Nil}
  /\ Acts(calls[c]) \/ from = "starting"
  /\ Acts(call) => call.request = calls[c].request
  /\ UNCHANGED <<task, runs, artifacts, commands, checks>> /\ UnchangedLedger /\ Versioned
  /\ collected \in SUBSET Operations /\ refs' = [refs EXCEPT ![x] = collected]
  /\ to = "running" => collected = {}
  /\ \A k \in collected : k \notin lost /\ operations[k] # "none" /\ OwnerOf[k] = x
  /\ \A k \in Operations \ lost : OwnerOf[k] = x /\ operations[k] # "none" =>
       to # "running" /\ k \in collected /\ (to = "settled" => operations[k] \in Final)

(* A command that writes nothing but the RoleRun of its call.                *)
LEMMA RoleRunAloneKeepsInv ==
  ASSUME ExecutionTypeOK, SchemaChecks, PhaseInv, ExecutionInv, NEW c \in Callers,
         NEW x \in RoleRuns, NEW call, NEW from, NEW to, NEW row, NEW collected,
         WritesAlone(c, x, call, from, to, row, collected), CallSound(calls[c])'
  PROVE  ExecutionInv' /\ CallsTyped' /\ VersionsTyped' /\ StoresTyped'
<1>0. /\ x = RoleRunOf(c) /\ calls[c].step # "idle"
      /\ call \in Call /\ Continue(c, call) /\ (call.step = "idle" <=> call.request = Nil)
      /\ from \in {"starting", "running", "settling"} /\ to \in {"running", "settling", "settled"}
      /\ roleRuns' = [roleRuns EXCEPT ![x] = row] /\ roleRuns[x].status = from /\ row.status = to
      /\ row.run = roleRuns[x].run /\ row.output \in {roleRuns[x].output, Nil}
      /\ Acts(calls[c]) \/ from = "starting"
      /\ Acts(call) => call.request = calls[c].request
      /\ UNCHANGED <<task, runs, artifacts, commands, checks>> /\ UnchangedLedger /\ Versioned
      /\ collected \in SUBSET Operations /\ refs' = [refs EXCEPT ![x] = collected]
      /\ to = "running" => collected = {}
      /\ \A k \in collected : k \notin lost /\ operations[k] # "none" /\ OwnerOf[k] = x
      /\ \A k \in Operations \ lost : OwnerOf[k] = x /\ operations[k] # "none" =>
           to # "running" /\ k \in collected /\ (to = "settled" => operations[k] \in Final)
  BY DEF WritesAlone
<1>1. TypeOK /\ CallsTyped /\ VersionsTyped /\ StoresTyped
  BY <1>0, ExecutionTypeParts
<1>2. CallsTyped' /\ VersionsTyped' /\ StoresTyped'
  BY <1>0, <1>1, CallWritten, VersionsKept DEF StoresTyped, UnchangedLedger
<1>3. RoleRunMoves(x, from, to) /\ roleRuns'[x] = row /\ refs'[x] = collected
      /\ \A y \in RoleRuns : y # x => refs'[y] = refs[y]
  BY <1>0, <1>1 DEF RoleRunMoves, TypeOK, StoresTyped
<1>4. RoleRunSound(x) /\ RowsStay(x)
  BY <1>0 DEF ExecutionInv
<1>5. RoleRunSound(x)'
  BY <1>0, <1>3, <1>4 DEF RoleRunSound, Registered
<1>6. RefsSound(x)'
  BY <1>0, <1>3 DEF RefsSound, Over, UnchangedLedger
<1>7. \A k \in Operations \ lost : OwnerOf[k] = x => OperationSound(k)'
  BY <1>0, <1>3 DEF OperationSound, UnchangedLedger
<1>8. ASSUME NEW y \in RoleRuns
      PROVE  RowsStay(y)'
  <2>1. RowsStay(y)
    BY <1>0 DEF ExecutionInv
  <2>2. roleRuns'[y].status \in {"starting", "running", "settling"} =>
          /\ roleRuns[y].status \in {"starting", "running", "settling"}
          /\ roleRuns'[y].run = roleRuns[y].run
    BY <1>0, <1>3 DEF RoleRunMoves
  <2>3. roleRuns[y].status \in {"starting", "running", "settling"} => roleRuns[y].run \in Runs
    BY <1>0 DEF PhaseInv, RoleRunsBelong
  <2> QED BY <1>0, <1>1, <2>1, <2>2, <2>3, RowsStayUnwritten
<1>9. PassesAreChecked'
  BY <1>0, <1>3, PassesStayUnwritten
<1>10. ExecutionInv'
  <2>1. Registered' = Registered
    BY <1>0 DEF Registered
  <2>2. Acts(calls[c]) \/ from \notin {"running", "settling"}
    BY <1>0
  <2>3. commands'[x].prepare = commands[x].prepare
        /\ \A y \in RoleRuns : y # x => commands'[y] = commands[y] /\ refs'[y] = refs[y]
    BY <1>0, <1>3
  <2> QED BY <1>0, <1>1, <1>3, <1>5, <1>6, <1>7, <1>8, <1>9, <2>1, <2>2, <2>3, CommandKeepsInv
<1> QED BY <1>0, <1>2, <1>10

(* What such a command writes of the RoleRun.                                 *)
LEMMA LeasedWrites ==
  ASSUME TypeOK, NEW c \in Callers, NEW x \in RoleRuns, x = RoleRunOf(c),
         OpenSession(c) \/ MarkSettling(c) \/ Fail(c)
  PROVE  \E row :
           /\ roleRuns' = [roleRuns EXCEPT ![x] = row] /\ row.run = roleRuns[x].run
           /\ row.output \in {roleRuns[x].output, Nil}
           /\ OpenSession(c) => roleRuns[x].status = "starting" /\ row.status = "running"
           /\ MarkSettling(c) => roleRuns[x].status = "running" /\ row.status = "settling"
           /\ Fail(c) => roleRuns[x].status = "settling" /\ row.status = "settled"
<1>1. roleRuns[x] \in RoleRun /\ GrantOf(c).roleRun = x
  BY DEF TypeOK, GrantOf
<1>2. CASE OpenSession(c)
  <2>1. PICK row : row = [roleRuns[x] EXCEPT !.status = "running", !.session = GrantOf(c).token]
    OBVIOUS
  <2>2. row.status = "running" /\ row.run = roleRuns[x].run /\ row.output = roleRuns[x].output
    BY <1>1, <2>1 DEF RoleRun
  <2>3. roleRuns' = [roleRuns EXCEPT ![x] = row] /\ roleRuns[x].status = "starting"
    BY <1>1, <1>2, <2>1 DEF OpenSession, MarkRoleRunRunning, RoleLeaseHeld, TypeOK
  <2> QED BY <1>2, <2>2, <2>3 DEF MarkSettling, Fail, MarkRoleRunSettling, SettleRoleRun,
             RoleLeaseHeld, OpenSession
<1>3. CASE MarkSettling(c)
  <2>1. PICK row : row = [roleRuns[x] EXCEPT !.status = "settling", !.runtime = calls[c].runtime]
    OBVIOUS
  <2>2. row.status = "settling" /\ row.run = roleRuns[x].run /\ row.output = roleRuns[x].output
    BY <1>1, <2>1 DEF RoleRun
  <2>3. roleRuns' = [roleRuns EXCEPT ![x] = row] /\ roleRuns[x].status = "running"
    BY <1>1, <1>3, <2>1 DEF MarkSettling, MarkRoleRunSettling, RoleLeaseHeld, TypeOK
  <2> QED BY <1>3, <2>2, <2>3 DEF MarkSettling, Fail, OpenSession
<1>4. CASE Fail(c)
  <2>1. PICK row : row = RoleRunReleased(x, "settled", "unsuccessful", Nil)
    OBVIOUS
  <2>2. row.status = "settled" /\ row.run = roleRuns[x].run /\ row.output = Nil
    BY <1>1, <2>1 DEF RoleRun, RoleRunReleased
  <2>3. roleRuns' = [roleRuns EXCEPT ![x] = row] /\ roleRuns[x].status = "settling"
    BY <1>1, <1>4, <2>1 DEF Fail, SettleRoleRun, RoleLeaseHeld
  <2> QED BY <1>4, <2>2, <2>3 DEF MarkSettling, Fail, OpenSession
<1> QED BY <1>2, <1>3, <1>4

(* markRoleRunRunning, whatever is done first in the session.                *)
LEMMA OpenedSessionKeepsInv ==
  ASSUME ExecutionTypeOK, SchemaChecks, PhaseInv, ExecutionInv, NEW c \in Callers, OpenSession(c),
         NEW step, NEW left \in 0..RequiredChecks,
         Continue(c, [calls[c] EXCEPT !.step = step, !.left = left]),
         \/ step = "check" /\ left # 0
         \/ step = "run" /\ calls[c].request.role # "verifier"
  PROVE  ExecutionInv' /\ CallsTyped' /\ VersionsTyped' /\ StoresTyped'
<1>1. TypeOK /\ CallsTyped /\ VersionsTyped /\ StoresTyped
  BY ExecutionTypeParts
<1>2. calls[c].step = "open"
  BY DEF OpenSession
<1>3. PICK x \in RoleRuns : x = RoleRunOf(c)
  BY <1>1, <1>2, Sender
<1>4. /\ calls[c].request \in Requests /\ calls[c].request # Nil /\ calls[c] \in Call
      /\ CallSound(calls[c]) /\ RoleRunSound(x) /\ RefsSound(x)
  BY <1>1, <1>2, <1>3, Sender
<1>5. PICK row :
        /\ roleRuns' = [roleRuns EXCEPT ![x] = row] /\ row.run = roleRuns[x].run
        /\ row.output \in {roleRuns[x].output, Nil}
        /\ roleRuns[x].status = "starting" /\ row.status = "running"
  BY <1>1, <1>3, LeasedWrites
<1>6. /\ UNCHANGED <<task, runs, artifacts, commands, refs, checks>> /\ UnchangedLedger /\ Versioned
  BY DEF OpenSession, MarkRoleRunRunning
<1>7. /\ Continue(c, [calls[c] EXCEPT !.step = step, !.left = left])
      /\ left \in 0..RequiredChecks
      /\ \/ step = "check" /\ left # 0
         \/ step = "run" /\ calls[c].request.role # "verifier"
  OBVIOUS
<1>8. PICK call : call = [calls[c] EXCEPT !.step = step, !.left = left]
  OBVIOUS
<1>9. step \in Steps
  BY <1>7 DEF Steps
<1>10. call \in Call
  BY <1>4, <1>7, <1>8, <1>9 DEF Call
<1>11. /\ call.step = step /\ call.left = left /\ call.request = calls[c].request
       /\ call.tool = calls[c].tool /\ call.collected = calls[c].collected
       /\ call.settled = calls[c].settled /\ call.outcomes = calls[c].outcomes
  BY <1>4, <1>8 DEF Call
<1>12. /\ call.tool = Nil /\ call.collected = {} /\ call.settled = {} /\ call.outcomes = {}
  BY <1>2, <1>4, <1>11 DEF CallSound, CallRemembers
<1>13. calls'[c] = call
  BY <1>1, <1>4, <1>7, <1>8, <1>9, <1>10, <1>11, CallWritten
<1>14. ASSUME NEW k \in Operations \ lost, OwnerOf[k] = x
       PROVE  operations[k] = "none"
  BY <1>5, <1>14 DEF ExecutionInv, OperationSound
<1>15. roleRuns'[x].status = "running"
  BY <1>1, <1>5 DEF TypeOK
<1>16. CallSound(calls[c])'
  <2>1. CallHolds(calls[c])'
    BY <1>3, <1>7, <1>11, <1>13, <1>15 DEF CallHolds, StatusFor, RoleRunOf
  <2>2. CallRemembers(calls[c])'
    BY <1>7, <1>11, <1>12, <1>13 DEF CallRemembers
  <2>3. CallCollects(calls[c])'
    BY <1>12, <1>13 DEF CallCollects
  <2>4. checks[x] = {}
    BY <1>4, <1>5 DEF RoleRunSound
  <2>5. CallChecks(calls[c])'
    BY <1>3, <1>6, <1>11, <1>12, <1>13, <2>4 DEF CallChecks, RoleRunOf
  <2>6. CallAsks(calls[c])'
    BY <1>2, <1>4, <1>6, <1>7, <1>11, <1>13 DEF CallSound, CallAsks, Registered
  <2>7. \A k \in Operations \ lost' : CallSees(calls[c], k)'
    BY <1>3, <1>6, <1>11, <1>13, <1>14 DEF CallSees, UnchangedLedger, RoleRunOf
  <2> QED BY <2>1, <2>2, <2>3, <2>5, <2>6, <2>7 DEF CallSound
<1>17. refs' = [refs EXCEPT ![x] = {}]
  BY <1>1, <1>4, <1>5, <1>6 DEF RefsSound, Over, StoresTyped
<1>18. /\ Continue(c, call) /\ (call.step = "idle" <=> call.request = Nil)
       /\ Acts(call) => call.request = calls[c].request
  BY <1>4, <1>7, <1>8, <1>11
<1>19. \A k \in Operations \ lost : OwnerOf[k] = x => operations[k] = "none"
  BY <1>14
<1>20. /\ {} \in SUBSET Operations /\ "starting" \in {"starting", "running", "settling"}
       /\ "running" \in {"running", "settling", "settled"}
       /\ \A k \in {} : k \notin lost /\ operations[k] # "none" /\ OwnerOf[k] = x
  OBVIOUS
<1>21. ASSUME NEW collected \in SUBSET Operations, collected = {}
       PROVE  ExecutionInv' /\ CallsTyped' /\ VersionsTyped' /\ StoresTyped'
  <2>1. /\ refs' = [refs EXCEPT ![x] = collected]
        /\ \A k \in collected : k \notin lost /\ operations[k] # "none" /\ OwnerOf[k] = x
    BY <1>17, <1>21
  <2>2. \A k \in Operations \ lost : OwnerOf[k] = x /\ operations[k] # "none" =>
          "running" # "running" /\ k \in collected
            /\ ("running" = "settled" => operations[k] \in Final)
    BY <1>19
  <2>3. PICK from, to : from = "starting" /\ to = "running"
    OBVIOUS
  <2>4. WritesAlone(c, x, call, from, to, row, collected)
    BY <1>2, <1>3, <1>5, <1>6, <1>10, <1>18, <1>20, <1>21, <2>1, <2>2, <2>3 DEF WritesAlone
  <2> QED BY <1>16, <2>4, RoleRunAloneKeepsInv
<1> QED BY <1>20, <1>21

(* startRuntime: the checks of a verifier come first.                        *)
LEMMA OpenSessionKeepsInv ==
  ASSUME ExecutionTypeOK, SchemaChecks, PhaseInv, ExecutionInv, NEW c \in Callers, OpenSession(c)
  PROVE  ExecutionInv' /\ CallsTyped' /\ VersionsTyped' /\ StoresTyped'
<1>1. CallsTyped /\ calls[c] \in Call
  BY ExecutionTypeParts, CallFields
<1>2. CASE calls[c].request.role = "verifier"
  <2>1. Continue(c, [calls[c] EXCEPT !.step = "check", !.left = RequiredChecks])
    BY <1>2 DEF OpenSession, Prompt
  <2>2. RequiredChecks \in 0..RequiredChecks /\ RequiredChecks # 0
    BY ExecutionAssumption
  <2> QED BY <2>1, <2>2, OpenedSessionKeepsInv
<1>3. CASE calls[c].request.role # "verifier"
  <2>1. Continue(c, [calls[c] EXCEPT !.step = "run"])
    BY <1>1, <1>3, GotoContinues DEF OpenSession, Prompt
  <2>2. [calls[c] EXCEPT !.step = "run"]
          = [calls[c] EXCEPT !.step = "run", !.left = calls[c].left]
    BY <1>1 DEF Call
  <2>3. calls[c].left \in 0..RequiredChecks
    BY <1>1 DEF Call
  <2>4. Continue(c, [calls[c] EXCEPT !.step = "run", !.left = calls[c].left])
    BY <2>1, <2>2
  <2> QED BY <1>3, <2>3, <2>4, OpenedSessionKeepsInv
<1> QED BY <1>2, <1>3

(* markRoleRunSettling names what was collected.                             *)
LEMMA MarkSettlingKeepsInv ==
  ASSUME ExecutionTypeOK, SchemaChecks, PhaseInv, ExecutionInv, NEW c \in Callers, MarkSettling(c)
  PROVE  ExecutionInv' /\ CallsTyped' /\ VersionsTyped' /\ StoresTyped'
<1>1. TypeOK /\ CallsTyped /\ VersionsTyped /\ StoresTyped
  BY ExecutionTypeParts
<1>2. calls[c].step = "ended"
  BY DEF MarkSettling
<1>3. PICK x \in RoleRuns : x = RoleRunOf(c)
  BY <1>1, <1>2, Sender
<1>4. /\ calls[c].request \in Requests /\ calls[c].request # Nil /\ calls[c] \in Call
      /\ CallSound(calls[c])
  BY <1>1, <1>2, Sender
<1>5. PICK row :
        /\ roleRuns' = [roleRuns EXCEPT ![x] = row] /\ row.run = roleRuns[x].run
        /\ row.output \in {roleRuns[x].output, Nil}
        /\ roleRuns[x].status = "running" /\ row.status = "settling"
  BY <1>1, <1>3, LeasedWrites
<1>6. /\ UNCHANGED <<task, runs, artifacts, commands, checks>> /\ UnchangedLedger /\ Versioned
      /\ refs' = [refs EXCEPT ![x] = calls[c].collected]
  BY <1>3 DEF MarkSettling, MarkRoleRunSettling
<1>7. /\ calls[c].tool = Nil /\ calls[c].collected \subseteq Operations
      /\ \A k \in calls[c].collected :
           k \notin lost /\ operations[k] # "none" /\ OwnerOf[k] = x
  BY <1>1, <1>2, <1>3, <1>4, CallFields DEF CallSound, CallRemembers, CallCollects, RoleRunOf
<1>8. ASSUME NEW k \in Operations \ lost, OwnerOf[k] = x, operations[k] # "none"
      PROVE  k \in calls[c].collected
  <2>1. k # Nil
    BY ExecutionAssumption
  <2> QED BY <1>2, <1>3, <1>4, <1>7, <1>8, <2>1 DEF CallSound, CallSees, Acts, StatusFor, RoleRunOf
<1>9. roleRuns'[x].status = "settling"
  BY <1>1, <1>5 DEF TypeOK
<1>10. ASSUME NEW call \in Call, Continue(c, call), call.request = calls[c].request,
              call.step \in {"collect", "fail"}, CallSound(calls[c])'
       PROVE  ExecutionInv' /\ CallsTyped' /\ VersionsTyped' /\ StoresTyped'
  <2>1. /\ Acts(calls[c]) /\ (call.step = "idle" <=> call.request = Nil)
    BY <1>2, <1>4, <1>10 DEF Acts, StatusFor
  <2>2. PICK from, to : from = "running" /\ to = "settling"
    OBVIOUS
  <2>3. PICK collected : collected = calls[c].collected
    OBVIOUS
  <2>4. WritesAlone(c, x, call, from, to, row, collected)
    BY <1>2, <1>3, <1>5, <1>6, <1>7, <1>8, <1>10, <2>1, <2>2, <2>3 DEF WritesAlone
  <2> QED BY <1>10, <2>4, RoleRunAloneKeepsInv
<1>11. CASE Unprompted(c)
  <2>1. PICK call : call = LeaseOnly(c)
    OBVIOUS
  <2>2. /\ call \in Call /\ call.step = "fail" /\ call.request = calls[c].request
        /\ call.tool = Nil /\ call.collected = {} /\ call.settled = {} /\ call.outcomes = {}
    BY <1>1, <1>2, <2>1, LeaseOnlyFields
  <2>3. Continue(c, call)
    BY <1>11, <2>1 DEF MarkSettling
  <2>4. calls'[c] = call
    BY <1>1, <1>4, <2>2, <2>3, CallWritten
  <2>5. calls[c].collected = {}
    BY <1>2, <1>4, <1>11 DEF CallSound, CallRemembers, Unprompted
  <2>6. CallHolds(calls[c])'
    BY <1>3, <1>9, <2>2, <2>4 DEF CallHolds, StatusFor, RoleRunOf
  <2>7. CallRemembers(calls[c])' /\ CallCollects(calls[c])' /\ CallChecks(calls[c])'
    BY <2>2, <2>4 DEF CallRemembers, CallCollects, CallChecks
  <2>8. CallAsks(calls[c])'
    BY <1>2, <1>4, <1>6, <2>2, <2>4 DEF CallSound, CallAsks, Registered
  <2>9. \A k \in Operations \ lost' : CallSees(calls[c], k)'
    BY <1>3, <1>6, <1>8, <2>2, <2>4, <2>5 DEF CallSees, UnchangedLedger, RoleRunOf
  <2>10. CallSound(calls[c])'
    BY <2>6, <2>7, <2>8, <2>9 DEF CallSound
  <2> QED BY <1>10, <2>2, <2>3, <2>10
<1>12. CASE ~Unprompted(c)
  <2>1. PICK call : call = [calls[c] EXCEPT !.step = "collect"]
    OBVIOUS
  <2>2. call \in Call
    BY <1>4, <2>1 DEF Call, Steps
  <2>3. /\ call.step = "collect" /\ call.request = calls[c].request
        /\ call.tool = calls[c].tool /\ call.collected = calls[c].collected
        /\ call.settled = calls[c].settled /\ call.outcomes = calls[c].outcomes
        /\ call.runtime = calls[c].runtime /\ call.timedOut = calls[c].timedOut
        /\ call.unknown = calls[c].unknown
    BY <1>4, <2>1 DEF Call
  <2>4. Continue(c, call)
    BY <1>1, <1>12, <2>1, GotoContinues DEF MarkSettling
  <2>5. calls'[c] = call
    BY <1>1, <1>4, <2>2, <2>3, <2>4, CallWritten
  <2>6. CallHolds(calls[c])'
    BY <1>3, <1>9, <2>3, <2>5 DEF CallHolds, StatusFor, RoleRunOf
  <2>7. CallRemembers(calls[c])'
    BY <1>2, <1>4, <1>7, <2>3, <2>5 DEF CallSound, CallRemembers
  <2>8. CallCollects(calls[c])'
    BY <1>4, <1>6, <2>3, <2>5 DEF CallSound, CallCollects, UnchangedLedger
  <2>9. CallChecks(calls[c])'
    BY <1>2, <1>4, <1>6, <2>3, <2>5 DEF CallSound, CallChecks, Acts, StatusFor
  <2>10. CallAsks(calls[c])'
    BY <1>2, <1>4, <1>6, <2>3, <2>5 DEF CallSound, CallAsks, Registered
  <2>11. \A k \in Operations \ lost' : CallSees(calls[c], k)'
    BY <1>3, <1>6, <1>8, <2>3, <2>5 DEF CallSees, UnchangedLedger, RoleRunOf
  <2>12. CallSound(calls[c])'
    BY <2>6, <2>7, <2>8, <2>9, <2>10, <2>11 DEF CallSound
  <2> QED BY <1>10, <2>2, <2>3, <2>4, <2>12
<1> QED BY <1>11, <1>12

(* A call that has returned is sound.                                         *)
LEMMA ReturnedIsSound ==
  ASSUME NEW c \in Callers, calls'[c] = NoCall
  PROVE  CallSound(calls[c])'
<1>1. ~Acts(NoCall)
  BY NoCallFields DEF Acts, StatusFor
<1>2. CallHolds(calls[c])' /\ CallChecks(calls[c])'
  BY <1>1 DEF CallHolds, CallChecks, Acts
<1>3. CallRemembers(calls[c])' /\ CallCollects(calls[c])' /\ CallAsks(calls[c])'
  BY NoCallFields DEF CallRemembers, CallCollects, CallAsks
<1>4. \A k \in Operations \ lost' : CallSees(calls[c], k)'
  BY <1>1 DEF CallSees, Acts
<1> QED BY <1>2, <1>3, <1>4 DEF CallSound

(* failRole                                                                  *)
LEMMA FailKeepsInv ==
  ASSUME ExecutionTypeOK, SchemaChecks, PhaseInv, ExecutionInv, NEW c \in Callers, Fail(c)
  PROVE  ExecutionInv' /\ CallsTyped' /\ VersionsTyped' /\ StoresTyped'
<1>1. TypeOK /\ CallsTyped /\ VersionsTyped /\ StoresTyped
  BY ExecutionTypeParts
<1>2. calls[c].step = "fail"
  BY DEF Fail
<1>3. PICK x \in RoleRuns : x = RoleRunOf(c)
  BY <1>1, <1>2, Sender
<1>4. CallSound(calls[c]) /\ RefsSound(x)
  BY <1>1, <1>2, <1>3, Sender
<1>5. PICK row :
        /\ roleRuns' = [roleRuns EXCEPT ![x] = row] /\ row.run = roleRuns[x].run
        /\ row.output \in {roleRuns[x].output, Nil}
        /\ roleRuns[x].status = "settling" /\ row.status = "settled"
  BY <1>1, <1>3, LeasedWrites
<1>6. /\ UNCHANGED <<task, runs, artifacts, commands, refs, checks>> /\ UnchangedLedger /\ Versioned
      /\ Continue(c, NoCall)
  BY DEF Fail, SettleRoleRun, Finish, Return
<1>7. calls'[c] = NoCall
  BY <1>1, <1>6, NoCallFields, CallWritten
<1>8. ASSUME NEW k \in Operations \ lost, OwnerOf[k] = x, operations[k] # "none"
      PROVE  k \in refs[x] /\ operations[k] \in Final
  <2>1. k \in refs[x]
    BY <1>5, <1>8 DEF ExecutionInv, OperationSound
  <2>2. operations[k] \in Final
    BY <1>2, <1>3, <1>4, <1>8 DEF CallSound, CallSees, Acts, StatusFor, RoleRunOf
  <2> QED BY <2>1, <2>2
<1>9. /\ refs' = [refs EXCEPT ![x] = refs[x]] /\ refs[x] \subseteq Operations
  BY <1>1, <1>6 DEF StoresTyped
<1>10. \A k \in refs[x] : k \notin lost /\ operations[k] # "none" /\ OwnerOf[k] = x
  BY <1>4 DEF RefsSound
<1>11. Acts(calls[c]) /\ ~Acts(NoCall)
  BY <1>2, NoCallFields DEF Acts, StatusFor
<1>12. CallSound(calls[c])'
  BY <1>7, ReturnedIsSound
<1>13. /\ \A k \in Operations \ lost : OwnerOf[k] = x /\ operations[k] # "none" =>
            "settled" # "running" /\ k \in refs[x]
              /\ ("settled" = "settled" => operations[k] \in Final)
       /\ refs[x] \in SUBSET Operations
       /\ "settled" = "running" => refs[x] = {}
  BY <1>8, <1>9
<1>14. /\ "settling" \in {"starting", "running", "settling"}
       /\ "settled" \in {"running", "settling", "settled"}
       /\ calls[c].step # "idle" /\ (NoCall.step = "idle" <=> NoCall.request = Nil)
       /\ NoCall \in Call /\ Continue(c, NoCall)
       /\ Acts(NoCall) => NoCall.request = calls[c].request
       /\ Acts(calls[c]) \/ "settling" = "starting"
  BY <1>2, <1>6, <1>11, NoCallFields
<1>15. /\ UNCHANGED <<task, runs, artifacts, commands, checks>> /\ UnchangedLedger /\ Versioned
       /\ refs' = [refs EXCEPT ![x] = refs[x]]
  BY <1>6, <1>9
<1>16. PICK call, from, to, collected :
         call = NoCall /\ from = "settling" /\ to = "settled" /\ collected = refs[x]
  OBVIOUS
<1>17. WritesAlone(c, x, call, from, to, row, collected)
  BY <1>3, <1>5, <1>10, <1>13, <1>14, <1>15, <1>16 DEF WritesAlone
<1> QED BY <1>12, <1>17, RoleRunAloneKeepsInv

-----------------------------------------------------------------------------
(* The last command of a call. *)

(* A command that ends the RoleRun, and writes other rows with it.            *)
LEMMA ClosingKeepsInv ==
  ASSUME ExecutionTypeOK, SchemaChecks, PhaseInv, ExecutionInv, NEW c \in Callers,
         NEW x \in RoleRuns, x = RoleRunOf(c), Acts(calls[c]),
         NEW row, NEW to \in {"settled", "blocked"},
         roleRuns[x].status = "settling", roleRuns' = [roleRuns EXCEPT ![x] = row],
         row.status = to, row.run = roleRuns[x].run,
         row.output # Nil => row.output \in Registered',
         Registered \subseteq Registered', Finish(c),
         to = "settled" => calls[c].step = "submit",
         PassesAreChecked'
  PROVE  ExecutionInv' /\ CallsTyped' /\ VersionsTyped' /\ StoresTyped'
<1>1. TypeOK /\ CallsTyped /\ VersionsTyped /\ StoresTyped
  BY ExecutionTypeParts
<1>2. calls[c].step # "idle"
  BY DEF Acts, StatusFor
<1>3. CallSound(calls[c]) /\ RefsSound(x) /\ RoleRunSound(x)
  BY <1>1, <1>2, Sender
<1>4. /\ UnchangedLedger /\ UNCHANGED <<commands, refs, checks>> /\ Versioned
      /\ Continue(c, NoCall)
  BY DEF Finish, Return
<1>5. NoCall \in Call /\ (NoCall.step = "idle" <=> NoCall.request = Nil) /\ ~Acts(NoCall)
  BY NoCallFields DEF Acts, StatusFor
<1>6. CallsTyped' /\ calls'[c] = NoCall
  BY <1>1, <1>4, <1>5, CallWritten
<1>7. VersionsTyped' /\ StoresTyped'
  BY <1>1, <1>4, VersionsKept DEF StoresTyped, UnchangedLedger
<1>8. RoleRunMoves(x, "settling", to) /\ roleRuns'[x] = row
  BY <1>1 DEF RoleRunMoves, TypeOK
<1>9. CallSound(calls[c])'
  BY <1>6, ReturnedIsSound
<1>10. RefsSound(x)'
  BY <1>3, <1>4, <1>8 DEF RefsSound, Over, UnchangedLedger
<1>11. RoleRunSound(x)'
  BY <1>3, <1>4, <1>8 DEF RoleRunSound
<1>12. ASSUME NEW k \in Operations \ lost, OwnerOf[k] = x
       PROVE  OperationSound(k)'
  <2>1. OperationSound(k) /\ CallSees(calls[c], k) /\ CallRemembers(calls[c])
        /\ CallCollects(calls[c])
    BY <1>3 DEF ExecutionInv, CallSound
  <2>2. to = "settled" /\ operations[k] # "none" => operations[k] \in Final
    BY <1>12, <2>1 DEF CallSees, CallRemembers, CallCollects, RoleRunOf
  <2> QED BY <1>4, <1>8, <1>12, <2>1, <2>2 DEF OperationSound, UnchangedLedger
<1>13. ASSUME NEW y \in RoleRuns
       PROVE  RowsStay(y)'
  <2>1. y # x => ~Unsettled(roleRuns[y].status)
    BY <1>1, OneOpenRoleRun DEF Unsettled
  <2>2. roleRuns'[y].status \notin {"starting", "running", "settling"}
    BY <1>8, <2>1 DEF RoleRunMoves, Unsettled
  <2> QED BY <2>2 DEF RowsStay
<1>14. ExecutionInv'
  <2>1. commands'[x].prepare = commands[x].prepare
        /\ \A y \in RoleRuns : y # x => commands'[y] = commands[y] /\ refs'[y] = refs[y]
    BY <1>4
  <2>2. \A k \in Operations \ lost : OwnerOf[k] = x => OperationSound(k)'
    BY <1>12
  <2>3. PICK call, from : call = NoCall /\ from = "settling"
    OBVIOUS
  <2>4. /\ call \in Call /\ Continue(c, call) /\ (call.step = "idle" <=> call.request = Nil)
        /\ Acts(call) => call.request = calls[c].request
        /\ RoleRunMoves(x, from, to)
    BY <1>4, <1>5, <1>8, <2>3
  <2> QED BY <1>1, <1>4, <1>9, <1>10, <1>11, <1>13, <2>1, <2>2, <2>4, CommandKeepsInv
<1> QED BY <1>6, <1>7, <1>14

(* What is stored stays stored.                                              *)
LEMMA InsertedIsRegistered ==
  ASSUME TypeOK, NEW e \in Artifacts, NEW content, content.kind # "none",
         InsertArtifact(e, content)
  PROVE  Registered \subseteq Registered' /\ e \in Registered'
BY DEF InsertArtifact, Registered, NoContent, TypeOK

(* A command that stores no pass leaves the passes there are as they are.     *)
LEMMA NoPassStored ==
  ASSUME SchemaChecks, ExecutionInv, NEW x \in RoleRuns, roleRuns[x].status = "settling",
         \A y \in RoleRuns : y # x => roleRuns'[y] = roleRuns[y],
         UNCHANGED checks,
         task'.status # "awaiting_acceptance", task'.outcome # "completed",
         \A v \in Artifacts : artifacts'[v].verdict = "pass" => artifacts[v].verdict = "pass"
  PROVE  PassesAreChecked'
<1>1. roleRuns[x].outcome # "succeeded"
  BY DEF SchemaChecks
<1>2. ASSUME NEW v \in Artifacts, artifacts'[v].verdict = "pass"
      PROVE  \E y \in RoleRuns : CheckedBy(v, y)'
  <2>1. PICK y \in RoleRuns : CheckedBy(v, y)
    BY <1>2 DEF ExecutionInv, PassesAreChecked
  <2>2. CheckedBy(v, y)'
    BY <1>1, <2>1 DEF CheckedBy
  <2> QED BY <2>2
<1> QED BY <1>2 DEF PassesAreChecked

(* blockRole                                                                 *)
LEMMA BlockKeepsInv ==
  ASSUME ExecutionTypeOK, SchemaChecks, PhaseInv, ExecutionInv, NEW c \in Callers, Block(c)
  PROVE  ExecutionInv' /\ CallsTyped' /\ VersionsTyped' /\ StoresTyped'
<1>1. TypeOK /\ CallsTyped /\ VersionsTyped /\ StoresTyped
  BY ExecutionTypeParts
<1>2. calls[c].step = "block" /\ Acts(calls[c])
  BY DEF Block, Acts, StatusFor
<1>3. PICK x \in RoleRuns : x = RoleRunOf(c)
  BY <1>1, <1>2, Sender
<1>4. PICK row : row = RoleRunReleased(x, "blocked", "none", Nil)
  OBVIOUS
<1>5. row.status = "blocked" /\ row.run = roleRuns[x].run /\ row.output = Nil
  BY <1>1, <1>4 DEF RoleRunReleased, TypeOK, RoleRun
<1>6. /\ roleRuns[x].status = "settling" /\ roleRuns' = [roleRuns EXCEPT ![x] = row]
      /\ UNCHANGED artifacts /\ Finish(c) /\ UNCHANGED checks
      /\ task.status \in {"executing", "verifying"} /\ task' = TaskBlocked(task.status, Nil, Nil)
  BY <1>3, <1>4 DEF Block, BlockRoleRun, RoleLeaseHeld, GrantOf, Finish
<1>7. task'.status # "awaiting_acceptance" /\ task'.outcome # "completed"
  BY <1>1, <1>6, TaskFields DEF SchemaChecks
<1>8. \A y \in RoleRuns : y # x => roleRuns'[y] = roleRuns[y]
  BY <1>1, <1>6 DEF TypeOK
<1>9. PassesAreChecked'
  BY <1>6, <1>7, <1>8, NoPassStored
<1>10. Registered \subseteq Registered'
  BY <1>6 DEF Registered
<1>11. PICK to \in {"settled", "blocked"} : to = "blocked"
  OBVIOUS
<1> QED BY <1>2, <1>3, <1>5, <1>6, <1>9, <1>10, <1>11, ClosingKeepsInv

(* submitExecutionForVerification                                            *)
LEMMA HandOverExecutionKeepsInv ==
  ASSUME ExecutionTypeOK, SchemaChecks, PhaseInv, ExecutionInv, NEW c \in Callers,
         HandOverExecution(c)
  PROVE  ExecutionInv' /\ CallsTyped' /\ VersionsTyped' /\ StoresTyped'
<1>1. TypeOK /\ CallsTyped /\ VersionsTyped /\ StoresTyped
  BY ExecutionTypeParts
<1>2. calls[c].step = "submit" /\ Acts(calls[c])
  BY DEF HandOverExecution, Acts, StatusFor
<1>3. PICK x \in RoleRuns : x = RoleRunOf(c)
  BY <1>1, <1>2, Sender
<1>4. PICK e \in Artifacts : e = calls[c].request.result
  BY <1>1, <1>2, Sender, RequestFields
<1>5. PICK row : row = RoleRunReleased(x, "settled", "succeeded", e)
  OBVIOUS
<1>6. row.status = "settled" /\ row.run = roleRuns[x].run /\ row.output = e
  BY <1>1, <1>5 DEF RoleRunReleased, TypeOK, RoleRun
<1>7. PICK content : content = ExecutionResult(roleRuns[x].run)
  OBVIOUS
<1>8. content.kind # "none" /\ content.verdict # "pass"
  BY <1>7 DEF ExecutionResult
<1>9. /\ roleRuns[x].status = "settling" /\ roleRuns' = [roleRuns EXCEPT ![x] = row]
      /\ InsertArtifact(e, content) /\ Finish(c) /\ UNCHANGED checks
      /\ task.status = "executing" /\ task' = TaskMoved("verifying", e, Nil)
  BY <1>3, <1>4, <1>5, <1>7 DEF HandOverExecution, SubmitExecutionForVerification,
     RoleLeaseHeld, GrantOf, Finish
<1>10. task'.status # "awaiting_acceptance" /\ task'.outcome # "completed"
  BY <1>1, <1>9, TaskFields DEF SchemaChecks
<1>11. \A y \in RoleRuns : y # x => roleRuns'[y] = roleRuns[y]
  BY <1>1, <1>9 DEF TypeOK
<1>12. \A v \in Artifacts : artifacts'[v].verdict = "pass" => artifacts[v].verdict = "pass"
  BY <1>1, <1>8, <1>9 DEF InsertArtifact, TypeOK
<1>13. PassesAreChecked'
  BY <1>9, <1>10, <1>11, <1>12, NoPassStored
<1>14. Registered \subseteq Registered' /\ e \in Registered'
  BY <1>1, <1>8, <1>9, InsertedIsRegistered
<1>15. PICK to \in {"settled", "blocked"} : to = "settled"
  OBVIOUS
<1> QED BY <1>2, <1>3, <1>6, <1>9, <1>13, <1>14, <1>15, ClosingKeepsInv

(* What routing a verification result writes.                                 *)
LEMMA RouteWrites ==
  ASSUME TypeOK, NEW g, NEW e, NEW v, NEW j, Route(g, e, v, j)
  PROVE  /\ SubmitVerificationResult(g, e, v, j.verdict)
         /\ j.verdict = "pass" => task' = TaskMoved("awaiting_acceptance", e, v)
         /\ j.verdict # "pass" => task'.status # "awaiting_acceptance"
         /\ task'.outcome = task.outcome
<1>1. CASE j.verdict = "pass" /\ SubmitPass(g, e, v)
  BY <1>1, TaskFields DEF SubmitPass
<1>2. CASE j.verdict = "blocked" /\ SubmitBlocked(g, e, v)
  BY <1>2, TaskFields DEF SubmitBlocked
<1>3. CASE j.verdict = "fail" /\ SubmitImplementationFailure(g, e, v)
  BY <1>3, TaskFields DEF SubmitImplementationFailure
<1>4. CASE j.verdict = "fail" /\ SubmitUpstreamFailure(g, e, v, j.finding)
  BY <1>4, TaskFields DEF SubmitUpstreamFailure
<1> QED BY <1>1, <1>2, <1>3, <1>4 DEF Route

(* A verifier may say pass only after checks that all passed.                 *)
LEMMA PassMeansGood ==
  ASSUME ExecutionTypeOK, ExecutionInv, NEW c \in Callers, calls[c].step = "submit",
         calls[c].request.role = "verifier", calls[c].judgement.verdict = "pass",
         NEW x \in RoleRuns, x = RoleRunOf(c)
  PROVE  checks[x] = {Good}
<1>1. StoresTyped /\ CallRemembers(calls[c]) /\ CallChecks(calls[c]) /\ Acts(calls[c])
  BY ExecutionTypeParts DEF ExecutionInv, CallSound, Acts, StatusFor
<1>2. calls[c].outcomes = {"passed"}
  BY <1>1 DEF CallRemembers, Sealable
<1>3. {OutcomeOf(o) : o \in checks[x]} = {"passed"}
  BY <1>1, <1>2 DEF CallChecks, RoleRunOf
<1>4. ASSUME NEW o \in checks[x]
      PROVE  o = Good
  <2>1. o \in Observation
    BY <1>1 DEF StoresTyped
  <2>2. OutcomeOf(o) = "passed"
    BY <1>3
  <2>3. o.exit = "expected" /\ o.late = FALSE
    BY <2>1, <2>2 DEF OutcomeOf, Observation, Exits
  <2> QED BY <2>1, <2>3 DEF Observation, Good
<1>5. \E o \in checks[x] : TRUE
  BY <1>3
<1> QED BY <1>4, <1>5

(* submitVerificationResult                                                  *)
LEMMA HandOverVerificationKeepsInv ==
  ASSUME ExecutionTypeOK, SchemaChecks, PhaseInv, ExecutionInv, NEW c \in Callers,
         HandOverVerification(c)
  PROVE  ExecutionInv' /\ CallsTyped' /\ VersionsTyped' /\ StoresTyped'
<1>1. TypeOK /\ CallsTyped /\ VersionsTyped /\ StoresTyped
  BY ExecutionTypeParts
<1>2. calls[c].step = "submit" /\ Acts(calls[c]) /\ calls[c].request.role = "verifier"
  BY DEF HandOverVerification, Acts, StatusFor
<1>3. PICK x \in RoleRuns : x = RoleRunOf(c)
  BY <1>1, <1>2, Sender
<1>4. PICK v \in Artifacts : v = calls[c].request.result
  BY <1>1, <1>2, Sender, RequestFields
<1>5. PICK e, j, g : e = calls[c].request.execution /\ j = calls[c].judgement /\ g = GrantOf(c)
  OBVIOUS
<1>6. PICK row : row = RoleRunReleased(x, "settled", "succeeded", v)
  OBVIOUS
<1>7. /\ row.status = "settled" /\ row.run = roleRuns[x].run /\ row.output = v
      /\ row.outcome = "succeeded" /\ row.role = roleRuns[x].role
  BY <1>1, <1>6 DEF RoleRunReleased, TypeOK, RoleRun
<1>8. PICK content : content = VerificationResult(roleRuns[x].run, e, j.verdict)
  OBVIOUS
<1>9. content.kind # "none" /\ content.verdict = j.verdict
  BY <1>8 DEF VerificationResult
<1>10. /\ SubmitVerificationResult(g, e, v, j.verdict)
       /\ j.verdict = "pass" => task' = TaskMoved("awaiting_acceptance", e, v)
       /\ j.verdict # "pass" => task'.status # "awaiting_acceptance"
       /\ task'.outcome = task.outcome
  BY <1>1, <1>4, <1>5, RouteWrites DEF HandOverVerification
<1>11. /\ roleRuns[x].status = "settling" /\ roleRuns' = [roleRuns EXCEPT ![x] = row]
       /\ roleRuns[x].role = "verifier" /\ InsertArtifact(v, content)
       /\ task.status = "verifying"
  BY <1>3, <1>5, <1>6, <1>8, <1>10 DEF SubmitVerificationResult, RoleLeaseHeld, GrantOf
<1>12. Finish(c) /\ UNCHANGED checks
  BY DEF HandOverVerification, Finish
<1>13. task'.outcome # "completed"
  BY <1>10, <1>11 DEF SchemaChecks
<1>14. /\ \A y \in RoleRuns : y # x => roleRuns'[y] = roleRuns[y]
       /\ roleRuns'[x] = row
  BY <1>1, <1>11 DEF TypeOK
<1>15. /\ \A w \in Artifacts : w # v => artifacts'[w] = artifacts[w]
       /\ artifacts'[v] = content
  BY <1>1, <1>11 DEF InsertArtifact, TypeOK
<1>16. ASSUME j.verdict # "pass"
       PROVE  PassesAreChecked'
  <2>1. \A w \in Artifacts : artifacts'[w].verdict = "pass" => artifacts[w].verdict = "pass"
    BY <1>9, <1>15, <1>16
  <2>2. task'.status # "awaiting_acceptance"
    BY <1>10, <1>16
  <2>3. roleRuns[x].status = "settling" /\ UNCHANGED checks
    BY <1>11, <1>12
  <2> QED BY <1>3, <1>13, <1>14, <2>1, <2>2, <2>3, NoPassStored
<1>17. ASSUME j.verdict = "pass"
       PROVE  PassesAreChecked'
  <2>1. CheckedBy(v, x)'
    BY <1>2, <1>3, <1>5, <1>7, <1>11, <1>12, <1>14, <1>17, PassMeansGood DEF CheckedBy, Good
  <2>2. ASSUME NEW w \in Artifacts, w # v, artifacts'[w].verdict = "pass"
        PROVE  \E y \in RoleRuns : CheckedBy(w, y)'
    <3>1. PICK y \in RoleRuns : CheckedBy(w, y)
      BY <1>15, <2>2 DEF ExecutionInv, PassesAreChecked
    <3>2. y # x
      BY <1>11, <3>1 DEF CheckedBy, SchemaChecks
    <3>3. CheckedBy(w, y)'
      BY <1>12, <1>14, <3>1, <3>2 DEF CheckedBy
    <3> QED BY <3>3
  <2>3. task' = TaskMoved("awaiting_acceptance", e, v)
    BY <1>10, <1>17
  <2>4. task'.verification = v
    BY <1>1, <2>3 DEF TaskMoved, TypeOK, Task
  <2>5. artifacts'[v].verdict = "pass"
    BY <1>9, <1>15, <1>17
  <2>6. \A w \in Artifacts : artifacts'[w].verdict = "pass" => \E y \in RoleRuns : CheckedBy(w, y)'
    BY <2>1, <2>2
  <2>7. task'.verification \in Artifacts /\ artifacts'[task'.verification].verdict = "pass"
    BY <1>4, <2>4, <2>5
  <2> QED BY <2>6, <2>7 DEF PassesAreChecked
<1>18. PassesAreChecked'
  BY <1>16, <1>17
<1>19. Registered \subseteq Registered' /\ v \in Registered'
  BY <1>1, <1>9, <1>11, InsertedIsRegistered
<1>20. PICK to \in {"settled", "blocked"} : to = "settled"
  OBVIOUS
<1> QED BY <1>2, <1>3, <1>7, <1>11, <1>12, <1>18, <1>19, <1>20, ClosingKeepsInv

-----------------------------------------------------------------------------
(* Steps that write the Evidence of checks or the ledger. *)

(* What closing a check leaves in memory.                                     *)
LEMMA ClosedCheck ==
  ASSUME CallsTyped, NEW c \in Callers, CallSound(calls[c]), CheckCloses(c)
  PROVE  \E script \in Observation, call \in Call :
           /\ checks' = [checks EXCEPT ![RoleRunOf(c)] = @ \cup {script}]
           /\ Continue(c, call)
           /\ call.step \in {"check", "run"} /\ (call.step = "check" => call.left # 0)
           /\ call.outcomes = calls[c].outcomes \cup {OutcomeOf(script)}
           /\ call.request = calls[c].request /\ call.tool = calls[c].tool
           /\ call.collected = calls[c].collected /\ call.settled = calls[c].settled
           /\ call.unknown = calls[c].unknown
<1>1. calls[c] \in Call /\ calls[c].step = "check" /\ calls[c].left # 0
  BY CallFields DEF CheckCloses, Checking, CallSound, CallRemembers
<1>2. PICK script : script = calls[c].script
  OBVIOUS
<1>3. script \in Observation
  BY <1>1, <1>2 DEF Call, CheckCloses, ScriptRuns, Script, Observation, Exits
<1>4. PICK left, step : left = calls[c].left - 1 /\ step = IF left = 0 THEN "run" ELSE "check"
  OBVIOUS
<1>5. left \in 0..RequiredChecks /\ step \in {"check", "run"} /\ (step = "check" => left # 0)
  <2>1. calls[c].left \in 0..RequiredChecks /\ RequiredChecks \in Nat
    BY <1>1, ExecutionAssumption DEF Call
  <2> QED BY <1>1, <1>4, <2>1
<1>6. PICK outcomes : outcomes = calls[c].outcomes \cup {OutcomeOf(script)}
  OBVIOUS
<1>7. outcomes \subseteq Outcomes
  BY <1>1, <1>6 DEF Call, OutcomeOf, Outcomes
<1>8. PICK call : call = [calls[c] EXCEPT !.script = Nil, !.left = left, !.outcomes = outcomes,
                                          !.step = step]
  OBVIOUS
<1>9. call \in Call
  BY <1>1, <1>5, <1>7, <1>8 DEF Call, Steps
<1>10. /\ call.step = step /\ call.left = left /\ call.outcomes = outcomes
       /\ call.request = calls[c].request /\ call.tool = calls[c].tool
       /\ call.collected = calls[c].collected /\ call.settled = calls[c].settled
       /\ call.unknown = calls[c].unknown
  BY <1>1, <1>8 DEF Call
<1>11. Continue(c, call)
  BY <1>1, <1>2, <1>4, <1>6, <1>8 DEF CheckCloses, Call
<1>12. checks' = [checks EXCEPT ![RoleRunOf(c)] = @ \cup {script}]
  BY <1>2 DEF CheckCloses
<1> QED BY <1>3, <1>5, <1>6, <1>9, <1>10, <1>11, <1>12

(* A check closes: its Evidence is stored.                                   *)
LEMMA CheckClosesKeepsInv ==
  ASSUME ExecutionTypeOK, SchemaChecks, ExecutionInv, NEW c \in Callers, CheckCloses(c)
  PROVE  ExecutionInv' /\ CallsTyped' /\ VersionsTyped' /\ StoresTyped'
<1>1. TypeOK /\ CallsTyped /\ VersionsTyped /\ StoresTyped
  BY ExecutionTypeParts
<1>2. calls[c].step = "check" /\ Acts(calls[c])
  BY DEF CheckCloses, Checking, Acts, StatusFor
<1>3. PICK x \in RoleRuns : x = RoleRunOf(c)
  BY <1>1, <1>2, Sender
<1>4. CallSound(calls[c]) /\ calls[c].request # Nil
  BY <1>1, <1>2, Sender
<1>5. PICK script \in Observation, call \in Call :
        /\ checks' = [checks EXCEPT ![x] = @ \cup {script}]
        /\ Continue(c, call)
        /\ call.step \in {"check", "run"} /\ (call.step = "check" => call.left # 0)
        /\ call.outcomes = calls[c].outcomes \cup {OutcomeOf(script)}
        /\ call.request = calls[c].request /\ call.tool = calls[c].tool
        /\ call.collected = calls[c].collected /\ call.settled = calls[c].settled
        /\ call.unknown = calls[c].unknown
  BY <1>1, <1>3, <1>4, ClosedCheck
<1>6. UNCHANGED <<vars, versions, commands, refs>> /\ UnchangedLedger
  BY DEF CheckCloses
<1>7. /\ call.step = "idle" <=> call.request = Nil
      /\ Acts(call)
  BY <1>4, <1>5 DEF Acts, StatusFor
<1>8. CallsTyped' /\ calls'[c] = call
  BY <1>1, <1>5, <1>7, CallWritten
<1>9. /\ checks'[x] = checks[x] \cup {script}
      /\ \A y \in RoleRuns : y # x => checks'[y] = checks[y]
      /\ checks' \in [RoleRuns -> SUBSET Observation]
  BY <1>1, <1>3, <1>5 DEF StoresTyped
<1>10. VersionsTyped' /\ StoresTyped'
  BY <1>1, <1>6, <1>9, VersionsKept DEF StoresTyped, UnchangedLedger
<1>11. roleRuns[x].status = "running"
  BY <1>2, <1>3, <1>4 DEF CallSound, CallHolds, Acts, StatusFor, RoleRunOf
<1>12. CallSound(calls[c])'
  <2>1. CallHolds(calls[c])'
    BY <1>3, <1>5, <1>6, <1>8, <1>11 DEF CallHolds, StatusFor, RoleRunOf, vars
  <2>2. CallRemembers(calls[c])'
    BY <1>2, <1>4, <1>5, <1>8 DEF CallSound, CallRemembers
  <2>3. CallCollects(calls[c])'
    BY <1>4, <1>5, <1>6, <1>8 DEF CallSound, CallCollects, UnchangedLedger
  <2>4. calls[c].outcomes = {OutcomeOf(o) : o \in checks[x]}
    BY <1>2, <1>3, <1>4 DEF CallSound, CallChecks, RoleRunOf
  <2>5. call.outcomes = {OutcomeOf(o) : o \in checks'[x]}
    BY <1>5, <1>9, <2>4
  <2>6. CallChecks(calls[c])'
    BY <1>3, <1>5, <1>8, <2>5 DEF CallChecks, RoleRunOf
  <2>7. CallAsks(calls[c])'
    BY <1>2, <1>4, <1>5, <1>6, <1>8 DEF CallSound, CallAsks, Registered, vars
  <2>8. \A k \in Operations \ lost' : CallSees(calls[c], k)'
    BY <1>2, <1>4, <1>5, <1>6, <1>7, <1>8 DEF CallSound, CallSees, UnchangedLedger, Acts, StatusFor
  <2> QED BY <2>1, <2>2, <2>3, <2>6, <2>7, <2>8 DEF CallSound
<1>13. /\ \A d \in Callers : d # c => CallSound(calls[d])'
       /\ OneActor'
  <2>1. /\ \A y \in RoleRuns : y # RoleRunOf(c) =>
             roleRuns'[y].status = roleRuns[y].status /\ checks'[y] = checks[y]
        /\ \A y \in RoleRuns : commands[y].prepare # Nil =>
             commands'[y].prepare = commands[y].prepare
        /\ Registered \subseteq Registered'
    BY <1>3, <1>6, <1>9 DEF vars, Registered
  <2>2. Acts(call) => call.request = calls[c].request
    BY <1>5
  <2> QED BY <1>1, <1>2, <1>5, <1>6, <1>7, <2>1, <2>2, OthersStaySound
<1>14. \A d \in Callers : CallSound(calls[d])'
  BY <1>12, <1>13
<1>15. \A k \in Operations \ lost' : OperationSound(k)'
  BY <1>6 DEF ExecutionInv, OperationSound, vars, UnchangedLedger
<1>16. ASSUME NEW y \in RoleRuns
       PROVE  RefsSound(y)' /\ RoleRunSound(y)' /\ RowsStay(y)'
  <2>1. RefsSound(y) /\ RoleRunSound(y) /\ RowsStay(y)
    BY DEF ExecutionInv
  <2>2. RefsSound(y)'
    BY <1>6, <2>1 DEF RefsSound, Over, vars, UnchangedLedger
  <2>3. RoleRunSound(y)'
    BY <1>6, <1>9, <1>11, <2>1 DEF RoleRunSound, Registered, vars
  <2>4. RowsStay(y)'
    BY <1>6, <2>1 DEF RowsStay, vars
  <2> QED BY <2>2, <2>3, <2>4
<1>17. PassesAreChecked'
  <2>1. roleRuns[x].outcome # "succeeded"
    BY <1>11 DEF SchemaChecks
  <2>2. \A y \in RoleRuns : roleRuns[y].outcome = "succeeded" =>
          roleRuns'[y] = roleRuns[y] /\ checks'[y] = checks[y]
    BY <1>6, <1>9, <2>1 DEF vars
  <2> QED BY <1>6, <2>2, PassesStay DEF ExecutionInv, vars
<1>18. ExecutionInv'
  BY <1>13, <1>14, <1>15, <1>16, <1>17 DEF ExecutionInv
<1> QED BY <1>8, <1>10, <1>18

(* A tool call whose answer is lost is one no other call has been told of.    *)
LEMMA ToolRejectsKeepsInv ==
  ASSUME ExecutionTypeOK, SchemaChecks, ExecutionInv, NEW c \in Callers, ToolRejects(c)
  PROVE  ExecutionInv' /\ CallsTyped' /\ VersionsTyped' /\ StoresTyped'
<1>1. TypeOK /\ CallsTyped /\ VersionsTyped /\ StoresTyped
  BY ExecutionTypeParts
<1>2. PICK k : k = calls[c].tool
  OBVIOUS
<1>3. /\ k # Nil /\ Continue(c, [calls[c] EXCEPT !.tool = Nil]) /\ lost' = lost \cup {k}
      /\ UNCHANGED <<vars, versions, commands, refs, checks, operations, dispatched>>
  BY <1>2 DEF ToolRejects
<1>4. /\ calls[c] \in Call /\ k \in Operations /\ CallSound(calls[c])
  BY <1>1, <1>2, <1>3, CallFields DEF ExecutionInv
<1>5. /\ calls[c].step = "run" /\ Acts(calls[c]) /\ OwnerOf[k] = calls[c].request.roleRun
      /\ k \notin calls[c].collected
  BY <1>2, <1>3, <1>4 DEF CallSound, CallRemembers, Acts, StatusFor
<1>6. calls[c].request # Nil /\ RoleRunOf(c) \in RoleRuns
  BY <1>1, <1>5, Sender
<1>7. PICK call : call = [calls[c] EXCEPT !.tool = Nil]
  OBVIOUS
<1>8. /\ call \in Call /\ call.step = "run" /\ call.request = calls[c].request /\ call.tool = Nil
      /\ call.collected = calls[c].collected /\ call.settled = calls[c].settled
      /\ call.unknown = calls[c].unknown /\ call.outcomes = calls[c].outcomes
  BY <1>4, <1>5, <1>7 DEF Call
<1>9. /\ CallsTyped' /\ calls'[c] = call /\ \A d \in Callers : d # c => calls'[d] = calls[d]
  BY <1>1, <1>3, <1>6, <1>7, <1>8, CallWritten
<1>10. VersionsTyped' /\ StoresTyped'
  BY <1>1, <1>3, <1>4, VersionsKept DEF StoresTyped
<1>11. roleRuns[OwnerOf[k]].status = "running"
  BY <1>4, <1>5 DEF CallSound, CallHolds, StatusFor, Acts
<1>12. CallSound(calls[c])'
  <2>1. CallHolds(calls[c])'
    BY <1>3, <1>4, <1>5, <1>8, <1>9 DEF CallSound, CallHolds, StatusFor, Acts, vars
  <2>2. CallRemembers(calls[c])'
    BY <1>4, <1>5, <1>8, <1>9 DEF CallSound, CallRemembers
  <2>3. CallCollects(calls[c])'
    BY <1>3, <1>4, <1>5, <1>8, <1>9 DEF CallSound, CallCollects
  <2>4. CallChecks(calls[c])'
    BY <1>3, <1>4, <1>5, <1>8, <1>9 DEF CallSound, CallChecks, Acts, StatusFor
  <2>5. CallAsks(calls[c])'
    BY <1>3, <1>4, <1>5, <1>8, <1>9 DEF CallSound, CallAsks, Registered, vars
  <2>6. ASSUME NEW o \in Operations \ lost'
        PROVE  CallSees(calls[c], o)'
    <3>1. o \notin lost /\ o # calls[c].tool
      BY <1>2, <1>3
    <3> QED BY <1>3, <1>4, <1>5, <1>8, <1>9, <3>1 DEF CallSound, CallSees, Acts, StatusFor
  <2> QED BY <2>1, <2>2, <2>3, <2>4, <2>5, <2>6 DEF CallSound
<1>13. ASSUME NEW d \in Callers, d # c
       PROVE  CallSound(calls[d])'
  <2>1. PICK old : old = calls[d]
    OBVIOUS
  <2>2. CallSound(old) /\ calls'[d] = old
    BY <1>9, <1>13, <2>1 DEF ExecutionInv
  <2>3. Acts(old) => OwnerOf[k] # old.request.roleRun
    BY <1>5, <1>13, <2>1 DEF ExecutionInv, OneActor, RoleRunOf
  <2>4. k \notin old.collected /\ (old.tool # Nil => old.tool # k)
    <3>1. old.collected # {} \/ old.tool # Nil => Acts(old)
      <4>1. old.step \in Steps
        BY <1>1, <2>1, CallFields
      <4> QED BY <2>2, <4>1 DEF CallSound, CallRemembers, Acts, StatusFor, Steps
    <3> QED BY <2>2, <2>3, <3>1 DEF CallSound, CallRemembers, CallCollects
  <2>5. CallHolds(calls[d])'
    BY <1>3, <2>2 DEF CallSound, CallHolds, Acts, StatusFor, vars
  <2>6. CallRemembers(calls[d])'
    BY <2>2 DEF CallSound, CallRemembers, Sealable
  <2>7. CallCollects(calls[d])'
    BY <1>3, <2>2, <2>4 DEF CallSound, CallCollects
  <2>8. CallChecks(calls[d])'
    BY <1>3, <2>2 DEF CallSound, CallChecks, Acts
  <2>9. CallAsks(calls[d])'
    BY <1>3, <2>2 DEF CallSound, CallAsks, Registered, vars
  <2>10. \A o \in Operations \ lost' : CallSees(calls[d], o)'
    BY <1>3, <2>2 DEF CallSound, CallSees, Acts
  <2> QED BY <2>5, <2>6, <2>7, <2>8, <2>9, <2>10 DEF CallSound
<1>14. \A d \in Callers : CallSound(calls[d])'
  BY <1>12, <1>13
<1>15. OneActor'
  <2>1. \A d \in Callers : /\ Acts(calls'[d]) => Acts(calls[d])
                           /\ calls'[d].request = calls[d].request
    BY <1>5, <1>8, <1>9
  <2> QED BY <2>1 DEF ExecutionInv, OneActor, RoleRunOf, Acts
<1>16. \A o \in Operations \ lost' : OperationSound(o)'
  BY <1>3 DEF ExecutionInv, OperationSound, vars
<1>17. ASSUME NEW y \in RoleRuns
       PROVE  RefsSound(y)' /\ RoleRunSound(y)' /\ RowsStay(y)'
  <2>1. RefsSound(y) /\ RoleRunSound(y) /\ RowsStay(y)
    BY DEF ExecutionInv
  <2>2. k \notin refs[y]
    BY <1>11, <2>1 DEF RefsSound, Over
  <2>3. RefsSound(y)'
    BY <1>3, <2>1, <2>2 DEF RefsSound, Over, vars
  <2>4. RoleRunSound(y)'
    BY <1>3, <2>1 DEF RoleRunSound, Registered, vars
  <2>5. RowsStay(y)'
    BY <1>3, <2>1 DEF RowsStay, vars
  <2> QED BY <2>3, <2>4, <2>5
<1>18. PassesAreChecked'
  BY <1>3 DEF ExecutionInv, PassesAreChecked, CheckedBy, vars
<1>19. ExecutionInv'
  BY <1>14, <1>15, <1>16, <1>17, <1>18 DEF ExecutionInv
<1> QED BY <1>9, <1>10, <1>19

(* What the gateway writes: an Operation that has no outcome yet, and none     *)
(* that no call awaits before it is permitted or denied.                      *)
LedgerWrites(k, status) ==
  /\ operations' = [operations EXCEPT ![k] = status]
  /\ dispatched' \in [Operations -> BOOLEAN]
  /\ status \in OperationStatus /\ status # "none" /\ operations[k] \notin Final
  /\ operations[k] = "none" => \E c \in Callers : calls[c].tool = k
  /\ operations[k] = "unknown" => status \in Final

(* Every step of the gateway is such a write.                                *)
LEMMA GatewayWrites ==
  ASSUME StoresTyped, NEW k \in Operations, GatewayStep(k)
  PROVE  \E status : LedgerWrites(k, status)
<1>1. dispatched \in [Operations -> BOOLEAN]
  BY DEF StoresTyped
<1>2. CASE (\E c \in Callers : calls[c].tool = k) /\ Ledger!Permit(k)
  <2>1. LedgerWrites(k, "authorized")
    BY <1>1, <1>2 DEF Ledger!Permit, LedgerWrites, OperationStatus, Final
  <2> QED BY <2>1
<1>3. CASE (\E c \in Callers : calls[c].tool = k) /\ Ledger!Deny(k)
  <2>1. LedgerWrites(k, "denied")
    BY <1>1, <1>3 DEF Ledger!Deny, LedgerWrites, OperationStatus, Final
  <2> QED BY <2>1
<1>4. CASE Ledger!Dispatch(k)
  <2>1. LedgerWrites(k, "executing")
    BY <1>1, <1>4 DEF Ledger!Dispatch, LedgerWrites, OperationStatus, Final
  <2> QED BY <2>1
<1>5. CASE Ledger!Withdraw(k)
  <2>1. LedgerWrites(k, "failed")
    BY <1>1, <1>5 DEF Ledger!Withdraw, LedgerWrites, OperationStatus, Final
  <2> QED BY <2>1
<1>6. CASE Ledger!LoseTrack(k)
  <2>1. LedgerWrites(k, "unknown")
    BY <1>1, <1>6 DEF Ledger!LoseTrack, LedgerWrites, OperationStatus, Final
  <2> QED BY <2>1
<1>7. CASE \E outcome \in {"failed", "succeeded"} : Ledger!Settle(k, outcome)
  <2>1. PICK outcome \in {"failed", "succeeded"} : Ledger!Settle(k, outcome)
    BY <1>7
  <2>2. LedgerWrites(k, outcome)
    BY <1>1, <2>1 DEF Ledger!Settle, LedgerWrites, OperationStatus, Final
  <2> QED BY <2>2
<1> QED BY <1>2, <1>3, <1>4, <1>5, <1>6, <1>7 DEF GatewayStep

(* The gateway permits, denies, dispatches, withdraws, loses or settles an   *)
(* Operation.                                                                *)
LEMMA GatewayKeepsInv ==
  ASSUME ExecutionTypeOK, ExecutionInv, NEW k \in Operations, GatewayStep(k)
  PROVE  ExecutionInv' /\ CallsTyped' /\ VersionsTyped' /\ StoresTyped'
<1>1. TypeOK /\ CallsTyped /\ VersionsTyped /\ StoresTyped
  BY ExecutionTypeParts
<1>2. PICK status : LedgerWrites(k, status)
  BY <1>1, GatewayWrites
<1>3. /\ UNCHANGED <<vars, versions, commands, calls, refs, checks, lost>>
  BY DEF GatewayStep
<1>4. /\ operations'[k] = status /\ \A o \in Operations : o # k => operations'[o] = operations[o]
      /\ operations' \in [Operations -> OperationStatus]
  BY <1>1, <1>2 DEF LedgerWrites, StoresTyped
<1>5. CallsTyped' /\ VersionsTyped' /\ StoresTyped'
  BY <1>1, <1>2, <1>3, <1>4 DEF CallsTyped, VersionsTyped, StoresTyped, LedgerWrites
<1>6. \A o \in Operations : /\ operations[o] # "none" => operations'[o] # "none"
                            /\ operations[o] \in Final => operations'[o] = operations[o]
                            /\ operations[o] = "unknown" =>
                                 operations'[o] = "unknown" \/ operations'[o] \in Final
  BY <1>2, <1>4 DEF LedgerWrites
<1>7. ASSUME NEW c \in Callers, calls[c].tool = k
      PROVE  /\ calls[c].step = "run" /\ RoleRunOf(c) = OwnerOf[k] /\ Acts(calls[c])
             /\ roleRuns[OwnerOf[k]].status = "running"
  <2>1. k # Nil
    BY ExecutionAssumption
  <2>2. CallRemembers(calls[c]) /\ CallHolds(calls[c])
    BY DEF ExecutionInv, CallSound
  <2> QED BY <1>7, <2>1, <2>2 DEF CallRemembers, CallHolds, Acts, StatusFor, RoleRunOf
<1>8. ASSUME NEW d \in Callers
      PROVE  CallSound(calls[d])'
  <2>1. CallSound(calls[d])
    BY DEF ExecutionInv
  <2>2. CallHolds(calls[d])' /\ CallRemembers(calls[d])' /\ CallChecks(calls[d])'
    BY <1>3, <2>1 DEF CallSound, CallHolds, CallRemembers, CallChecks, Acts, StatusFor, vars,
       Sealable
  <2>3. CallAsks(calls[d])'
    BY <1>3, <2>1 DEF CallSound, CallAsks, Registered, vars
  <2>4. CallCollects(calls[d])'
    <3>1. calls[d].collected \subseteq Operations /\ calls[d].settled \subseteq Operations
      BY <1>1, CallFields
    <3>2. \A o \in calls[d].collected :
            o \notin lost /\ operations'[o] # "none" /\ OwnerOf[o] = calls[d].request.roleRun
      BY <1>6, <2>1, <3>1 DEF CallSound, CallCollects
    <3>3. \A o \in calls[d].settled :
            operations'[o] \in Final \/ (operations'[o] = "unknown" /\ calls[d].unknown)
      BY <1>6, <2>1, <3>1 DEF CallSound, CallCollects
    <3> QED BY <1>3, <2>1, <3>2, <3>3 DEF CallSound, CallCollects
  <2>5. ASSUME NEW o \in Operations \ lost
        PROVE  CallSees(calls[d], o)'
    <3>1. CallSees(calls[d], o)
      BY <2>1 DEF CallSound
    <3>2. CASE o # k
      BY <1>3, <1>4, <3>1, <3>2 DEF CallSees, Acts
    <3>3. CASE o = k /\ operations[k] # "none"
      BY <1>2, <1>3, <3>1, <3>3 DEF CallSees, Acts, LedgerWrites
    <3>4. CASE o = k /\ operations[k] = "none"
      <4>1. PICK c \in Callers : calls[c].tool = k
        BY <1>2, <3>4 DEF LedgerWrites
      <4>2. Acts(calls[d]) /\ OwnerOf[k] = RoleRunOf(d) => d = c
        BY <1>7, <4>1 DEF ExecutionInv, OneActor
      <4> QED BY <1>3, <1>7, <3>4, <4>1, <4>2 DEF CallSees, Acts, RoleRunOf
    <3> QED BY <3>2, <3>3, <3>4
  <2> QED BY <1>3, <2>2, <2>3, <2>4, <2>5 DEF CallSound
<1>9. OneActor'
  BY <1>3 DEF ExecutionInv, OneActor, RoleRunOf, Acts
<1>10. ASSUME NEW o \in Operations \ lost
       PROVE  OperationSound(o)'
  <2>1. OperationSound(o)
    BY DEF ExecutionInv
  <2>2. CASE operations[o] # "none"
    BY <1>3, <1>6, <2>1, <2>2 DEF OperationSound, vars
  <2>3. CASE operations[o] = "none" /\ o # k
    BY <1>4, <2>3 DEF OperationSound
  <2>4. CASE operations[o] = "none" /\ o = k
    <3>1. roleRuns[OwnerOf[k]].status = "running"
      BY <1>2, <1>7, <2>4 DEF LedgerWrites
    <3> QED BY <1>3, <2>4, <3>1 DEF OperationSound, vars
  <2> QED BY <2>2, <2>3, <2>4
<1>11. ASSUME NEW x \in RoleRuns
       PROVE  RefsSound(x)' /\ RoleRunSound(x)' /\ RowsStay(x)'
  <2>1. RefsSound(x) /\ RoleRunSound(x) /\ RowsStay(x)
    BY DEF ExecutionInv
  <2>2. refs[x] \subseteq Operations
    BY <1>1 DEF StoresTyped
  <2>3. RefsSound(x)'
    BY <1>3, <1>6, <2>1, <2>2 DEF RefsSound, Over, vars
  <2>4. RoleRunSound(x)'
    BY <1>3, <2>1 DEF RoleRunSound, Registered, vars
  <2>5. RowsStay(x)'
    BY <1>3, <2>1 DEF RowsStay, vars
  <2> QED BY <2>3, <2>4, <2>5
<1>12. PassesAreChecked'
  BY <1>3 DEF ExecutionInv, PassesAreChecked, CheckedBy, vars
<1>13. ExecutionInv'
  BY <1>3, <1>8, <1>9, <1>10, <1>11, <1>12 DEF ExecutionInv
<1> QED BY <1>5, <1>13

-----------------------------------------------------------------------------
(* What happens elsewhere. *)

(* Once people stop a Run, send its Task back or accept it, no RoleRun of it  *)
(* is both open and in an active Run.  Revoking another Task's Approval does  *)
(* none of this.                                                              *)
LEMMA OthersStopWork ==
  ASSUME TypeOK, PhaseInv, OtherCommand, NEW x \in RoleRuns, Unsettled(roleRuns[x].status),
         ~UNCHANGED <<task, runs>>
  PROVE  runs'[roleRuns[x].run].status # "active"
<1>1. PICK r \in Runs : \/ CancelIdleRun(r)
                        \/ CancelBusyRun(r)
                        \/ FinishCancelledStop(r)
                        \/ \E a \in Approvals : \/ InvalidateDuringRun(a, "revoked", r)
                                               \/ InvalidateElsewhere(a, "revoked")
                        \/ \E e, v \in Artifacts : \/ ReworkImplementation(r, e, v)
                                                   \/ AcceptDelivery(r, e, v)
  BY DEF OtherCommand
<1>2. \A a \in Approvals : ~InvalidateElsewhere(a, "revoked")
  BY DEF InvalidateElsewhere
<1>3. PICK s \in Runs : s = roleRuns[x].run
  BY OpenRoleRun
<1>4. s \in UnsettledRuns /\ x \in UnsettledRoleRuns(s)
  BY <1>3, OpenRoleRun
<1>5. r \in UnsettledRuns => r = s
  BY <1>4 DEF PhaseInv, OneActiveRole
<1>6. r \in UnsettledRuns
  BY <1>1, <1>2 DEF CancelIdleRun, CancelBusyRun, FinishCancelledStop, StopSettles, StopIsDone,
     InvalidateDuringRun, StoppedByInvalidation, ReworkImplementation, AcceptDelivery,
     AcceptableResults, UnsettledRuns, Unsettled
<1>7. r = s /\ x \in UnsettledRoleRuns(r)
  BY <1>4, <1>5, <1>6
<1>8. ~CancelIdleRun(r) /\ ~FinishCancelledStop(r)
  BY <1>7 DEF CancelIdleRun, FinishCancelledStop, StopSettles, StopIsDone
<1>9. \A e, v \in Artifacts : ~AcceptDelivery(r, e, v)
  BY <1>7 DEF AcceptDelivery
<1>10. \A e, v \in Artifacts : ~ReworkImplementation(r, e, v)
  BY <1>7 DEF ReworkImplementation, AcceptableResults, PhaseInv, OneActiveRole, PhaseOf
<1>11. CancelBusyRun(r) \/ \E a \in Approvals : InvalidateDuringRun(a, "revoked", r)
  BY <1>1, <1>8, <1>9, <1>10, <1>2
<1>12. runs' = [runs EXCEPT ![r] = RunStopping(r, "cancelled")]
       \/ runs' = [runs EXCEPT ![r] = RunStopping(r, "superseded")]
  BY <1>11 DEF CancelBusyRun, InvalidateDuringRun
<1>13. runs'[r].status = "stopping"
  BY <1>1, <1>12, RunFields DEF TypeOK
<1> QED BY <1>3, <1>7, <1>13

(* Of passes, others only accept one that is stored.                          *)
LEMMA OthersWriteTask ==
  ASSUME TypeOK, SchemaChecks, PhaseInv, OtherCommand
  PROVE  /\ UNCHANGED <<roleRuns, artifacts>>
         /\ \/ UNCHANGED task
            \/ /\ task'.status # "awaiting_acceptance"
               /\ task'.outcome = "completed" =>
                    /\ task'.verification \in Artifacts
                    /\ artifacts[task'.verification].verdict = "pass"
<1>1. PICK r \in Runs : \/ CancelIdleRun(r)
                        \/ CancelBusyRun(r)
                        \/ FinishCancelledStop(r)
                        \/ \E a \in Approvals : \/ InvalidateDuringRun(a, "revoked", r)
                                               \/ InvalidateElsewhere(a, "revoked")
                        \/ \E e, v \in Artifacts : \/ ReworkImplementation(r, e, v)
                                                   \/ AcceptDelivery(r, e, v)
  BY DEF OtherCommand
<1>2. CASE CancelIdleRun(r) \/ FinishCancelledStop(r)
  BY <1>2, TaskFields DEF CancelIdleRun, FinishCancelledStop, StopSettles
<1>3. CASE CancelBusyRun(r)
  BY <1>3, TaskFields DEF CancelBusyRun, SchemaChecks
<1>4. CASE \E a \in Approvals : InvalidateElsewhere(a, "revoked")
  BY <1>4 DEF InvalidateElsewhere, Invalidate
<1>5. CASE \E a \in Approvals : InvalidateDuringRun(a, "revoked", r)
  <2>1. PICK a \in Approvals : InvalidateDuringRun(a, "revoked", r)
    BY <1>5
  <2> QED BY <2>1, TaskFields DEF InvalidateDuringRun, Invalidate, SchemaChecks
<1>6. CASE \E e, v \in Artifacts : ReworkImplementation(r, e, v)
  <2>1. PICK e \in Artifacts, v \in Artifacts : ReworkImplementation(r, e, v)
    BY <1>6
  <2> QED BY <2>1, TaskFields DEF ReworkImplementation, AcceptableResults, SchemaChecks
<1>7. CASE \E e, v \in Artifacts : AcceptDelivery(r, e, v)
  <2>1. PICK e \in Artifacts, v \in Artifacts : AcceptDelivery(r, e, v)
    BY <1>7
  <2>2. task' = TaskClosed("completed", e, v) /\ artifacts[v] = VerificationResult(r, e, "pass")
    BY <2>1 DEF AcceptDelivery, AcceptableResults
  <2>3. task'.verification = v /\ task'.status = "closed"
    BY <2>2 DEF TypeOK, Task, TaskClosed, TaskMoved
  <2>4. artifacts[v].verdict = "pass"
    BY <2>2 DEF VerificationResult
  <2> QED BY <2>1, <2>3, <2>4 DEF AcceptDelivery
<1> QED BY <1>1, <1>2, <1>3, <1>4, <1>5, <1>6, <1>7

(* People and the clock: whatever writes the Task or its Run stops the Run.   *)
LEMMA ElsewhereKeepsInv ==
  ASSUME ExecutionTypeOK, SchemaChecks, PhaseInv, ExecutionInv, Elsewhere
  PROVE  ExecutionInv' /\ CallsTyped' /\ VersionsTyped' /\ StoresTyped'
<1>1. TypeOK /\ CallsTyped /\ VersionsTyped /\ StoresTyped
  BY ExecutionTypeParts
<1>2. UNCHANGED <<commands, calls, refs, checks>> /\ UnchangedLedger /\ Versioned
  BY DEF Elsewhere
<1>3. CallsTyped' /\ VersionsTyped' /\ StoresTyped'
  BY <1>1, <1>2, VersionsKept DEF CallsTyped, StoresTyped, UnchangedLedger
<1>4. /\ artifacts' = artifacts
      /\ \A x \in RoleRuns :
           /\ roleRuns'[x].status = roleRuns[x].status /\ roleRuns'[x].run = roleRuns[x].run
           /\ roleRuns'[x].output = roleRuns[x].output /\ roleRuns'[x].role = roleRuns[x].role
           /\ roleRuns'[x].outcome = roleRuns[x].outcome
  <2>1. CASE OtherCommand
    BY <1>1, <2>1, OthersWriteTask
  <2>2. CASE \E x \in RoleRuns : LeaseExpires(x)
    BY <1>1, <2>2 DEF LeaseExpires, TypeOK, RoleRun
  <2> QED BY <2>1, <2>2 DEF Elsewhere
<1>5. Registered' = Registered
  BY <1>4 DEF Registered
<1>6. ASSUME NEW d \in Callers
      PROVE  CallSound(calls[d])'
  <2>1. PICK old : old = calls[d]
    OBVIOUS
  <2>2. CallSound(old) /\ calls'[d] = old
    BY <1>2, <2>1 DEF ExecutionInv
  <2>3. Acts(old) => old.request.roleRun \in RoleRuns
    BY <1>1, <2>1, CallFields DEF RoleRunOf, Acts, StatusFor
  <2> QED BY <1>2, <1>4, <1>5, <2>1, <2>2, <2>3, CallStaysSound
<1>7. OneActor'
  BY <1>2 DEF ExecutionInv, OneActor, RoleRunOf, Acts
<1>8. ASSUME NEW k \in Operations \ lost
      PROVE  OperationSound(k)'
  <2>1. OwnerOf[k] \in RoleRuns /\ OperationSound(k)
    BY ExecutionAssumption DEF ExecutionInv
  <2> QED BY <1>2, <1>4, <2>1 DEF OperationSound, UnchangedLedger
<1>9. ASSUME NEW x \in RoleRuns
      PROVE  RefsSound(x)' /\ RoleRunSound(x)' /\ RowsStay(x)'
  <2>1. RefsSound(x) /\ RoleRunSound(x) /\ RowsStay(x)
    BY DEF ExecutionInv
  <2>2. RefsSound(x)'
    BY <1>2, <1>4, <2>1 DEF RefsSound, Over, UnchangedLedger
  <2>3. RoleRunSound(x)'
    BY <1>2, <1>4, <1>5, <2>1 DEF RoleRunSound
  <2>4. RowsStay(x)'
    <3>1. CASE UNCHANGED <<task, runs>>
      <4>1. roleRuns[x].status \in {"starting", "running", "settling"} => roleRuns[x].run \in Runs
        BY DEF PhaseInv, RoleRunsBelong
      <4> QED BY <1>1, <1>2, <1>4, <2>1, <3>1, <4>1, RowsStayUnwritten
    <3>2. CASE OtherCommand /\ ~UNCHANGED <<task, runs>>
      BY <1>1, <1>4, <3>2, OthersStopWork DEF RowsStay, Unsettled
    <3> QED BY <3>1, <3>2 DEF Elsewhere, LeaseExpires
  <2> QED BY <2>2, <2>3, <2>4
<1>10. PassesAreChecked'
  <2>1. \A v \in Artifacts : artifacts'[v].verdict = "pass" => \E x \in RoleRuns : CheckedBy(v, x)'
    BY <1>2, <1>4 DEF ExecutionInv, PassesAreChecked, CheckedBy
  <2>2. task'.status = "awaiting_acceptance" \/ task'.outcome = "completed" =>
          task'.verification \in Artifacts /\ artifacts[task'.verification].verdict = "pass"
    <3>1. CASE UNCHANGED task
      BY <3>1 DEF ExecutionInv, PassesAreChecked
    <3>2. CASE OtherCommand /\ ~UNCHANGED task
      BY <1>1, <3>2, OthersWriteTask
    <3> QED BY <3>1, <3>2 DEF Elsewhere, LeaseExpires
  <2> QED BY <1>4, <2>1, <2>2 DEF PassesAreChecked
<1>11. ExecutionInv'
  BY <1>2, <1>6, <1>7, <1>8, <1>9, <1>10 DEF ExecutionInv, UnchangedLedger
<1> QED BY <1>3, <1>11

-----------------------------------------------------------------------------
(* The inductive invariant of the coordinator and the control plane together. *)

ControlInv ==
  /\ SchemaChecks /\ PhaseInv /\ RoleRunsAreOrdered
  /\ RunRestsOnEffectiveApprovals /\ DecisionsAreSound /\ BoundInv
  /\ SessionIsFenced /\ CompletionIsEarned

CoordinatorInv == ExecutionTypeOK /\ ControlInv /\ ExecutionInv

(* An authorized Run before any RoleRun.                                      *)
LEMMA InitTypes ==
  ASSUME ExecutionInit
  PROVE  ExecutionTypeOK
<1>1. PICK r \in Runs, c \in Contexts, t \in Trds,
           others \in SUBSET OtherApprovals, decisions \in SUBSET Decision :
        AuthorizedRun(r, c, t, others, decisions)
  BY DEF ExecutionInit
<1>2. task \in Task
  BY <1>1 DEF AuthorizedRun, Task, TaskStatus, ResumeStatus
<1>3. approvals \in [Approvals -> Approval]
  <2>1. /\ Approved("trd_approval", t, decisions) \in Approval
        /\ Approved("run_authorization", r, decisions) \in Approval
    BY ExecutionAssumption DEF Approved, Approval, ApprovalStatus, Gates
  <2>2. NoApproval \in Approval
    BY DEF NoApproval, Approval
  <2>3. \A a \in Approvals :
          approvals[a] \in {Approved("trd_approval", t, decisions),
                            Approved("run_authorization", r, decisions), NoApproval}
    BY <1>1 DEF AuthorizedRun
  <2>4. \A a \in Approvals : approvals[a] \in Approval
    BY <2>1, <2>2, <2>3
  <2>5. approvals = [a \in Approvals |-> approvals[a]]
    BY <1>1 DEF AuthorizedRun
  <2> QED BY <2>4, <2>5
<1>4. runs \in [Runs -> Run]
  <2>1. PICK row : row = [status |-> "authorized", outcome |-> "none", pending |-> "none",
          resume |-> "none", authorization |-> RunApproval,
          prerequisites |-> {DesignApproval} \cup others, context |-> c, trd |-> t]
    OBVIOUS
  <2>2. row \in Run
    BY <2>1, ExecutionAssumption, OwnerAssumption DEF Run, RunStatus, OwnApprovals
  <2>3. NoRun \in Run
    BY DEF NoRun, Run
  <2> QED BY <1>1, <2>1, <2>2, <2>3 DEF AuthorizedRun
<1>5. roleRuns \in [RoleRuns -> RoleRun] /\ artifacts \in [Artifacts -> Artifact]
      /\ grants \in SUBSET Grant
  BY DEF ExecutionInit, NoRoleRun, RoleRun, NoContent, Artifact
<1>6. outbox \in SUBSET Event
  <2>1. \A a \in {DesignApproval, RunApproval} \cup others :
          [type |-> "approval.requested", id |-> a, delivered |-> TRUE] \in Event
    BY ExecutionAssumption, OwnerAssumption DEF Event, EventTypes, OwnApprovals
  <2>2. outbox = {[type |-> "approval.requested", id |-> a, delivered |-> TRUE] :
                    a \in {DesignApproval, RunApproval} \cup others}
    BY <1>1 DEF AuthorizedRun
  <2>3. \A event \in outbox : event \in Event
    BY <2>1, <2>2
  <2> QED BY <2>3
<1>7. TypeOK
  BY <1>2, <1>3, <1>4, <1>5, <1>6 DEF TypeOK
<1>8. CallsTyped
  BY NoCallFields DEF ExecutionInit, CallsTyped
<1>9. VersionsTyped
  BY DEF ExecutionInit, VersionsTyped
<1>10. StoresTyped
  BY DEF ExecutionInit, StoresTyped, OperationStatus
<1> QED BY <1>7, <1>8, <1>9, <1>10, ExecutionTypeParts

(* The two Approvals an authorized Run rests on were each decided by one      *)
(* person per required role, and not by the requester.                        *)
LEMMA InitDecisions ==
  ASSUME ExecutionInit
  PROVE  DecisionsAreSound
<1>1. PICK r \in Runs, c \in Contexts, t \in Trds,
           others \in SUBSET OtherApprovals, decisions \in SUBSET Decision :
        Unanimous(decisions) /\ AuthorizedRun(r, c, t, others, decisions)
  BY DEF ExecutionInit
<1>2. /\ \A d \in decisions : d.decision \in Affirmative /\ d.authority # Requester
      /\ \A d, f \in decisions : d.authority = f.authority => d = f
      /\ RequiredRoles \subseteq {d.role : d \in decisions}
  BY <1>1, AggregateMeans DEF Unanimous, Affirmative
<1>3. ASSUME NEW gate, NEW subject
      PROVE  LET a == Approved(gate, subject, decisions)
             IN  /\ a.status = "approved" /\ a.decisions = decisions
                 /\ a.requestedBy = Requester
  BY DEF Approved
<1>4. NoApproval.status = "none" /\ NoApproval.deadline = "none"
  BY DEF NoApproval
<1>5. ASSUME NEW a \in Approvals
      PROVE  \/ approvals[a] = NoApproval
             \/ /\ approvals[a].status = "approved" /\ approvals[a].decisions = decisions
                /\ approvals[a].requestedBy = Requester
  <2>1. \/ approvals[a] = NoApproval
        \/ approvals[a] = Approved("trd_approval", t, decisions)
        \/ approvals[a] = Approved("run_authorization", r, decisions)
    BY <1>1 DEF AuthorizedRun
  <2> QED BY <1>3, <2>1
<1> QED BY <1>2, <1>4, <1>5 DEF DecisionsAreSound, Affirmative

(* The control plane as the instances begin with it is in one of its         *)
(* states.                                                                   *)
LEMMA InitControl ==
  ASSUME ExecutionInit
  PROVE  ControlInv
<1>1. PICK r \in Runs, c \in Contexts, t \in Trds,
           others \in SUBSET OtherApprovals, decisions \in SUBSET Decision :
        AuthorizedRun(r, c, t, others, decisions)
  BY DEF ExecutionInit
<1>2. task.status = "executing" /\ task.outcome = "none" /\ task.resume = "none"
  BY <1>1 DEF AuthorizedRun
<1>3. /\ \A s \in Runs : s # r => runs[s] = NoRun
      /\ runs[r].status = "authorized" /\ runs[r].outcome = "none" /\ runs[r].pending = "none"
      /\ runs[r].resume = "none" /\ runs[r].authorization = RunApproval
      /\ runs[r].prerequisites = {DesignApproval} \cup others
  BY <1>1 DEF AuthorizedRun
<1>4. /\ NoRun.status = "none" /\ NoRun.outcome = "none" /\ NoRun.pending = "none"
      /\ NoRun.resume = "none"
  BY DEF NoRun
<1>5. \A x \in RoleRuns : roleRuns[x] = NoRoleRun
  BY DEF ExecutionInit
<1>6. /\ NoRoleRun.status = "none" /\ NoRoleRun.outcome = "none" /\ NoRoleRun.lease = "none"
      /\ NoRoleRun.owner = Nil /\ NoRoleRun.output = Nil
  BY DEF NoRoleRun
<1>7. /\ approvals[DesignApproval].status = "approved"
      /\ approvals[RunApproval].status = "approved"
      /\ RunApproval \in OwnApprovals
      /\ \A a \in others : approvals[a].status = "approved"
  BY <1>1, ExecutionAssumption, OwnerAssumption DEF AuthorizedRun, Approved, OwnApprovals
<1>8. SchemaChecks
  BY <1>2, <1>3, <1>4, <1>5, <1>6 DEF SchemaChecks
<1>9. UnsettledRuns = {r}
  BY <1>3, <1>4 DEF UnsettledRuns, Unsettled
<1>10. \A s \in Runs : UnsettledRoleRuns(s) = {}
  BY <1>5, <1>6 DEF UnsettledRoleRuns, Unsettled
<1>11. PhaseInv
  <2>1. PhaseAgreement
    BY <1>2, <1>3, <1>4 DEF PhaseAgreement
  <2>2. OneActiveRole /\ SettledRunIsQuiet
    BY <1>9, <1>10 DEF OneActiveRole, SettledRunIsQuiet
  <2>3. RoleRunsBelong
    BY <1>5, <1>6 DEF RoleRunsBelong
  <2> QED BY <2>1, <2>2, <2>3 DEF PhaseInv
<1>12. RoleRunsAreOrdered
  BY <1>5, <1>6 DEF RoleRunsAreOrdered
<1>13. CompletionIsEarned /\ SessionIsFenced
  BY <1>2, <1>3, <1>4, <1>5, <1>6 DEF CompletionIsEarned, PhasesAreEarned, SessionIsFenced
<1>14. RunRestsOnEffectiveApprovals
  BY <1>3, <1>7, <1>9 DEF RunRestsOnEffectiveApprovals, IsEffective, Affirmative
<1>15. BoundInv
  <2>1. /\ runs[r].context = task.context /\ runs[r].trd = task.trd
        /\ approvals[DesignApproval].gate = "trd_approval"
        /\ approvals[DesignApproval].subject = task.trd
    BY <1>1, ExecutionAssumption DEF AuthorizedRun, Approved, OwnApprovals
  <2> QED BY <1>3, <1>7, <1>9, <2>1 DEF BoundInv, ManifestBindsDesign, PrerequisitesExist
<1> QED BY <1>8, <1>11, <1>12, <1>13, <1>14, <1>15, InitDecisions DEF ControlInv

(* Nothing has been called.                                                  *)
LEMMA InitExecution ==
  ASSUME ExecutionInit
  PROVE  ExecutionInv
<1>1. PICK r \in Runs, c \in Contexts, t \in Trds,
           others \in SUBSET OtherApprovals, decisions \in SUBSET Decision :
        AuthorizedRun(r, c, t, others, decisions)
  BY DEF ExecutionInit
<1>2. task.status = "executing" /\ task.outcome = "none"
  BY <1>1 DEF AuthorizedRun
<1>3. /\ calls = [d \in Callers |-> NoCall] /\ operations = [k \in Operations |-> "none"]
      /\ refs = [x \in RoleRuns |-> {}] /\ checks = [x \in RoleRuns |-> {}]
      /\ commands = [x \in RoleRuns |-> [prepare |-> Nil, lease |-> Nil]]
      /\ roleRuns = [x \in RoleRuns |-> NoRoleRun]
      /\ artifacts = [e \in Artifacts |-> NoContent]
  BY DEF ExecutionInit
<1>4. ~Acts(NoCall)
  BY NoCallFields DEF Acts, StatusFor
<1>5. ASSUME NEW d \in Callers
      PROVE  CallSound(calls[d]) /\ ~Acts(calls[d])
  <2>1. calls[d] = NoCall
    BY <1>3
  <2>2. CallHolds(calls[d]) /\ CallChecks(calls[d]) /\ \A k \in Operations \ lost : CallSees(calls[d], k)
    BY <1>4, <2>1 DEF CallHolds, CallChecks, CallSees
  <2>3. CallRemembers(calls[d]) /\ CallCollects(calls[d]) /\ CallAsks(calls[d])
    BY <2>1, NoCallFields DEF CallRemembers, CallCollects, CallAsks
  <2> QED BY <1>4, <2>1, <2>2, <2>3 DEF CallSound
<1>6. OneActor
  BY <1>5 DEF OneActor
<1>7. \A k \in Operations : OperationSound(k)
  BY <1>3 DEF OperationSound
<1>8. ASSUME NEW x \in RoleRuns
      PROVE  RefsSound(x) /\ RoleRunSound(x) /\ RowsStay(x)
  <2>1. roleRuns[x].status = "none" /\ roleRuns[x].output = Nil
    BY <1>3 DEF NoRoleRun
  <2>2. commands[x].prepare = Nil /\ commands[x].lease = Nil
    BY <1>3
  <2> QED BY <1>3, <2>1, <2>2 DEF RefsSound, RoleRunSound, RowsStay
<1>9. PassesAreChecked
  BY <1>2, <1>3 DEF PassesAreChecked, NoContent
<1> QED BY <1>5, <1>6, <1>7, <1>8, <1>9 DEF ExecutionInv

(* Whatever step is taken next, it is a command of the control plane or writes *)
(* none of its rows, and keeps the invariant.                                 *)
LEMMA StepKeepsControl ==
  ASSUME TypeOK, ControlInv, UNCHANGED vars \/ Next
  PROVE  TypeOK' /\ ControlInv'
<1>1. [Next]_vars
  OBVIOUS
<1>2. TypeOK'
  BY <1>1, TypeKept DEF ControlInv
<1>3. SchemaChecks'
  <2>1. TaskChecks' /\ RunChecks' /\ RoleRunChecks'
    BY <1>1, SchemaParts, TaskChecksKept, RunChecksKept, RoleRunChecksKept DEF ControlInv
  <2> QED BY <2>1, SchemaParts
<1>4. PhaseInv' /\ RoleRunsAreOrdered' /\ RunRestsOnEffectiveApprovals'
  BY <1>1, StepKeepsPhase, StepKeepsOrder, StepKeepsRest DEF ControlInv
<1>5. DecisionsAreSound' /\ BoundInv' /\ SessionIsFenced'
  BY <1>1, StepKeepsDecisions, StepKeepsBinding, StepKeepsFence DEF ControlInv
<1>6. CompletionIsEarned'
  BY <1>1, <1>2, StepKeepsCompletion DEF ControlInv
<1> QED BY <1>2, <1>3, <1>4, <1>5, <1>6 DEF ControlInv

(* Every step keeps what the coordinator relies on.                          *)
LEMMA StepKeepsExecution ==
  ASSUME CoordinatorInv, ExecutionNext
  PROVE  ExecutionInv' /\ CallsTyped' /\ VersionsTyped' /\ StoresTyped'
<1>1. ExecutionTypeOK /\ SchemaChecks /\ PhaseInv /\ ExecutionInv
  BY DEF CoordinatorInv, ControlInv
<1>2. TypeOK /\ CallsTyped /\ VersionsTyped /\ StoresTyped
  BY <1>1, ExecutionTypeParts
<1>3. ASSUME NEW c \in Callers, InMemory(c)
      PROVE  ExecutionInv' /\ CallsTyped' /\ VersionsTyped' /\ StoresTyped'
  <2>1. PICK call : MemoryStep(c, call)
    BY <1>1, <1>2, <1>3, InMemoryIsMemoryStep
  <2> QED BY <1>1, <1>2, <2>1, MemoryKeepsTypes, MemoryKeepsInv, ExecutionTypeParts
<1>4. ASSUME NEW c \in Callers, Sends(c)
      PROVE  ExecutionInv' /\ CallsTyped' /\ VersionsTyped' /\ StoresTyped'
  BY <1>1, <1>4, PrepareKeepsInv, LeaseKeepsInv, OpenSessionKeepsInv, MarkSettlingKeepsInv,
     HandOverExecutionKeepsInv, HandOverVerificationKeepsInv, FailKeepsInv, BlockKeepsInv DEF Sends
<1>5. ASSUME NEW c \in Callers, CheckCloses(c) \/ ToolRejects(c)
      PROVE  ExecutionInv' /\ CallsTyped' /\ VersionsTyped' /\ StoresTyped'
  BY <1>1, <1>5, CheckClosesKeepsInv, ToolRejectsKeepsInv
<1>6. ASSUME NEW k \in Operations, GatewayStep(k)
      PROVE  ExecutionInv' /\ CallsTyped' /\ VersionsTyped' /\ StoresTyped'
  BY <1>1, <1>6, GatewayKeepsInv
<1>7. ASSUME Elsewhere
      PROVE  ExecutionInv' /\ CallsTyped' /\ VersionsTyped' /\ StoresTyped'
  BY <1>1, <1>7, ElsewhereKeepsInv
<1> QED BY <1>3, <1>4, <1>5, <1>6, <1>7, StepsOfExecution

(* The invariant of coordinator and control plane in every reachable state.  *)
LEMMA CoordinatorIsSound == ExecutionSpec => []CoordinatorInv
<1>1. ExecutionInit => CoordinatorInv
  BY InitTypes, InitControl, InitExecution DEF CoordinatorInv
<1>2. CoordinatorInv /\ ExecutionNext => CoordinatorInv'
  <2> SUFFICES ASSUME CoordinatorInv, ExecutionNext
               PROVE  CoordinatorInv'
    OBVIOUS
  <2>1. ExecutionInv' /\ CallsTyped' /\ VersionsTyped' /\ StoresTyped'
    BY StepKeepsExecution
  <2>2. TypeOK /\ CallsTyped /\ VersionsTyped /\ ControlInv /\ ExecutionInv
    BY ExecutionTypeParts DEF CoordinatorInv
  <2>3. UNCHANGED vars \/ Next
    BY <2>2, StepIsCommand
  <2>4. TypeOK' /\ ControlInv'
    BY <2>2, <2>3, StepKeepsControl
  <2> QED BY <2>1, <2>4, ExecutionTypeParts DEF CoordinatorInv
<1>3. CoordinatorInv /\ UNCHANGED allVars => CoordinatorInv'
  <2> SUFFICES ASSUME CoordinatorInv, UNCHANGED allVars
               PROVE  CoordinatorInv'
    OBVIOUS
  <2>1. /\ UNCHANGED vars
        /\ UNCHANGED <<versions, commands, calls, operations, dispatched, refs, checks, lost>>
    BY DEF allVars, executionVars
  <2>2. TypeOK /\ CallsTyped /\ VersionsTyped /\ StoresTyped /\ ControlInv /\ ExecutionInv
    BY ExecutionTypeParts DEF CoordinatorInv
  <2>3. TypeOK' /\ ControlInv'
    BY <2>1, <2>2, StepKeepsControl
  <2>4. CallsTyped' /\ VersionsTyped' /\ StoresTyped'
    BY <2>1, <2>2 DEF CallsTyped, VersionsTyped, StoresTyped
  <2>5. \A c \in Callers : CallSound(calls[c])'
    BY <2>1, <2>2 DEF ExecutionInv, CallSound, CallHolds, CallRemembers, CallCollects, CallSees,
       CallChecks, CallAsks, Acts, StatusFor, Sealable, Registered, vars
  <2>6. OneActor' /\ \A k \in Operations \ lost' : OperationSound(k)'
    BY <2>1, <2>2 DEF ExecutionInv, OneActor, OperationSound, Acts, RoleRunOf, vars
  <2>7. \A x \in RoleRuns : RefsSound(x)' /\ RoleRunSound(x)' /\ RowsStay(x)'
    BY <2>1, <2>2 DEF ExecutionInv, RefsSound, RoleRunSound, RowsStay, Over, Registered, vars
  <2>8. PassesAreChecked'
    BY <2>1, <2>2 DEF ExecutionInv, PassesAreChecked, CheckedBy, vars
  <2>9. ExecutionInv'
    BY <2>5, <2>6, <2>7, <2>8 DEF ExecutionInv
  <2> QED BY <2>3, <2>4, <2>9, ExecutionTypeParts DEF CoordinatorInv
<1> QED BY <1>1, <1>2, <1>3, PTL DEF ExecutionSpec

-----------------------------------------------------------------------------
(* What the coordinator promises. *)

(* A step of the coordinator, seen from the control plane's rows.            *)
LEMMA CoordinatorStepIs ==
  CoordinatorInv /\ [ExecutionNext]_allVars => [Next]_vars
<1> SUFFICES ASSUME CoordinatorInv, [ExecutionNext]_allVars
             PROVE  [Next]_vars
  OBVIOUS
<1>1. CASE UNCHANGED allVars
  BY <1>1 DEF allVars
<1>2. CASE ExecutionNext
  BY <1>2, StepIsCommand, ExecutionTypeParts DEF CoordinatorInv
<1> QED BY <1>1, <1>2

(* What the control plane promises of its rows it promises when the           *)
(* coordinator drives it, from the authorized Run the coordinator is handed:  *)
(* phases agree, one role works, effective Approvals have four eyes, those of *)
(* the Task hold up every open Run, its manifest is the Task's design,        *)
(* sessions are fenced, and only what was executed and verified completes.    *)
THEOREM CoordinatorKeepsPromises ==
  ExecutionSpec => [](/\ SchemaChecks /\ PhaseAgreement /\ OneActiveRole /\ SettledRunIsQuiet
                      /\ FourEyes /\ RunRestsOnEffectiveApprovals /\ ManifestBindsDesign
                      /\ SessionIsFenced /\ CompletionIsVerified)
<1>1. CoordinatorInv =>
        /\ SchemaChecks /\ PhaseAgreement /\ OneActiveRole /\ SettledRunIsQuiet
        /\ FourEyes /\ RunRestsOnEffectiveApprovals /\ ManifestBindsDesign
        /\ SessionIsFenced /\ CompletionIsVerified
  BY SoundMeansFourEyes, EarnedIsVerified DEF CoordinatorInv, ControlInv, PhaseInv, BoundInv
<1> QED BY <1>1, CoordinatorIsSound, PTL

(* And what it promises of its steps: no call of execute or verify, sent      *)
(* late, twice or after a crash, writes a row that is closed, decides an      *)
(* Approval again, or gives work to a Run that is told to stop.               *)
THEOREM CoordinatorLeavesTheClosed ==
  ExecutionSpec => SettledIsFinal /\ DecidedOnce /\ NoNewWorkAfterStop
<1>1. CoordinatorInv /\ CoordinatorInv' /\ [ExecutionNext]_allVars =>
        [ClosedStay]_vars /\ [DecisionsStand]_vars /\ [StoppedGetNothing]_vars
  <2>1. CoordinatorInv => TypeOK /\ ControlInv
    BY ExecutionTypeParts DEF CoordinatorInv
  <2>2. CoordinatorInv' => TypeOK'
    BY ExecutionTypeParts DEF CoordinatorInv
  <2> QED BY <2>1, <2>2, CoordinatorStepIs, StepLeavesClosed, StepLeavesDecided, StepGivesNoWork
         DEF ControlInv
<1>2. /\ [][ClosedStay]_vars <=> SettledIsFinal
      /\ [][DecisionsStand]_vars <=> DecidedOnce
      /\ [][StoppedGetNothing]_vars <=> NoNewWorkAfterStop
  BY DEF ClosedStay, SettledIsFinal, DecisionsStand, DecidedOnce, StoppedGetNothing,
     NoNewWorkAfterStop
<1> QED BY <1>1, <1>2, CoordinatorIsSound, PTL DEF ExecutionSpec

(* The rows, what each call has in memory, the ledger and the refs have their *)
(* types for any number of processes that call execute and verify.            *)
THEOREM ExecutionIsTyped == ExecutionSpec => []ExecutionTypeOK
<1>1. CoordinatorInv => ExecutionTypeOK
  BY DEF CoordinatorInv
<1> QED BY <1>1, CoordinatorIsSound, PTL

(* One Agent session is live at a time, of a RoleRun that is running, however *)
(* often and by however many processes execute and verify are called: the     *)
(* fixed ids of :prepare and :lease and the token markRoleRunRunning is given *)
(* let one call past startRuntime.                                            *)
THEOREM SessionsAreAlone == ExecutionSpec => []OneSession
<1>1. CoordinatorInv => OneSession
  <2> SUFFICES ASSUME CoordinatorInv
               PROVE  OneSession
    OBVIOUS
  <2>1. TypeOK /\ CallsTyped /\ PhaseInv /\ ExecutionInv
    BY ExecutionTypeParts DEF CoordinatorInv, ControlInv
  <2>2. ASSUME NEW c \in Callers, InSession(c)
        PROVE  Acts(calls[c]) /\ RoleRunOf(c) \in RoleRuns /\ roleRuns[RoleRunOf(c)].status = "running"
    <3>1. StatusFor(calls[c].step) = "running" /\ calls[c].step # "idle"
      BY <2>2 DEF InSession, SessionSteps, StatusFor
    <3>2. CallHolds(calls[c]) /\ Acts(calls[c])
      BY <2>1, <3>1 DEF ExecutionInv, CallSound, Acts
    <3>3. RoleRunOf(c) \in RoleRuns
      BY <2>1, <3>1, CallFields
    <3> QED BY <3>1, <3>2, <3>3 DEF CallHolds, RoleRunOf
  <2>3. ASSUME NEW c \in Callers, NEW d \in Callers, InSession(c), InSession(d)
        PROVE  c = d
    <3>1. RoleRunOf(c) = RoleRunOf(d)
      BY <2>1, <2>2, <2>3, OneOpenRoleRun DEF Unsettled
    <3> QED BY <2>1, <2>2, <2>3, <3>1 DEF ExecutionInv, OneActor
  <2> QED BY <2>2, <2>3 DEF OneSession
<1> QED BY <1>1, CoordinatorIsSound, PTL

(* Whichever branch of execute, verify or failRole settles a RoleRun: the      *)
(* Operations of its session are final and among its refs, all but those     *)
(* whose invoke was rejected.                                                 *)
THEOREM SettledRoleRunsKnowTheirOperations == ExecutionSpec => []SettledOperationsAreKnown
<1>1. CoordinatorInv => SettledOperationsAreKnown
  BY DEF CoordinatorInv, ExecutionInv, OperationSound, SettledOperationsAreKnown
<1> QED BY <1>1, CoordinatorIsSound, PTL

(* A Task waits for acceptance, or is completed, on a verifier all of whose   *)
(* recorded checks passed, however exits, limits and closing pipes raced in   *)
(* runProcess, and whatever verdict the Agent submitted to sealVerification.  *)
THEOREM AcceptanceIsChecked == ExecutionSpec => []AcceptanceRestsOnChecks
<1>1. CoordinatorInv => AcceptanceRestsOnChecks
  BY DEF CoordinatorInv, ExecutionInv, PassesAreChecked, CheckedBy, Good, AcceptanceRestsOnChecks
<1> QED BY <1>1, CoordinatorIsSound, PTL

(* While its delivery waits for acceptance a Run is active, and all its       *)
(* RoleRuns have settled.                                                     *)
LEMMA AwaitedRunIsQuiet ==
  ASSUME TypeOK, ControlInv, NEW r \in Runs,
         task.status = "awaiting_acceptance", Unsettled(runs[r].status)
  PROVE  /\ runs[r].status = "active"
         /\ \A x \in RoleRunsOf(r) : roleRuns[x].status = "settled"
<1>1. PhaseAgreement /\ OneActiveRole /\ RoleRunsAreOrdered
  BY DEF ControlInv, PhaseInv
<1>2. runs[r].status = "active"
  <2>1. runs[r].status \in RunStatus \cup {"none"}
    BY DEF TypeOK, Run
  <2> QED BY <1>1, <2>1 DEF RunStatus, Unsettled, PhaseAgreement
<1>3. ASSUME NEW x \in RoleRunsOf(r)
      PROVE  roleRuns[x].status = "settled"
  <2>1. x \in RoleRuns /\ roleRuns[x].run = r
    BY DEF RoleRunsOf
  <2>2. roleRuns[x].status # "none"
    BY <1>1, <2>1, NilAssumption DEF RoleRunsAreOrdered, NoRoleRun
  <2>3. x \notin UnsettledRoleRuns(r)
    BY <1>1, <1>2 DEF OneActiveRole, PhaseOf
  <2> QED BY <2>1, <2>2, <2>3 DEF UnsettledRoleRuns, Unsettled
<1> QED BY <1>2, <1>3

(* Once all RoleRuns of a Run have settled, what they name are the Run's      *)
(* Operations that were not lost, and each of them has an outcome.            *)
LEMMA ExportedIsLedger ==
  ASSUME StoresTyped, ExecutionInv, NEW r,
         \A x \in RoleRunsOf(r) : roleRuns[x].status = "settled"
  PROVE  /\ Exported(r) = LedgerOf(r) \ lost
         /\ \A k \in Exported(r) : operations[k] \in Final
<1>1. ASSUME NEW k \in Exported(r)
      PROVE  k \in LedgerOf(r) /\ k \notin lost /\ operations[k] \in Final
  <2>1. PICK x \in RoleRunsOf(r) : k \in refs[x]
    BY DEF Exported
  <2>2. x \in RoleRuns /\ roleRuns[x].run = r /\ roleRuns[x].status = "settled"
    BY <2>1 DEF RoleRunsOf
  <2>3. k \in Operations
    BY <2>1, <2>2 DEF StoresTyped
  <2>4. k \notin lost /\ operations[k] # "none" /\ OwnerOf[k] = x
    BY <2>1, <2>2 DEF ExecutionInv, RefsSound
  <2>5. OperationSound(k)
    BY <2>3, <2>4 DEF ExecutionInv
  <2> QED BY <2>2, <2>3, <2>4, <2>5 DEF OperationSound, LedgerOf
<1>2. ASSUME NEW k \in LedgerOf(r) \ lost
      PROVE  k \in Exported(r)
  <2>1. k \in Operations \ lost /\ operations[k] # "none" /\ roleRuns[OwnerOf[k]].run = r
    BY DEF LedgerOf
  <2>2. OwnerOf[k] \in RoleRuns
    BY <2>1, ExecutionAssumption
  <2>3. OwnerOf[k] \in RoleRunsOf(r)
    BY <2>1, <2>2 DEF RoleRunsOf
  <2>4. OperationSound(k)
    BY <2>1 DEF ExecutionInv
  <2>5. k \in refs[OwnerOf[k]]
    BY <2>1, <2>3, <2>4 DEF OperationSound
  <2> QED BY <2>3, <2>5 DEF Exported
<1> QED BY <1>1, <1>2

(* Over the three stores no transaction covers together, a Run that waits for *)
(* acceptance passes what build checks exactly when no Operation of it was    *)
(* lost to the collector and its manifest names no Approval of another Task,  *)
(* which sealRunManifest would have let through.                              *)
THEOREM DeliveriesArePackageable == ExecutionSpec => []DeliveryIsPackageable
<1>1. CoordinatorInv => DeliveryIsPackageable
  <2> SUFFICES ASSUME CoordinatorInv, NEW r \in Runs,
                      task.status = "awaiting_acceptance", Unsettled(runs[r].status)
               PROVE  Packageable(r) <=> lost \cap LedgerOf(r) = {} /\ ApprovalsAreOwn(r)
    BY DEF DeliveryIsPackageable
  <2>1. TypeOK /\ StoresTyped /\ ControlInv /\ ExecutionInv
    BY ExecutionTypeParts DEF CoordinatorInv
  <2>2. /\ runs[r].status = "active"
        /\ \A x \in RoleRunsOf(r) : roleRuns[x].status = "settled"
    BY <2>1, AwaitedRunIsQuiet
  <2>3. /\ Exported(r) = LedgerOf(r) \ lost
        /\ \A k \in Exported(r) : operations[k] \in Final
    BY <2>1, <2>2, ExportedIsLedger
  <2>4. ApprovalsAreOwn(r) => ApprovalsEffective(r)
    BY <2>1, <2>2 DEF ControlInv, RunRestsOnEffectiveApprovals, UnsettledRuns, ApprovalsAreOwn,
       ApprovalsEffective, PrerequisitesEffective, OwnApprovals
  <2>5. \A role \in RuntimeRoles : \E x \in Attempts(r, role) : roleRuns[x].outcome = "succeeded"
    <3>1. HasExecuted(r) /\ HasPassed(r)
      BY <2>1, <2>2 DEF ControlInv, CompletionIsEarned, PhasesAreEarned
    <3> QED BY <3>1 DEF HasExecuted, HasPassed, Attempts, RuntimeRoles
  <2>6. Exported(r) = LedgerOf(r) <=> lost \cap LedgerOf(r) = {}
    BY <2>3
  <2> QED BY <2>2, <2>3, <2>4, <2>5, <2>6 DEF Packageable
<1> QED BY <1>1, CoordinatorIsSound, PTL

(* No other step of a call makes its RoleRun succeed.                         *)
LEMMA CommandKeepsFailures ==
  ASSUME TypeOK, NEW c \in Callers,
         \/ Prepare(c) \/ Lease(c) \/ OpenSession(c) \/ MarkSettling(c) \/ Fail(c) \/ Block(c),
         NEW x \in RoleRuns, roleRuns'[x].outcome = "succeeded"
  PROVE  roleRuns[x].outcome = "succeeded"
<1>1. roleRuns \in [RoleRuns -> RoleRun]
  BY DEF TypeOK
<1>2. CASE Prepare(c)
  BY <1>1, <1>2 DEF Prepare, PrepareRoleRun, NoRoleRun, RoleRun
<1>3. CASE Lease(c)
  BY <1>1, <1>3 DEF Lease, AcquireRoleRunLease, RoleRun
<1>4. CASE OpenSession(c)
  BY <1>1, <1>4 DEF OpenSession, MarkRoleRunRunning, RoleRun
<1>5. CASE MarkSettling(c)
  BY <1>1, <1>5 DEF MarkSettling, MarkRoleRunSettling, RoleRun
<1>6. CASE Fail(c)
  BY <1>1, <1>6 DEF Fail, SettleRoleRun, RoleRunReleased, RoleRun
<1>7. CASE Block(c)
  BY <1>1, <1>7 DEF Block, BlockRoleRun, RoleRunReleased, RoleRun
<1> QED BY <1>2, <1>3, <1>4, <1>5, <1>6, <1>7

HandsOverResult(c) == HandOverExecution(c) \/ HandOverVerification(c)

(* A handover writes the RoleRun of the call, which settles in an active Run. *)
LEMMA HandoverWrites ==
  ASSUME NEW c \in Callers, HandsOverResult(c)
  PROVE  /\ roleRuns[RoleRunOf(c)].status = "settling"
         /\ runs[roleRuns[RoleRunOf(c)].run].status = "active"
         /\ \E row : roleRuns' = [roleRuns EXCEPT ![RoleRunOf(c)] = row]
<1>1. GrantOf(c).roleRun = RoleRunOf(c)
  BY DEF GrantOf
<1>2. CASE HandOverExecution(c)
  BY <1>1, <1>2 DEF HandOverExecution, SubmitExecutionForVerification, RoleLeaseHeld
<1>3. CASE HandOverVerification(c)
  <2>1. PICK verdict : SubmitVerificationResult(GrantOf(c), calls[c].request.execution,
                                                calls[c].request.result, verdict)
    BY <1>3 DEF HandOverVerification, Route, SubmitPass, SubmitBlocked,
       SubmitImplementationFailure, SubmitUpstreamFailure
  <2> QED BY <1>1, <2>1 DEF SubmitVerificationResult, RoleLeaseHeld
<1> QED BY <1>2, <1>3 DEF HandsOverResult

(* A RoleRun succeeds in no step but the handover of its own call.           *)
LEMMA SuccessIsHandedOver ==
  ASSUME CoordinatorInv, ExecutionNext, NEW x \in RoleRuns,
         roleRuns[x].outcome # "succeeded", roleRuns'[x].outcome = "succeeded"
  PROVE  \E c \in Callers : HandsOverResult(c) /\ RoleRunOf(c) = x
<1>1. TypeOK /\ CallsTyped /\ VersionsTyped /\ ExecutionInv /\ SchemaChecks /\ PhaseInv
  BY ExecutionTypeParts DEF CoordinatorInv, ControlInv
<1>2. roleRuns' # roleRuns
  OBVIOUS
<1>3. ASSUME NEW c \in Callers, InMemory(c) \/ CheckCloses(c) \/ ToolRejects(c)
      PROVE  FALSE
  <2>1. CASE InMemory(c)
    BY <1>1, <1>2, <2>1, InMemoryIsMemoryStep DEF MemoryStep, vars
  <2> QED BY <1>2, <1>3, <2>1 DEF CheckCloses, ToolRejects, vars
<1>4. ASSUME NEW k \in Operations, GatewayStep(k)
      PROVE  FALSE
  BY <1>2, <1>4 DEF GatewayStep, vars
<1>5. ASSUME Elsewhere
      PROVE  FALSE
  <2>1. CASE OtherCommand
    BY <1>1, <1>2, <2>1, OthersWriteTask
  <2>2. ASSUME NEW y \in RoleRuns, LeaseExpires(y)
        PROVE  FALSE
    <3>1. roleRuns \in [RoleRuns -> RoleRun]
      BY <1>1 DEF TypeOK
    <3> QED BY <2>2, <3>1 DEF LeaseExpires, RoleRun
  <2> QED BY <1>5, <2>1, <2>2 DEF Elsewhere
<1>6. ASSUME NEW c \in Callers, Sends(c)
      PROVE  HandsOverResult(c) /\ RoleRunOf(c) = x
  <2>1. HandsOverResult(c)
    BY <1>1, <1>6, CommandKeepsFailures DEF Sends, HandsOverResult
  <2>2. RoleRunOf(c) = x
    <3>1. PICK row : roleRuns' = [roleRuns EXCEPT ![RoleRunOf(c)] = row]
      BY <2>1, HandoverWrites
    <3> QED BY <3>1
  <2> QED BY <2>1, <2>2
<1> QED BY <1>3, <1>4, <1>5, <1>6, StepsOfExecution

(* A RoleRun succeeds only by a call that ran to its end in time, with one    *)
(* submission, and on the rows its lease was taken on: although the versions  *)
(* are read again before the submission, no cancellation, no revocation of    *)
(* the Task's own Approvals and no other result slips in between.             *)
THEOREM HandoffsRestOnTheirLease == ExecutionSpec => HandoffRestsOnLease
<1> DEFINE HandedOnLease ==
      \A x \in RoleRuns :
        roleRuns[x].outcome # "succeeded" /\ roleRuns'[x].outcome = "succeeded" =>
          \E c \in Callers :
            /\ calls[c].step # "idle" /\ HandsOver(c, x)
            /\ ~calls[c].timedOut /\ calls[c].submissions = 1
            /\ versions.task = commands[x].lease.seen.task
            /\ versions.run[RunOf(c)] - commands[x].lease.seen.run \in {0, 1}
<1>1. CoordinatorInv /\ [ExecutionNext]_allVars => [HandedOnLease]_allVars
  <2> SUFFICES ASSUME CoordinatorInv, ExecutionNext, NEW x \in RoleRuns,
                      roleRuns[x].outcome # "succeeded", roleRuns'[x].outcome = "succeeded"
               PROVE  \E c \in Callers :
                        /\ calls[c].step # "idle" /\ HandsOver(c, x)
                        /\ ~calls[c].timedOut /\ calls[c].submissions = 1
                        /\ versions.task = commands[x].lease.seen.task
                        /\ versions.run[RunOf(c)] - commands[x].lease.seen.run \in {0, 1}
    OBVIOUS
  <2>1. PICK c \in Callers : HandsOverResult(c) /\ RoleRunOf(c) = x
    BY SuccessIsHandedOver
  <2>2. TypeOK /\ CallsTyped /\ ExecutionInv
    BY ExecutionTypeParts DEF CoordinatorInv
  <2>3. calls[c].step = "submit" /\ Return(c)
    BY <2>1 DEF HandsOverResult, HandOverExecution, HandOverVerification, Finish
  <2>4. calls'[c].step = "idle"
    BY <2>1, <2>2, <2>3, NoCallFields DEF Return, Continue, CallsTyped
  <2>5. CallSound(calls[c]) /\ RoleRunSound(x) /\ RowsStay(x)
    BY <2>1, <2>2 DEF ExecutionInv
  <2>6. ~calls[c].timedOut /\ calls[c].submissions = 1
    BY <2>3, <2>5 DEF CallSound, CallRemembers
  <2>7. roleRuns[x].run = RunOf(c)
    BY <2>1, <2>3, <2>5 DEF CallSound, CallAsks, RoleRunSound, RoleRunOf, RunOf
  <2>8. /\ versions.task = commands[x].lease.seen.task
        /\ versions.run[RunOf(c)] - commands[x].lease.seen.run \in {0, 1}
    BY <2>1, <2>5, <2>7, HandoverWrites DEF RowsStay
  <2>9. HandsOver(c, x)
    BY <2>1, <2>3, <2>4 DEF HandsOver
  <2> QED BY <2>1, <2>3, <2>6, <2>8, <2>9
<1>2. [][HandedOnLease]_allVars <=> HandoffRestsOnLease
  BY DEF HandoffRestsOnLease
<1> HIDE DEF HandedOnLease
<1> QED BY <1>1, <1>2, CoordinatorIsSound, PTL DEF ExecutionSpec
=============================================================================
