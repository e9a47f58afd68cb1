---------------------- MODULE ControlPlaneApprovalProofs ----------------------
(* Approvals and what rests on them: who granted them, that they are decided *)
(* once, and that no open Run outlives one it needs.                         *)
EXTENDS ControlPlanePhaseProofs

-----------------------------------------------------------------------------
(* How a step writes an Approval. *)

RequestedApproval(a) ==
  /\ approvals[a].status = "none"
  /\ \E gate \in Gates, subject \in Trds \cup Runs, p \in Actors, d \in DeadlineChoices :
       approvals'[a] =
         [status |-> "pending", gate |-> gate, subject |-> subject,
          requestedBy |-> p, deadline |-> d, decisions |-> {}]

DecidedApproval(a) ==
  \E p \in Actors, role \in RequiredRoles, decision \in Decisions :
    /\ MayDecide(a, p, role, decision)
    /\ approvals'[a] = [approvals[a] EXCEPT
         !.status = AggregateApproval(Decided(a, p, role, decision)),
         !.decisions = Decided(a, p, role, decision)]

EndedApproval(a) ==
  \E status \in Invalidations :
    /\ IF status = "revoked"
       THEN IsEffective(a) /\ (InvalidateApproval \/ a \in OtherApprovals)
       ELSE approvals[a].status = "pending"
    /\ approvals'[a] = [approvals[a] EXCEPT !.status = status]

OverdueApproval(a) ==
  /\ approvals[a].status = "pending"
  /\ approvals'[a] = [approvals[a] EXCEPT !.deadline = "passed"]

ApprovalWritten(a) ==
  RequestedApproval(a) \/ DecidedApproval(a) \/ EndedApproval(a) \/ OverdueApproval(a)

(* A request writes one new row.                                              *)
LEMMA RequestWrites ==
  ASSUME TypeOK, NEW a \in Approvals, NEW b \in Approvals, NEW gate \in Gates,
         NEW subject \in Trds \cup Runs, NEW p \in Actors, NEW d \in DeadlineChoices,
         InsertApproval(b, gate, subject, p, d)
  PROVE  IF a = b THEN RequestedApproval(a) ELSE approvals'[a] = approvals[a]
BY DEF InsertApproval, RequestedApproval, TypeOK

(* A decision writes one row that is pending.                                 *)
LEMMA DecisionWrites ==
  ASSUME TypeOK, NEW a \in Approvals, NEW b \in Approvals, NEW p \in Actors,
         NEW role \in RequiredRoles, NEW decision \in Decisions, NEW aggregate,
         Decide(b, p, role, decision, aggregate)
  PROVE  IF a = b THEN DecidedApproval(a) ELSE approvals'[a] = approvals[a]
BY DEF Decide, DecidedApproval, TypeOK

(* Losing an Approval writes one row that could still change.                 *)
LEMMA InvalidationWrites ==
  ASSUME TypeOK, NEW a \in Approvals, NEW b \in Approvals, NEW action \in Invalidations,
         Invalidate(b, action), InvalidateApproval \/ b \in OtherApprovals
  PROVE  IF a = b THEN EndedApproval(a) ELSE approvals'[a] = approvals[a]
<1>1. IF action = "revoked" THEN IsEffective(b) ELSE approvals[b].status = "pending"
  BY DEF Invalidate, MayInvalidate, Invalidations
<1>2. approvals' = [approvals EXCEPT ![b].status = action]
  BY DEF Invalidate
<1> QED BY <1>1, <1>2 DEF EndedApproval, TypeOK

(* Every step writes an Approval in one of these ways or leaves it alone.     *)
LEMMA ApprovalIsWritten ==
  ASSUME TypeOK, Next, NEW a \in Approvals
  PROVE  approvals'[a] = approvals[a] \/ ApprovalWritten(a)
<1> USE DEF ApprovalWritten
<1>1. CASE DesignCommand
  <2>1. ASSUME NEW t \in Trds, NEW b \in Approvals, NEW p \in Actors,
               NEW d \in DeadlineChoices, SubmitTrdForApproval(t, b, p, d)
        PROVE  approvals'[a] = approvals[a] \/ RequestedApproval(a)
    BY <2>1, RequestWrites DEF SubmitTrdForApproval, Gates
  <2> QED BY <1>1, <2>1 DEF DesignCommand, StartContextualization, CompleteContextualization
<1>2. CASE RecordApprovalDecision
  <2>1. PICK b \in Approvals, p \in Actors, role \in RequiredRoles, decision \in Decisions :
          ApprovalDecision(b, p, role, decision)
    BY <1>2 DEF RecordApprovalDecision
  <2>2. PICK aggregate : Decide(b, p, role, decision, aggregate)
    BY <2>1 DEF ApprovalDecision, DecideInPart, ApproveTrd, RequestTrdChanges, RejectTrd,
       AuthorizeRun, RequestRunChanges, RejectRun
  <2> QED BY <2>2, DecisionWrites
<1>3. CASE RunCommand
  <2>1. ASSUME NEW r \in Runs, NEW b \in Approvals, NEW p \in Actors,
               NEW d \in DeadlineChoices, NEW s, SealRunManifest(r, b, s, p, d)
        PROVE  approvals'[a] = approvals[a] \/ RequestedApproval(a)
    BY <2>1, RequestWrites DEF SealRunManifest, Gates
  <2> QED BY <1>3, <2>1 DEF RunCommand, PrepareRoleRun
<1>4. CASE WorkerCommand
  <2>1. ASSUME NEW g \in grants, NEW e \in Artifacts, NEW v \in Artifacts,
               SubmitVerification(g, e, v)
        PROVE  UNCHANGED approvals
    BY <2>1 DEF SubmitVerification, SubmitVerificationResult, SubmitPass,
       SubmitImplementationFailure, SubmitBlocked, SubmitUpstreamFailure
  <2>2. ASSUME NEW x \in RoleRuns, NEW w \in Workers, AcquireRoleRunLease(x, w)
        PROVE  UNCHANGED approvals
    BY <2>2 DEF AcquireRoleRunLease
  <2>3. ASSUME NEW g \in grants,
               \/ MarkRoleRunRunning(g)
               \/ \E runtime \in {"completed", "unsuccessful"} : MarkRoleRunSettling(g, runtime)
               \/ SettleRoleRun(g) \/ BlockRoleRun(g)
               \/ \E e \in Artifacts : SubmitExecutionForVerification(g, e)
        PROVE  UNCHANGED approvals
    BY <2>3 DEF MarkRoleRunRunning, MarkRoleRunSettling, SettleRoleRun, BlockRoleRun,
       SubmitExecutionForVerification
  <2> QED BY <1>4, <2>1, <2>2, <2>3 DEF WorkerCommand
<1>5. CASE AcceptanceCommand
  BY <1>5 DEF AcceptanceCommand, ReworkImplementation, ReworkUnclassified, ReworkUpstream,
     AcceptDelivery
<1>6. CASE StopCommand
  <2>1. ASSUME NEW r \in Runs, CancelIdleRun(r)
        PROVE  approvals'[a] = approvals[a] \/ EndedApproval(a)
    <3>1. "withdrawn" \in Invalidations
      BY DEF Invalidations
    <3> QED BY <2>1, <3>1 DEF CancelIdleRun, EndedApproval, TypeOK
  <2> QED BY <1>6, <2>1 DEF StopCommand, CancelWithoutRun, CancelBusyRun, FinishCancelledStop,
         FinishSupersededStop, StopSettles
<1>7. CASE InvalidateApproval
  <2>1. PICK b \in Approvals, action \in Invalidations : Invalidate(b, action)
    BY <1>7 DEF InvalidateApproval, InvalidateAfterClose, InvalidateBeforeRun,
       InvalidateDuringRun, InvalidateWithoutRun
  <2> QED BY <1>7, <2>1, InvalidationWrites
<1>8. CASE Environment
  <2>1. ASSUME NEW b \in Approvals, DeadlinePasses(b)
        PROVE  approvals'[a] = approvals[a] \/ OverdueApproval(a)
    BY <2>1 DEF DeadlinePasses, OverdueApproval, TypeOK
  <2>2. CASE OtherTask
    <3>1. PICK b \in OtherApprovals :
            \/ \E t \in Trds, p \in Actors, d \in DeadlineChoices : RequestElsewhere(b, t, p, d)
            \/ \E p \in Actors, role \in RequiredRoles, decision \in Decisions :
                 DecideElsewhere(b, p, role, decision)
            \/ \E action \in Invalidations : InvalidateElsewhere(b, action)
      BY <2>2 DEF OtherTask
    <3>2. b \in Approvals
      BY OwnerAssumption
    <3>3. ASSUME NEW t \in Trds, NEW p \in Actors, NEW d \in DeadlineChoices,
                 RequestElsewhere(b, t, p, d)
          PROVE  approvals'[a] = approvals[a] \/ RequestedApproval(a)
      BY <3>2, <3>3, RequestWrites DEF RequestElsewhere, Gates
    <3>4. ASSUME NEW p \in Actors, NEW role \in RequiredRoles, NEW decision \in Decisions,
                 DecideElsewhere(b, p, role, decision)
          PROVE  approvals'[a] = approvals[a] \/ DecidedApproval(a)
      BY <3>2, <3>4, DecisionWrites DEF DecideElsewhere
    <3>5. ASSUME NEW action \in Invalidations, InvalidateElsewhere(b, action)
          PROVE  approvals'[a] = approvals[a] \/ EndedApproval(a)
      BY <3>2, <3>5, InvalidationWrites DEF InvalidateElsewhere
    <3> QED BY <3>1, <3>3, <3>4, <3>5
  <2> QED BY <1>8, <2>1, <2>2 DEF Environment, RegisterArtifact, MarkOutboxDelivered, LeaseExpires
<1> QED BY <1>1, <1>2, <1>3, <1>4, <1>5, <1>6, <1>7, <1>8 DEF Next

-----------------------------------------------------------------------------
(* Who granted an Approval. *)

(* What is true of the decisions of an Approval before they suffice, too: as  *)
(* long as it is pending nobody has dissented and nobody has decided twice.   *)
DecisionsAreSound ==
  \A a \in Approvals :
    /\ approvals[a].status = "none" => approvals[a].deadline = "none"
    /\ approvals[a].status \in {"pending", "revoked"} \cup Affirmative =>
         /\ \A d \in approvals[a].decisions :
              d.decision \in Affirmative /\ d.authority # approvals[a].requestedBy
         /\ \A d, f \in approvals[a].decisions : d.authority = f.authority => d = f
    /\ approvals[a].status \in {"revoked"} \cup Affirmative =>
         RequiredRoles \subseteq {d.role : d \in approvals[a].decisions}

(* What aggregateApproval says of the decisions it counted.                   *)
LEMMA AggregateMeans ==
  ASSUME NEW decided \in SUBSET Decision
  PROVE  /\ AggregateApproval(decided) \in
              {"pending", "rejected", "changes_requested"} \cup Affirmative
         /\ AggregateApproval(decided) \in {"pending"} \cup Affirmative =>
              \A d \in decided : d.decision \in Affirmative
         /\ AggregateApproval(decided) \in Affirmative =>
              RequiredRoles \subseteq {d.role : d \in decided}
<1>1. \A d \in decided : d.decision \in Decisions
  BY DEF Decision
<1>2. AggregateApproval(decided) \in {"pending"} \cup Affirmative =>
        "rejected" \notin {d.decision : d \in decided}
          /\ "changes_requested" \notin {d.decision : d \in decided}
  BY DEF AggregateApproval, Affirmative
<1>3. AggregateApproval(decided) \in {"pending"} \cup Affirmative =>
        \A d \in decided : d.decision \in Affirmative
  BY <1>1, <1>2 DEF Decisions, Affirmative
<1>4. AggregateApproval(decided) \in Affirmative =>
        RequiredRoles \subseteq {d.role : d \in {f \in decided : f.decision \in Affirmative}}
  BY DEF AggregateApproval, Affirmative
<1>5. AggregateApproval(decided) \in
        {"pending", "rejected", "changes_requested"} \cup Affirmative
  BY DEF AggregateApproval, Affirmative
<1> QED BY <1>3, <1>4, <1>5

(* A decision keeps them sound: MayDecide turns the requester and anyone who  *)
(* has decided away, and a dissent ends the Approval.                         *)
LEMMA DecisionKeepsSound ==
  ASSUME TypeOK, DecisionsAreSound, NEW a \in Approvals, DecidedApproval(a)
  PROVE  /\ approvals'[a].status # "none" /\ approvals'[a].status # "revoked"
         /\ approvals'[a].status \in {"pending"} \cup Affirmative =>
              /\ \A d \in approvals'[a].decisions :
                   d.decision \in Affirmative /\ d.authority # approvals'[a].requestedBy
              /\ \A d, f \in approvals'[a].decisions : d.authority = f.authority => d = f
         /\ approvals'[a].status \in Affirmative =>
              RequiredRoles \subseteq {d.role : d \in approvals'[a].decisions}
<1>1. PICK p \in Actors, role \in RequiredRoles, decision \in Decisions :
        /\ MayDecide(a, p, role, decision)
        /\ approvals'[a] = [approvals[a] EXCEPT
             !.status = AggregateApproval(Decided(a, p, role, decision)),
             !.decisions = Decided(a, p, role, decision)]
  BY DEF DecidedApproval
<1> DEFINE new == [authority |-> p, role |-> role, decision |-> decision]
           decided == Decided(a, p, role, decision)
<1>2. approvals[a] \in Approval /\ approvals[a].decisions \in SUBSET Decision
  BY DEF TypeOK, Approval
<1>3. decided = approvals[a].decisions \cup {new} /\ new \in Decision
  BY RoleAssumption DEF Decided, Decision
<1>4. /\ approvals'[a].status = AggregateApproval(decided)
      /\ approvals'[a].decisions = decided
      /\ approvals'[a].requestedBy = approvals[a].requestedBy
  BY <1>1, <1>2 DEF Approval
<1>5. /\ approvals[a].status = "pending" /\ p # approvals[a].requestedBy
      /\ \A d \in approvals[a].decisions : d.authority # p
  BY <1>1 DEF MayDecide
<1>6. \A d, f \in decided : d.authority = f.authority => d = f
  BY <1>3, <1>5 DEF DecisionsAreSound
<1>7. \A d \in decided : d.authority # approvals[a].requestedBy
  BY <1>3, <1>5 DEF DecisionsAreSound
<1>8. decided \in SUBSET Decision
  BY <1>2, <1>3
<1> HIDE DEF decided, new
<1>9. AggregateApproval(decided) \notin {"none", "revoked"}
  BY <1>8, AggregateMeans DEF Affirmative
<1> QED BY <1>4, <1>6, <1>7, <1>8, <1>9, AggregateMeans

(* Every step keeps the decisions sound.                                      *)
LEMMA StepKeepsDecisions ==
  TypeOK /\ DecisionsAreSound /\ [Next]_vars => DecisionsAreSound'
<1> SUFFICES ASSUME TypeOK, DecisionsAreSound, [Next]_vars, NEW a \in Approvals
             PROVE  /\ approvals'[a].status = "none" => approvals'[a].deadline = "none"
                    /\ approvals'[a].status \in {"pending", "revoked"} \cup Affirmative =>
                         /\ \A d \in approvals'[a].decisions :
                              /\ d.decision \in Affirmative
                              /\ d.authority # approvals'[a].requestedBy
                         /\ \A d, f \in approvals'[a].decisions :
                              d.authority = f.authority => d = f
                    /\ approvals'[a].status \in {"revoked"} \cup Affirmative =>
                         RequiredRoles \subseteq {d.role : d \in approvals'[a].decisions}
  BY DEF DecisionsAreSound
<1>1. approvals[a] \in Approval
  BY DEF TypeOK
<1>2. CASE approvals'[a] = approvals[a]
  BY <1>2 DEF DecisionsAreSound
<1>3. CASE RequestedApproval(a)
  BY <1>3 DEF RequestedApproval, Affirmative
<1>4. CASE DecidedApproval(a)
  BY <1>4, DecisionKeepsSound
<1>5. CASE EndedApproval(a)
  <2>1. PICK status \in Invalidations :
          /\ IF status = "revoked" THEN IsEffective(a) ELSE approvals[a].status = "pending"
          /\ approvals'[a] = [approvals[a] EXCEPT !.status = status]
    BY <1>5 DEF EndedApproval
  <2>2. /\ approvals'[a].status = status
        /\ approvals'[a].decisions = approvals[a].decisions
        /\ approvals'[a].requestedBy = approvals[a].requestedBy
    BY <1>1, <2>1 DEF Approval
  <2> QED BY <2>1, <2>2 DEF Invalidations, IsEffective, DecisionsAreSound, Affirmative
<1>6. CASE OverdueApproval(a)
  <2>1. /\ approvals'[a].status = "pending" /\ approvals[a].status = "pending"
        /\ approvals'[a].decisions = approvals[a].decisions
        /\ approvals'[a].requestedBy = approvals[a].requestedBy
    BY <1>1, <1>6 DEF OverdueApproval, Approval
  <2> QED BY <2>1 DEF DecisionsAreSound, Affirmative
<1>7. approvals'[a] = approvals[a] \/ ApprovalWritten(a)
  BY ApprovalIsWritten DEF vars
<1> QED BY <1>2, <1>3, <1>4, <1>5, <1>6, <1>7 DEF ApprovalWritten

(* The decisions of every Approval are sound in every reachable state.        *)
LEMMA DecisionsSound == Spec => []DecisionsAreSound
<1>1. Init => DecisionsAreSound
  BY DEF Init, NoApproval, DecisionsAreSound, Affirmative
<1>2. TypeOK /\ DecisionsAreSound /\ [Next]_vars => DecisionsAreSound'
  BY StepKeepsDecisions
<1> QED BY <1>1, <1>2, TypeCorrect, PTL DEF Spec

(* Sound decisions are those of different people, the requester not among    *)
(* them.                                                                      *)
LEMMA SoundMeansFourEyes == DecisionsAreSound => FourEyes
BY DEF DecisionsAreSound, FourEyes, Affirmative

(* For any number of people and roles: recordApprovalDecision, which sees one *)
(* decision at a time, never lets an Approval take effect that one person     *)
(* granted for two roles, that its requester granted, or that lacks a role.   *)
THEOREM EffectiveMeansFourEyes == Spec => []FourEyes
<1> QED BY SoundMeansFourEyes, DecisionsSound, PTL

DecisionsStand ==
  \A a \in Approvals :
    /\ approvals[a].status \notin {"none", "pending"} =>
         \/ approvals'[a] = approvals[a]
         \/ /\ IsEffective(a)
            /\ approvals'[a] = [approvals[a] EXCEPT !.status = "revoked"]
    /\ approvals[a].deadline = "passed" =>
         approvals'[a].decisions = approvals[a].decisions

(* No step decides an Approval again or late.                                *)
LEMMA StepLeavesDecided ==
  TypeOK /\ DecisionsAreSound /\ [Next]_vars => [DecisionsStand]_vars
<1>1. ASSUME TypeOK, DecisionsAreSound, Next, NEW a \in Approvals
      PROVE  /\ approvals[a].status \notin {"none", "pending"} =>
                  \/ approvals'[a] = approvals[a]
                  \/ /\ IsEffective(a)
                     /\ approvals'[a] = [approvals[a] EXCEPT !.status = "revoked"]
             /\ approvals[a].deadline = "passed" =>
                  approvals'[a].decisions = approvals[a].decisions
  <2>1. approvals[a] \in Approval
    BY <1>1 DEF TypeOK
  <2>2. CASE approvals'[a] = approvals[a]
    BY <2>2
  <2>3. CASE RequestedApproval(a)
    BY <1>1, <2>3 DEF RequestedApproval, DecisionsAreSound
  <2>4. CASE DecidedApproval(a)
    BY <2>4 DEF DecidedApproval, MayDecide
  <2>5. CASE EndedApproval(a)
    BY <2>1, <2>5 DEF EndedApproval, Invalidations, Approval
  <2>6. CASE OverdueApproval(a)
    BY <2>1, <2>6 DEF OverdueApproval, Approval
  <2> QED BY <1>1, <2>2, <2>3, <2>4, <2>5, <2>6, ApprovalIsWritten DEF ApprovalWritten
<1> QED BY <1>1 DEF DecisionsStand

(* No command decides, expires or withdraws an Approval that is decided, and  *)
(* none takes a decision after the deadline.                                  *)
THEOREM ApprovalsAreDecidedOnce == Spec => DecidedOnce
<1>1. [][DecisionsStand]_vars <=> DecidedOnce
  BY DEF DecisionsStand, DecidedOnce
<1> QED BY <1>1, StepLeavesDecided, TypeCorrect, DecisionsSound, PTL DEF Spec

-----------------------------------------------------------------------------
(* What a Run is bound to. *)

SealedNow(r) ==
  \E a \in Approvals, p \in Actors, d \in DeadlineChoices, b \in SUBSET Approvals :
    SealRunManifest(r, a, b, p, d)

AuthorizedNow(r) ==
  \E a \in Approvals, p \in Actors, role \in RequiredRoles, decision \in Decisions :
    AuthorizeRun(a, r, p, role, decision)

(* The statuses in which a Run holds an authorization.                        *)
Underway == {"authorized", "active", "blocked"}

(* It moves on, bound as before, and never back.                              *)
RunAdvanced(r) ==
  /\ runs'[r].prerequisites = runs[r].prerequisites
  /\ runs'[r].authorization = runs[r].authorization
  /\ runs'[r].context = runs[r].context
  /\ runs'[r].trd = runs[r].trd
  /\ Unsettled(runs'[r].status) => Unsettled(runs[r].status)
  /\ Unsettled(runs'[r].status) /\ runs'[r].status # "stopping" => runs[r].status # "stopping"
  /\ runs'[r].status \in Underway => runs[r].status \in Underway
  /\ runs'[r].status = "active" =>
       runs[r].status = "active" \/ (runs[r].status = "authorized" /\ UNCHANGED task)

(* No way of writing a Run touches what it is bound to.                       *)
LEMMA RunBindings ==
  ASSUME TypeOK, NEW r \in Runs, NEW row,
         \/ \E s : row = RunMoved(r, s)
         \/ \E p : row = RunStopping(r, p)
         \/ row = RunBlocked(r)
         \/ \E o : row = RunSettled(r, o)
  PROVE  /\ row.prerequisites = runs[r].prerequisites
         /\ row.authorization = runs[r].authorization
         /\ row.context = runs[r].context
         /\ row.trd = runs[r].trd
<1>1. runs[r] \in Run
  BY DEF TypeOK
<1> QED BY <1>1 DEF RunMoved, RunStopping, RunBlocked, RunSettled, Run

(* Writing the open Run q lets each Run advance or stay.                      *)
LEMMA WrittenRunAdvances ==
  ASSUME TypeOK, NEW r \in Runs, NEW q \in Runs, NEW row, runs' = [runs EXCEPT ![q] = row],
         \/ /\ runs[q].status \in {"authorized", "active"}
            /\ row = RunMoved(q, "active") /\ UNCHANGED task
         \/ runs[q].status \in Underway \cup {"stopping"} /\ \E p : row = RunStopping(q, p)
         \/ runs[q].status \in Underway /\ row = RunBlocked(q)
         \/ \E o : row = RunSettled(q, o)
  PROVE  RunAdvanced(r)
<1>1. runs'[r] = IF r = q THEN row ELSE runs[r]
  BY DEF TypeOK
<1>2. CASE r # q
  BY <1>1, <1>2 DEF RunAdvanced
<1>3. CASE r = q
  BY <1>1, <1>3, RunFields, RunBindings DEF RunAdvanced, Unsettled, Underway
<1> QED BY <1>2, <1>3

(* A worker's commands leave the open Run where it is, activate it, block it  *)
(* or stop it.                                                                *)
LEMMA WorkerAdvancesRuns ==
  ASSUME TypeOK, PhaseInv, WorkerCommand, NEW r \in Runs
  PROVE  UNCHANGED runs[r] \/ RunAdvanced(r)
<1>1. ASSUME NEW x \in RoleRuns, roleRuns[x].status # "none", NEW w \in Workers,
             AcquireRoleRunLease(x, w)
      PROVE  RunAdvanced(r)
  <2>1. roleRuns[x].run \in Runs
    BY <1>1 DEF PhaseInv, RoleRunsBelong
  <2> QED BY <1>1, <2>1, WrittenRunAdvances DEF AcquireRoleRunLease, Leasable
<1>2. ASSUME NEW g \in grants, BlockRoleRun(g)
      PROVE  RunAdvanced(r)
  <2>1. roleRuns[g.roleRun].run \in Runs
    BY <1>2, HeldRoleRun DEF BlockRoleRun
  <2> QED BY <1>2, <2>1, WrittenRunAdvances DEF BlockRoleRun, Underway
<1>3. ASSUME NEW g \in grants, NEW e \in Artifacts, NEW v \in Artifacts,
             SubmitVerification(g, e, v)
      PROVE  UNCHANGED runs[r] \/ RunAdvanced(r)
  <2>1. PICK verdict \in Verdicts : SubmitVerificationResult(g, e, v, verdict)
    BY <1>3 DEF SubmitVerification, SubmitPass, SubmitImplementationFailure, SubmitBlocked,
       SubmitUpstreamFailure, Verdicts
  <2>2. roleRuns[g.roleRun].run \in Runs /\ runs[roleRuns[g.roleRun].run].status = "active"
    BY <2>1, HeldRoleRun DEF SubmitVerificationResult
  <2>3. CASE SubmitPass(g, e, v) \/ SubmitImplementationFailure(g, e, v)
    BY <2>3 DEF SubmitPass, SubmitImplementationFailure
  <2>4. CASE SubmitBlocked(g, e, v)
    BY <2>2, <2>4, WrittenRunAdvances DEF SubmitBlocked, Underway
  <2>5. CASE \E f \in UpstreamFindings : SubmitUpstreamFailure(g, e, v, f)
    BY <2>2, <2>5, WrittenRunAdvances DEF SubmitUpstreamFailure, Underway
  <2> QED BY <1>3, <2>3, <2>4, <2>5 DEF SubmitVerification
<1> QED BY <1>1, <1>2, <1>3 DEF WorkerCommand, MarkRoleRunRunning, MarkRoleRunSettling,
       SettleRoleRun, SubmitExecutionForVerification

(* Every step seals a Run, authorizes it, advances it or leaves it alone.     *)
LEMMA RunIsAdvanced ==
  ASSUME TypeOK, PhaseInv, Next, NEW r \in Runs
  PROVE  UNCHANGED runs[r] \/ SealedNow(r) \/ AuthorizedNow(r) \/ RunAdvanced(r)
<1>1. CASE DesignCommand
  BY <1>1 DEF DesignCommand, StartContextualization, CompleteContextualization,
     SubmitTrdForApproval
<1>2. CASE RecordApprovalDecision
  <2>1. ASSUME NEW a \in Approvals, NEW p \in Actors, NEW role \in RequiredRoles,
               NEW decision \in Decisions, NEW q \in Runs, AuthorizeRun(a, q, p, role, decision)
        PROVE  UNCHANGED runs[r] \/ AuthorizedNow(r)
    <3>1. CASE q = r
      BY <2>1, <3>1 DEF AuthorizedNow
    <3>2. CASE q # r
      BY <2>1, <3>2 DEF AuthorizeRun, TypeOK
    <3> QED BY <3>1, <3>2
  <2>2. ASSUME NEW a \in Approvals, NEW p \in Actors, NEW role \in RequiredRoles,
               NEW decision \in Decisions, NEW q \in Runs,
               RequestRunChanges(a, q, p, role, decision) \/ RejectRun(a, q, p, role, decision)
        PROVE  RunAdvanced(r)
    BY <2>2, WrittenRunAdvances DEF RequestRunChanges, RejectRun
  <2> QED BY <1>2, <2>1, <2>2 DEF RecordApprovalDecision, ApprovalDecision, DecideInPart,
         ApproveTrd, RequestTrdChanges, RejectTrd
<1>3. CASE RunCommand
  <2>1. ASSUME NEW q \in Runs, NEW a \in Approvals, NEW p \in Actors,
               NEW d \in DeadlineChoices, NEW b \in SUBSET Approvals,
               SealRunManifest(q, a, b, p, d)
        PROVE  UNCHANGED runs[r] \/ SealedNow(r)
    <3>1. CASE q = r
      BY <2>1, <3>1 DEF SealedNow
    <3>2. CASE q # r
      BY <2>1, <3>2 DEF SealRunManifest, TypeOK
    <3> QED BY <3>1, <3>2
  <2>2. \A b \in SUBSET {c \in Approvals : IsEffective(c)} : b \in SUBSET Approvals
    OBVIOUS
  <2> QED BY <1>3, <2>1, <2>2 DEF RunCommand, PrepareRoleRun
<1>4. CASE WorkerCommand
  BY <1>4, WorkerAdvancesRuns
<1>5. CASE AcceptanceCommand
  <2>1. PICK q \in Runs, e \in Artifacts, v \in Artifacts :
          /\ AcceptableResults(q, e, v)
          /\ \/ ReworkImplementation(q, e, v)
             \/ ReworkUnclassified(q, e, v)
             \/ \E f \in UpstreamFindings : ReworkUpstream(q, e, v, f)
             \/ AcceptDelivery(q, e, v)
    BY <1>5 DEF AcceptanceCommand, ReworkImplementation, ReworkUnclassified, ReworkUpstream,
       AcceptDelivery
  <2>2. runs[q].status = "active"
    BY <2>1 DEF AcceptableResults
  <2> QED BY <2>1, <2>2, WrittenRunAdvances DEF ReworkImplementation, ReworkUnclassified,
         ReworkUpstream, AcceptDelivery, Underway
<1>6. CASE StopCommand
  <2>1. ASSUME NEW q \in Runs,
               \/ CancelIdleRun(q) \/ CancelBusyRun(q) \/ FinishCancelledStop(q)
               \/ \E u \in ReturnStatus \cup {"planning"} : FinishSupersededStop(q, u)
        PROVE  RunAdvanced(r)
    BY <2>1, WrittenRunAdvances DEF CancelIdleRun, CancelBusyRun, FinishCancelledStop,
       FinishSupersededStop, StopSettles, Underway
  <2> QED BY <1>6, <2>1 DEF StopCommand, CancelWithoutRun
<1>7. CASE InvalidateApproval
  <2>1. ASSUME NEW a \in Approvals, NEW action \in Invalidations, NEW q \in Runs,
               InvalidateBeforeRun(a, action, q) \/ InvalidateDuringRun(a, action, q)
        PROVE  RunAdvanced(r)
    BY <2>1, WrittenRunAdvances DEF InvalidateBeforeRun, InvalidateDuringRun,
       StoppedByInvalidation, Underway
  <2> QED BY <1>7, <2>1 DEF InvalidateApproval, InvalidateAfterClose, InvalidateWithoutRun
<1>8. CASE Environment
  BY <1>8, OtherTaskLeaves DEF Environment, RegisterArtifact, MarkOutboxDelivered,
     LeaseExpires, DeadlinePasses
<1> QED BY <1>1, <1>2, <1>3, <1>4, <1>5, <1>6, <1>7, <1>8 DEF Next

-----------------------------------------------------------------------------
(* What an open Run rests on. *)

(* An effective Approval of the Task stays as it is, but for a revocation.    *)
LEMMA EffectiveStays ==
  ASSUME TypeOK, Next, ~InvalidateApproval, NEW a \in OwnApprovals, IsEffective(a)
  PROVE  approvals'[a] = approvals[a]
BY ApprovalIsWritten DEF ApprovalWritten, RequestedApproval, DecidedApproval, MayDecide,
   EndedApproval, OverdueApproval, IsEffective, Affirmative, OwnApprovals

(* Losing an Approval, of whatever gate, leaves no Run open that is not       *)
(* stopping.                                                                  *)
LEMMA InvalidationStops ==
  ASSUME TypeOK, PhaseInv, InvalidateApproval, NEW r \in UnsettledRuns'
  PROVE  runs'[r].status = "stopping"
<1> USE DEF UnsettledRuns, Unsettled
<1>1. ASSUME NEW a \in Approvals, NEW action \in Invalidations, InvalidateAfterClose(a, action)
      PROVE  FALSE
  BY <1>1, NoOpenRun DEF InvalidateAfterClose
<1>2. ASSUME NEW a \in Approvals, NEW action \in Invalidations, InvalidateWithoutRun(a, action)
      PROVE  runs'[r].status = "stopping"
  BY <1>2 DEF InvalidateWithoutRun, NoRunToStop
<1>3. ASSUME NEW a \in Approvals, NEW action \in Invalidations, NEW q \in Runs,
             InvalidateBeforeRun(a, action, q) \/ InvalidateDuringRun(a, action, q)
      PROVE  runs'[r].status = "stopping"
  <2>1. q \in UnsettledRuns /\ \A s \in Runs : s # q => runs[s].status \in {"none", "settled"}
    BY <1>3 DEF InvalidateBeforeRun, InvalidateDuringRun, StoppedByInvalidation, PhaseInv,
       OneActiveRole
  <2>2. \/ runs' = [runs EXCEPT ![q] = RunSettled(q, "rejected")]
        \/ runs' = [runs EXCEPT ![q] = RunStopping(q, "superseded")]
    BY <1>3 DEF InvalidateBeforeRun, InvalidateDuringRun
  <2>3. \A s \in Runs : s # q => runs'[s] = runs[s]
    BY <2>2 DEF TypeOK
  <2>4. r \in Runs /\ Unsettled(runs'[r].status)
    OBVIOUS
  <2>5. r = q
    BY <2>1, <2>3, <2>4
  <2>6. runs'[q] = RunSettled(q, "rejected") \/ runs'[q] = RunStopping(q, "superseded")
    BY <2>2, <1>3 DEF TypeOK
  <2> QED BY <2>4, <2>5, <2>6, RunFields
<1> QED BY <1>1, <1>2, <1>3 DEF InvalidateApproval

OwnPrerequisitesEffective(r) ==
  \A a \in runs[r].prerequisites \cap OwnApprovals : IsEffective(a)

(* What the Run rests on as long as it is not stopping.                       *)
Rests(r) ==
  /\ OwnPrerequisitesEffective(r)
  /\ runs[r].status \in Underway => approvals[runs[r].authorization].status = "approved"

(* What the property says of one open Run.                                    *)
RestsIfOpen(r) ==
  /\ runs[r].authorization \in OwnApprovals
  /\ runs[r].status # "stopping" => Rests(r)

LEMMA RestParts ==
  RunRestsOnEffectiveApprovals <=> \A r \in UnsettledRuns : RestsIfOpen(r)
BY DEF RunRestsOnEffectiveApprovals, RestsIfOpen, Rests, OwnPrerequisitesEffective, Underway

(* Bound as before and to Approvals that stay, a Run rests as it did.         *)
LEMMA RestStays ==
  ASSUME NEW r, Rests(r), runs[r].authorization \in OwnApprovals,
         \A a \in OwnApprovals : IsEffective(a) => approvals'[a] = approvals[a],
         runs'[r].prerequisites = runs[r].prerequisites,
         runs'[r].authorization = runs[r].authorization,
         runs'[r].status \in Underway => runs[r].status \in Underway
  PROVE  Rests(r)'
BY DEF Rests, OwnPrerequisitesEffective, IsEffective, Affirmative

(* A Run that rests on effective Approvals, goes on and loses none, rests on  *)
(* them still.                                                                *)
LEMMA StepKeepsRest ==
  TypeOK /\ PhaseInv /\ RunRestsOnEffectiveApprovals /\ [Next]_vars =>
    RunRestsOnEffectiveApprovals'
<1>1. ASSUME RunRestsOnEffectiveApprovals, UNCHANGED vars
      PROVE  RunRestsOnEffectiveApprovals'
  BY <1>1 DEF RunRestsOnEffectiveApprovals, UnsettledRuns, IsEffective, vars
<1>2. ASSUME TypeOK, PhaseInv, \A s \in UnsettledRuns : RestsIfOpen(s), Next,
             NEW r \in UnsettledRuns'
      PROVE  RestsIfOpen(r)'
  <2>1. r \in Runs /\ Unsettled(runs'[r].status) /\ runs[r] \in Run
    BY <1>2 DEF UnsettledRuns, TypeOK
  <2>2. runs'[r].status # "stopping" =>
          \A a \in OwnApprovals : IsEffective(a) => approvals'[a] = approvals[a]
    BY <1>2, EffectiveStays, InvalidationStops
  <2>3. CASE UNCHANGED runs[r]
    <3>1. RestsIfOpen(r)
      BY <1>2, <2>1, <2>3 DEF UnsettledRuns
    <3> QED BY <2>2, <2>3, <3>1, RestStays DEF RestsIfOpen
  <2>4. CASE RunAdvanced(r)
    <3>1. /\ r \in UnsettledRuns
          /\ runs'[r].status # "stopping" => runs[r].status # "stopping"
          /\ runs'[r].status \in Underway => runs[r].status \in Underway
          /\ runs'[r].prerequisites = runs[r].prerequisites
          /\ runs'[r].authorization = runs[r].authorization
      BY <2>1, <2>4 DEF UnsettledRuns, RunAdvanced
    <3>2. RestsIfOpen(r)
      BY <1>2, <3>1
    <3> QED BY <2>2, <3>1, <3>2, RestStays DEF RestsIfOpen
  <2>5. CASE SealedNow(r)
    <3>1. PICK a \in OwnApprovals, b \in SUBSET Approvals :
            /\ runs'[r].status = "awaiting_authorization" /\ runs'[r].prerequisites = b
            /\ runs'[r].authorization = a /\ PrerequisitesBind(b)
      BY <1>2, <2>1, <2>5 DEF SealedNow, SealRunManifest, TypeOK
    <3> QED BY <2>2, <3>1 DEF PrerequisitesBind, RestsIfOpen, Rests, OwnPrerequisitesEffective,
           IsEffective, Underway
  <2>6. CASE AuthorizedNow(r)
    <3>1. PICK a \in Approvals, p \in Actors, role \in RequiredRoles, decision \in Decisions :
            AuthorizeRun(a, r, p, role, decision)
      BY <2>6 DEF AuthorizedNow
    <3>2. /\ runs[r].authorization = a /\ runs[r].status = "awaiting_authorization"
          /\ runs' = [runs EXCEPT ![r] = RunMoved(r, "authorized")]
      BY <3>1 DEF AuthorizeRun, AwaitsAuthorization
    <3>3. a \in OwnApprovals /\ Rests(r)
      BY <1>2, <2>1, <3>2 DEF UnsettledRuns, Unsettled, RestsIfOpen
    <3>4. runs'[r] = RunMoved(r, "authorized")
      BY <1>2, <2>1, <3>2 DEF TypeOK
    <3>5. /\ runs'[r].authorization = a
          /\ runs'[r].prerequisites = runs[r].prerequisites
          /\ runs'[r].status # "stopping"
      BY <1>2, <2>1, <3>2, <3>4, RunBindings, RunFields
    <3>6. approvals'[a].status = "approved"
      BY <1>2, <3>1 DEF AuthorizeRun, Decide, TypeOK, Approval
    <3> QED BY <2>2, <3>3, <3>5, <3>6 DEF RestsIfOpen, Rests, OwnPrerequisitesEffective,
           IsEffective
  <2> QED BY <1>2, <2>1, <2>3, <2>4, <2>5, <2>6, RunIsAdvanced
<1>3. ASSUME TypeOK, PhaseInv, RunRestsOnEffectiveApprovals, Next
      PROVE  RunRestsOnEffectiveApprovals'
  <2>1. \A r \in UnsettledRuns : RestsIfOpen(r)
    BY <1>3, RestParts
  <2>2. \A r \in UnsettledRuns' : RestsIfOpen(r)'
    BY <1>2, <1>3, <2>1
  <2>3. RunRestsOnEffectiveApprovals' <=> \A r \in UnsettledRuns' : RestsIfOpen(r)'
    BY DEF RunRestsOnEffectiveApprovals, RestsIfOpen, Rests, OwnPrerequisitesEffective, Underway
  <2> QED BY <2>2, <2>3
<1> QED BY <1>1, <1>3

(* However revocations, expiries and withdrawals fall between the commands,   *)
(* no Run is authorized, active or blocked unless its authorization and those *)
(* prerequisites of its manifest that are Approvals of its own Task are in    *)
(* effect: applyApprovalInvalidation finds the one open Run of the Approval's *)
(* Task, whatever its status.  It finds no Run of another Task, so nothing is *)
(* said of a prerequisite that is another Task's Approval.                    *)
THEOREM RunsRestOnEffectiveApprovals == Spec => []RunRestsOnEffectiveApprovals
<1>1. Init => RunRestsOnEffectiveApprovals
  BY DEF Init, NoRun, RunRestsOnEffectiveApprovals, UnsettledRuns, Unsettled
<1>2. TypeOK /\ PhaseInv /\ RunRestsOnEffectiveApprovals /\ [Next]_vars =>
        RunRestsOnEffectiveApprovals'
  BY StepKeepsRest
<1> QED BY <1>1, <1>2, TypeCorrect, PhaseCorrect, PTL DEF Spec

-----------------------------------------------------------------------------
(* The design a Run is bound to. *)

(* The Approvals a manifest names are rows that exist.                        *)
PrerequisitesExist ==
  \A r \in UnsettledRuns : \A a \in runs[r].prerequisites : approvals[a].status # "none"

BoundInv == ManifestBindsDesign /\ PrerequisitesExist

(* Only contextualization and drafting change the Task's context or TRD.      *)
LEMMA DesignIsKept ==
  ASSUME TypeOK, Next, ~DesignCommand
  PROVE  task'.context = task.context /\ task'.trd = task.trd
<1>1. task \in Task
  BY DEF TypeOK
<1>2. \A s, e, v : /\ TaskMoved(s, e, v).context = task.context
                   /\ TaskMoved(s, e, v).trd = task.trd
                   /\ TaskBlocked(s, e, v).context = task.context
                   /\ TaskBlocked(s, e, v).trd = task.trd
                   /\ TaskClosed(s, e, v).context = task.context
                   /\ TaskClosed(s, e, v).trd = task.trd
  BY <1>1 DEF TaskMoved, TaskBlocked, TaskClosed, Task
<1>3. CASE RecordApprovalDecision
  <2>1. PICK a \in Approvals, p \in Actors, role \in RequiredRoles, decision \in Decisions :
          ApprovalDecision(a, p, role, decision)
    BY <1>3 DEF RecordApprovalDecision
  <2> QED BY <1>2, <2>1 DEF ApprovalDecision, DecideInPart, ApproveTrd, RequestTrdChanges,
         RejectTrd, AuthorizeRun, RequestRunChanges, RejectRun
<1>4. CASE RunCommand
  BY <1>4 DEF RunCommand, SealRunManifest, PrepareRoleRun
<1>5. CASE WorkerCommand
  <2>1. ASSUME NEW g \in grants, NEW e \in Artifacts, NEW v \in Artifacts,
               SubmitVerification(g, e, v)
        PROVE  task'.context = task.context /\ task'.trd = task.trd
    BY <1>2, <2>1 DEF SubmitVerification, SubmitPass, SubmitImplementationFailure, SubmitBlocked,
       SubmitUpstreamFailure
  <2>2. ASSUME NEW g \in grants, BlockRoleRun(g)
        PROVE  task'.context = task.context /\ task'.trd = task.trd
    BY <1>2, <2>2 DEF BlockRoleRun
  <2>3. ASSUME NEW g \in grants, NEW e \in Artifacts, SubmitExecutionForVerification(g, e)
        PROVE  task'.context = task.context /\ task'.trd = task.trd
    BY <1>2, <2>3 DEF SubmitExecutionForVerification
  <2> QED BY <1>5, <2>1, <2>2, <2>3 DEF WorkerCommand, AcquireRoleRunLease, MarkRoleRunRunning,
         MarkRoleRunSettling, SettleRoleRun
<1>6. CASE AcceptanceCommand
  BY <1>2, <1>6 DEF AcceptanceCommand, ReworkImplementation, ReworkUnclassified, ReworkUpstream,
     AcceptDelivery
<1>7. CASE StopCommand
  <2>1. ASSUME NEW r \in Runs,
               \/ CancelIdleRun(r) \/ CancelBusyRun(r) \/ FinishCancelledStop(r)
               \/ \E u \in ReturnStatus \cup {"planning"} : FinishSupersededStop(r, u)
        PROVE  task'.context = task.context /\ task'.trd = task.trd
    BY <1>2, <2>1 DEF CancelIdleRun, CancelBusyRun, FinishCancelledStop, FinishSupersededStop
  <2> QED BY <1>2, <1>7, <2>1 DEF StopCommand, CancelWithoutRun
<1>8. CASE InvalidateApproval
  BY <1>2, <1>8 DEF InvalidateApproval, InvalidateAfterClose, InvalidateBeforeRun,
     InvalidateDuringRun, InvalidateWithoutRun
<1>9. CASE Environment
  BY <1>9, OtherTaskLeaves DEF Environment, RegisterArtifact, MarkOutboxDelivered,
     LeaseExpires, DeadlinePasses
<1> QED BY <1>3, <1>4, <1>5, <1>6, <1>7, <1>8, <1>9 DEF Next

(* While they do, no Run is open.                                             *)
LEMMA NoRunDuringDesign ==
  ASSUME TypeOK, PhaseInv, DesignCommand
  PROVE  UnsettledRuns' = {}
<1>1. UNCHANGED runs /\ task.status \in {"intake", "contextualizing", "drafting_trd"}
  BY DEF DesignCommand, StartContextualization, CompleteContextualization, SubmitTrdForApproval
<1>2. \A r \in Runs : runs[r].status \in {"none", "settled"}
  BY <1>1, NoOpenRun
<1> QED BY <1>1, <1>2 DEF UnsettledRuns, Unsettled

(* An Approval that exists keeps its gate and its subject, and exists on.     *)
LEMMA SubjectIsKept ==
  ASSUME TypeOK, Next, NEW a \in Approvals, approvals[a].status # "none"
  PROVE  /\ approvals'[a].status # "none"
         /\ approvals'[a].gate = approvals[a].gate
         /\ approvals'[a].subject = approvals[a].subject
<1>1. approvals[a] \in Approval
  BY DEF TypeOK
<1>2. CASE approvals'[a] = approvals[a]
  BY <1>2
<1>3. CASE DecidedApproval(a)
  <2>1. PICK p \in Actors, role \in RequiredRoles, decision \in Decisions :
          /\ MayDecide(a, p, role, decision)
          /\ approvals'[a] = [approvals[a] EXCEPT
               !.status = AggregateApproval(Decided(a, p, role, decision)),
               !.decisions = Decided(a, p, role, decision)]
    BY <1>3 DEF DecidedApproval
  <2>2. AggregateApproval(Decided(a, p, role, decision)) # "none"
    BY DEF AggregateApproval
  <2> QED BY <1>1, <2>1, <2>2 DEF Approval
<1>4. CASE EndedApproval(a)
  BY <1>1, <1>4 DEF EndedApproval, Invalidations, Approval
<1>5. CASE OverdueApproval(a)
  BY <1>1, <1>5 DEF OverdueApproval, Approval
<1> QED BY <1>2, <1>3, <1>4, <1>5, ApprovalIsWritten DEF ApprovalWritten, RequestedApproval

(* A Run open after a step is bound to the design the Task has then.          *)
LEMMA StepKeepsBinding ==
  TypeOK /\ PhaseInv /\ BoundInv /\ [Next]_vars => BoundInv'
<1>1. ASSUME BoundInv, UNCHANGED vars
      PROVE  BoundInv'
  BY <1>1 DEF BoundInv, ManifestBindsDesign, PrerequisitesExist, UnsettledRuns, vars
<1>2. ASSUME TypeOK, PhaseInv, BoundInv, Next, NEW r \in UnsettledRuns'
      PROVE  /\ runs'[r].context = task'.context /\ runs'[r].trd = task'.trd
             /\ \E a \in runs'[r].prerequisites :
                  approvals'[a].gate = "trd_approval" /\ approvals'[a].subject = task'.trd
             /\ \A a \in runs'[r].prerequisites : approvals'[a].status # "none"
  <2>1. r \in Runs /\ Unsettled(runs'[r].status) /\ runs[r] \in Run
    BY <1>2 DEF UnsettledRuns, TypeOK
  <2>2. task'.context = task.context /\ task'.trd = task.trd
    BY <1>2, DesignIsKept, NoRunDuringDesign
  <2>3. CASE UNCHANGED runs[r] \/ RunAdvanced(r)
    <3>1. /\ r \in UnsettledRuns /\ runs'[r].prerequisites = runs[r].prerequisites
          /\ runs'[r].context = runs[r].context /\ runs'[r].trd = runs[r].trd
      BY <2>1, <2>3 DEF UnsettledRuns, RunAdvanced
    <3>2. /\ runs[r].context = task.context /\ runs[r].trd = task.trd
          /\ \E a \in runs[r].prerequisites :
               approvals[a].gate = "trd_approval" /\ approvals[a].subject = task.trd
          /\ \A a \in runs[r].prerequisites : approvals[a].status # "none"
      BY <1>2, <3>1 DEF BoundInv, ManifestBindsDesign, PrerequisitesExist
    <3>3. runs[r].prerequisites \subseteq Approvals
      BY <2>1 DEF Run
    <3> QED BY <1>2, <2>2, <3>1, <3>2, <3>3, SubjectIsKept
  <2>4. CASE SealedNow(r)
    <3>1. PICK b \in SUBSET Approvals :
            /\ runs'[r].prerequisites = b /\ PrerequisitesBind(b)
            /\ runs'[r].context = task.context /\ runs'[r].trd = task.trd
      BY <1>2, <2>1, <2>4 DEF SealedNow, SealRunManifest, TypeOK
    <3>2. \A a \in b : a \in Approvals /\ approvals[a].status # "none"
      BY <3>1 DEF PrerequisitesBind, IsEffective, Affirmative
    <3>3. \E a \in b : approvals[a].gate = "trd_approval" /\ approvals[a].subject = task.trd
      BY <3>1 DEF PrerequisitesBind
    <3> QED BY <1>2, <2>2, <3>1, <3>2, <3>3, SubjectIsKept
  <2>5. CASE AuthorizedNow(r)
    <3>1. /\ runs[r].status = "awaiting_authorization"
          /\ runs' = [runs EXCEPT ![r] = RunMoved(r, "authorized")]
      BY <2>5 DEF AuthorizedNow, AuthorizeRun, AwaitsAuthorization
    <3>2. runs'[r] = RunMoved(r, "authorized") /\ r \in UnsettledRuns
      BY <1>2, <2>1, <3>1 DEF TypeOK, UnsettledRuns, Unsettled
    <3>3. /\ runs'[r].prerequisites = runs[r].prerequisites
          /\ runs'[r].context = runs[r].context /\ runs'[r].trd = runs[r].trd
      BY <1>2, <2>1, <3>2, RunBindings
    <3>4. /\ runs[r].context = task.context /\ runs[r].trd = task.trd
          /\ \E a \in runs[r].prerequisites :
               approvals[a].gate = "trd_approval" /\ approvals[a].subject = task.trd
          /\ \A a \in runs[r].prerequisites : approvals[a].status # "none"
      BY <1>2, <3>2 DEF BoundInv, ManifestBindsDesign, PrerequisitesExist
    <3>5. runs[r].prerequisites \subseteq Approvals
      BY <2>1 DEF Run
    <3> QED BY <1>2, <2>2, <3>3, <3>4, <3>5, SubjectIsKept
  <2> QED BY <1>2, <2>1, <2>3, <2>4, <2>5, RunIsAdvanced
<1>3. ASSUME TypeOK, PhaseInv, BoundInv, Next
      PROVE  BoundInv'
  BY <1>2, <1>3 DEF BoundInv, ManifestBindsDesign, PrerequisitesExist
<1> QED BY <1>1, <1>3

(* The manifest a Run was sealed with stays the Task's design for as long as  *)
(* the Run is open, through rework, blocking and a revoked TRD Approval: the  *)
(* Task only returns to design once the Run has settled.                      *)
THEOREM ManifestsBindTheDesign == Spec => []ManifestBindsDesign
<1>1. Init => BoundInv
  BY DEF Init, NoRun, BoundInv, ManifestBindsDesign, PrerequisitesExist, UnsettledRuns, Unsettled
<1>2. TypeOK /\ PhaseInv /\ BoundInv /\ [Next]_vars => BoundInv'
  BY StepKeepsBinding
<1>3. BoundInv => ManifestBindsDesign
  BY DEF BoundInv
<1> QED BY <1>1, <1>2, <1>3, TypeCorrect, PhaseCorrect, PTL DEF Spec
=============================================================================
