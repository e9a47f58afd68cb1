SPECIFICATION ExecutionSpec
CHECK_DEADLOCK FALSE
CONSTANTS
  Nil = Nil
  p1 = p1  p3 = p3
  lead = lead
  x1 = x1  x2 = x2  x3 = x3
  r1 = r1
  w1 = w1
  e1 = e1  e2 = e2  e3 = e3
  k1 = k1  k2 = k2
  RolesOf <- OneRole
  Contexts = {c1}
  Trds = {t1}
  Approvals = {a1, a2}
  OtherApprovals = {}
  Runs = {r1}
  RoleRuns = {x1, x2}
  Artifacts = {e1, e2, e3}
  Actors = {p1, p3}
  AuthorityRoles = {lead}
  RequiredRoles = {lead}
  Workers = {w1}
  MaxRoleRuns = 3
  MaxAttempts = 2
  MaxToken = 2
  MaxInputs = 1
  DeadlineChoices = {"none"}
  ExpiryStatuses = {"starting", "running", "settling"}
  RegisteredKinds = {}
  DeliveredTypes = {}
  Callers = {h1, h2}
  Requests <- TwoRequests
  Operations = {k1}
  OwnerOf <- OwnerOfEach
  Judgements <- FiveJudgements
  RequiredChecks = 1
  DesignApproval = a1
  RunApproval = a2
  Requester = p3
SYMMETRY Symmetry
INVARIANTS
  ExecutionTypeOK
  OneSession
  SettledOperationsAreKnown
PROPERTIES
  HandoffRestsOnLease
