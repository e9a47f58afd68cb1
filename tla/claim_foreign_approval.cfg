SPECIFICATION Spec
CHECK_DEADLOCK FALSE
CONSTANTS
  Nil = Nil
  p1 = p1  p2 = p2  p3 = p3
  lead = lead  qa = qa
  RolesOf <- OneRole
  Contexts = {c1}
  Trds = {t1}
  Approvals = {a1, a2, o1}
  OtherApprovals = {o1}
  Runs = {r1}
  RoleRuns = {x1}
  Artifacts = {e1}
  Actors = {p1, p3}
  AuthorityRoles = {lead}
  RequiredRoles = {lead}
  Workers = {w1}
  MaxRoleRuns = 2
  MaxAttempts = 2
  MaxToken = 1
  MaxInputs = 1
  DeadlineChoices = {"none"}
  ExpiryStatuses = {}
  RegisteredKinds = {}
  DeliveredTypes = {}
SYMMETRY Symmetry
INVARIANTS
  LostApprovalStopsRun
