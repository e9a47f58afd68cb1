SPECIFICATION Spec
CHECK_DEADLOCK FALSE
CONSTANTS
  Nil = Nil
  p1 = p1  p2 = p2  p3 = p3
  lead = lead  qa = qa
  RolesOf <- TwoRoles
  Contexts = {c1}
  Trds = {t1}
  Approvals = {a1, a2}
  OtherApprovals = {}
  Runs = {r1}
  RoleRuns = {}
  Artifacts = {}
  Actors = {p1, p2, p3}
  AuthorityRoles = {lead, qa}
  RequiredRoles = {lead, qa}
  Workers = {}
  MaxRoleRuns = 2
  MaxAttempts = 2
  MaxToken = 1
  MaxInputs = 1
  DeadlineChoices = {"none", "ahead"}
  ExpiryStatuses = {}
  RegisteredKinds = {}
  DeliveredTypes = {}
SYMMETRY Symmetry
INVARIANTS
  FourEyes
PROPERTIES
  DecidedOnce
