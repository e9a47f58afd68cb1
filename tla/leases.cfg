SPECIFICATION Spec
CHECK_DEADLOCK FALSE
CONSTANTS
  Nil = Nil
  p1 = p1  p2 = p2  p3 = p3
  lead = lead  qa = qa
  RolesOf <- OneRole
  Contexts = {c1}
  Trds = {t1}
  Approvals = {a1, a2}
  OtherApprovals = {}
  Runs = {r1}
  RoleRuns = {x1, x2}
  Artifacts = {e1, e2}
  Actors = {p1, p3}
  AuthorityRoles = {lead}
  RequiredRoles = {lead}
  Workers = {w1, w2}
  MaxRoleRuns = 2
  MaxAttempts = 2
  MaxToken = 2
  MaxInputs = 1
  DeadlineChoices = {"none"}
  ExpiryStatuses = {"starting", "running", "settling"}
  RegisteredKinds = {"execution_result"}
  DeliveredTypes = {}
SYMMETRY Symmetry
INVARIANTS
  SettledRunIsQuiet
  SessionIsFenced
  HeldWorkMayGoOn
  StopIsStuckOnStrandedWork
PROPERTIES
  NoNewWorkAfterStop
  SettledIsFinal
