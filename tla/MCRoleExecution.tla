--------------------------- MODULE MCRoleExecution ---------------------------
(* Instances of RoleExecution for TLC.                                       *)
EXTENDS RoleExecution, TLC

CONSTANTS p1, p3, lead, x1, x2, x3, r1, w1, e1, e2, e3, k1, k2

OneRole == [p \in Actors |-> IF p = p1 THEN {lead} ELSE {}]

Execute(x, e) ==
  [roleRun |-> x, role |-> "executor", run |-> r1, worker |-> w1, result |-> e,
   executor |-> Nil, execution |-> Nil]

Verify(x, v, executor, e) ==
  [roleRun |-> x, role |-> "verifier", run |-> r1, worker |-> w1, result |-> v,
   executor |-> executor, execution |-> e]

(* An executor, its verifier, and an executor that may follow either.        *)
ThreeRoles == {Execute(x1, e1), Verify(x2, e2, x1, e1), Execute(x3, e3)}

(* An executor and its verifier.                                             *)
TwoRequests == {Execute(x1, e1), Verify(x2, e2, x1, e1)}

Judge(verdict, finding) == [verdict |-> verdict, finding |-> finding]

(* Each verdict, each way a failure is routed, and one that is not valid.    *)
FiveJudgements ==
  {Judge("pass", "none"), Judge("fail", "implementation"), Judge("fail", "trd"),
   Judge("fail", "external"), Judge("blocked", "external")}

(* Results that lead to acceptance, and results that lead back to work.      *)
TwoJudgements == {Judge("pass", "none"), Judge("fail", "implementation")}

Symmetry == Permutations(Callers)

OwnerOfEach == [k \in Operations |-> IF k = k1 THEN x1 ELSE x3]
=============================================================================
