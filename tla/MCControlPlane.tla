--------------------------- MODULE MCControlPlane ---------------------------
(* Instances of ControlPlane for TLC.                                        *)
EXTENDS ControlPlaneClaims, TLC

CONSTANTS p1, p2, p3, lead, qa

(* One required role, held by two people; the third holds none.              *)
OneRole == [p \in Actors |-> IF p \in {p1, p2} THEN {lead} ELSE {}]

(* Two required roles; the first person holds both.                          *)
TwoRoles == [p \in Actors |-> IF p = p1 THEN {lead, qa}
                              ELSE IF p = p2 THEN {qa} ELSE {lead}]

Symmetry ==
  Permutations(OwnApprovals) \cup Permutations(OtherApprovals)
    \cup Permutations(Runs) \cup Permutations(RoleRuns) \cup Permutations(Artifacts) \cup Permutations(Workers) \cup Permutations(Trds)
=============================================================================
