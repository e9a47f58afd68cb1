---------------------------- MODULE MCToolGateway ----------------------------
(* Instances of ToolGateway for TLC.                                         *)
EXTENDS ToolGateway, TLC

CONSTANTS g1, g2, k1, k2, l1, l2, f1, old, new, other

Write(k, l, content, expected) ==
  [call |-> k, lease |-> l, path |-> f1, content |-> content, expected |-> expected]

(* A call, and the same call again under the lease that followed.            *)
OneCall == {Write(k1, l, new, old) : l \in Leases}

(* Two calls that write the same file back and forth, one of them not        *)
(* permitted as first asked.                                                 *)
TwoCalls == {Write(k1, l1, new, old), Write(k2, l1, old, new), Write(k2, l1, old, other)}

PermittedWrites == {req \in Requests : req.expected # other}

Symmetry == Permutations(Gateways)
=============================================================================
