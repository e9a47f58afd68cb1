--------------------------- MODULE OperationLedger ---------------------------
(* What the tool gateway promises of one side effect, per tool call and      *)
(* whatever processes, crashes and replays there are                         *)
(* (docs/design/tool-gateway-v0.1.md, "Operation ledger").                   *)
EXTENDS Naturals

CONSTANT Calls     \* tool calls, one Operation each

VARIABLES
  status,          \* status of the Operation
  dispatched,      \* the side effect was handed to a worker
  told             \* final outcomes reported to callers

Final == {"denied", "failed", "succeeded"}

Init ==
  /\ status = [k \in Calls |-> "none"]
  /\ dispatched = [k \in Calls |-> FALSE]
  /\ told = [k \in Calls |-> {}]

(* A caller may be told the outcome the step records, nothing else.          *)
MayTell(k, outcome) ==
  \E tells \in BOOLEAN :
    told' = IF tells THEN [told EXCEPT ![k] = @ \cup {outcome}] ELSE told

Permit(k) ==
  /\ status[k] = "none"
  /\ status' = [status EXCEPT ![k] = "authorized"]
  /\ UNCHANGED <<dispatched, told>>

Deny(k) ==
  /\ status[k] = "none"
  /\ status' = [status EXCEPT ![k] = "denied"]
  /\ MayTell(k, "denied")
  /\ UNCHANGED dispatched

(* Once, and only after the Intent and the status are committed.             *)
Dispatch(k) ==
  /\ status[k] = "authorized"
  /\ ~dispatched[k]
  /\ status' = [status EXCEPT ![k] = "executing"]
  /\ dispatched' = [dispatched EXCEPT ![k] = TRUE]
  /\ UNCHANGED told

Withdraw(k) ==
  /\ status[k] = "authorized"
  /\ status' = [status EXCEPT ![k] = "failed"]
  /\ MayTell(k, "failed")
  /\ UNCHANGED dispatched

LoseTrack(k) ==
  /\ status[k] = "executing"
  /\ status' = [status EXCEPT ![k] = "unknown"]
  /\ UNCHANGED <<dispatched, told>>

Settle(k, outcome) ==
  /\ status[k] \in {"executing", "unknown"}
  /\ status' = [status EXCEPT ![k] = outcome]
  /\ MayTell(k, outcome)
  /\ UNCHANGED dispatched

(* A replay is answered from the ledger.                                     *)
Replay(k) ==
  /\ status[k] \in Final
  /\ told' = [told EXCEPT ![k] = @ \cup {status[k]}]
  /\ UNCHANGED <<status, dispatched>>

Next == \E k \in Calls :
  \/ Permit(k)
  \/ Deny(k)
  \/ Dispatch(k)
  \/ Withdraw(k)
  \/ LoseTrack(k)
  \/ \E outcome \in {"failed", "succeeded"} : Settle(k, outcome)
  \/ Replay(k)

Spec == Init /\ [][Next]_<<status, dispatched, told>>
=============================================================================
