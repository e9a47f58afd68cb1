------------------------------ MODULE WriteOnce ------------------------------
(* What a store that is written under ids promises its callers: the first    *)
(* write under an id stays, whoever repeats it is answered with what was     *)
(* stored then, and whoever writes something else under the id is refused.   *)
(* Promised for command results                                              *)
(* (docs/design/control-plane-persistence-and-recovery.md, "Command") and    *)
(* for Evidence records (packages/assurance).                                *)
CONSTANTS
  Callers,
  Keys,        \* ids
  Contents,    \* what a caller asks to be stored (its digest)
  Results,     \* what the store adds: a command's result, a record's time
  Nil

VARIABLES
  stored,      \* the row under each id
  asks         \* what each caller asked last, and was answered

Row == [content: Contents, result: Results]

(* row is what a caller with the answer "row" was shown.                     *)
Ask ==
  [key: Keys, content: Contents, row: Row \cup {Nil},
   answer: {"none", "row", "conflict", "failed"}]

TypeOK ==
  /\ stored \in [Keys -> Row \cup {Nil}]
  /\ asks \in [Callers -> Ask \cup {Nil}]

Init ==
  /\ stored = [k \in Keys |-> Nil]
  /\ asks = [c \in Callers |-> Nil]

Pending(c) == asks[c] # Nil /\ asks[c].answer = "none"

Asks(c) ==
  /\ asks'[c] \in [key: Keys, content: Contents, row: {Nil}, answer: {"none"}]
  /\ asks' = [asks EXCEPT ![c] = asks'[c]]
  /\ UNCHANGED stored

Tell(c, told, shown) ==
  asks' = [asks EXCEPT ![c] = [key |-> @.key, content |-> @.content, answer |-> told,
                               row |-> shown]]

Show(c, row) == Tell(c, "row", row)

Refuse(c, answer) == Tell(c, answer, Nil)

Write(c, result) ==
  LET row == [content |-> asks[c].content, result |-> result]
  IN  /\ Pending(c)
      /\ stored[asks[c].key] = Nil
      /\ stored' = [stored EXCEPT ![asks[c].key] = row]
      /\ \/ Show(c, row)
         \/ UNCHANGED asks

Answer(c) ==
  /\ Pending(c)
  /\ stored[asks[c].key] # Nil
  /\ stored[asks[c].key].content = asks[c].content
  /\ Show(c, stored[asks[c].key])
  /\ UNCHANGED stored

Conflict(c) ==
  /\ Pending(c)
  /\ stored[asks[c].key] # Nil
  /\ stored[asks[c].key].content # asks[c].content
  /\ Refuse(c, "conflict")
  /\ UNCHANGED stored

(* The store or the reply is lost: the caller does not learn what happened.  *)
Fail(c) ==
  /\ asks[c] # Nil
  /\ Refuse(c, "failed")
  /\ UNCHANGED stored

Forget(c) ==
  /\ asks' = [asks EXCEPT ![c] = Nil]
  /\ UNCHANGED stored

Next == \E c \in Callers :
  \/ Asks(c)
  \/ \E result \in Results : Write(c, result)
  \/ Answer(c)
  \/ Conflict(c)
  \/ Fail(c)
  \/ Forget(c)

Spec == Init /\ [][Next]_<<stored, asks>>
=============================================================================
