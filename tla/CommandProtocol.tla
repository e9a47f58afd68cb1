--------------------------- MODULE CommandProtocol ---------------------------
(***************************************************************************)
(* The two durable stores as their callers meet them: the Evidence store   *)
(* (packages/assurance/src/sqlite-evidence-store.ts, put) and the command  *)
(* transaction of the control plane with its outbox                        *)
(* (packages/control-plane/src/sqlite-control-plane.ts, command).          *)
(*                                                                         *)
(* A caller stores Evidence and then sends the command that cites it, both *)
(* under ids derived from its job, and sends both again when it does not   *)
(* learn what happened.  A deliverer hands out the pending events and marks *)
(* them delivered, by a command too.  The processes share the files: a step *)
(* is one SQL statement of one of them.                                     *)
(***************************************************************************)
EXTENDS Integers, Sequences, FiniteSets

CONSTANTS
  Callers,
  Deliverer,
  Jobs,         \* each has one Evidence id and one command id
  Contents,     \* of the Evidence a caller stores
  Instants,     \* readings of the clock
  MaxFaults,    \* bound: crashes, lost replies and I/O errors
  Nil

VARIABLES
  evidence,     \* evidence_records: the row under each id
  database,     \* the committed tables of the control plane
  transaction,  \* the open write transaction and its view of the tables
  calls,        \* what each process is doing
  received,     \* how often each event was handed out
  faults        \* how often something went wrong

vars == <<evidence, database, transaction, calls, received, faults>>

-----------------------------------------------------------------------------

Processes == Callers \cup {Deliverer}

(* An Evidence record; its reference carries the digest of all of it.        *)
Record == [content: Contents, result: Instants]

(* The event the command that reaches a version puts in the outbox.          *)
Events == 1..Cardinality(Jobs)

Versions == 0..Cardinality(Jobs)

(* What the request digest covers.                                           *)
Inputs ==
  [kind: {"change"}, ref: Record, expected: Versions]
    \cup [kind: {"mark"}, event: Events]

CommandIds == (Jobs \X {"change"}) \cup (Events \X {"mark"})

Row == [content: Inputs, result: Versions]

Tables ==
  [version: Versions, outbox: Seq({"pending", "delivered"}),
   commands: [CommandIds -> Row \cup {Nil}]]

PutSteps == {"find", "insert", "find again", "get"}

CommandSteps == {"begin", "look up", "act", "record", "commit"}

Call ==
  [step: {"idle", "answered"} \cup PutSteps \cup CommandSteps,
   job: Jobs \cup {Nil}, content: Contents \cup {Nil}, expected: Versions,
   ref: Record \cup {Nil}, event: Versions,
   reply: {"none", "result", "conflict", "rejected", "failed"}, result: Versions]

Transaction == [by: Processes, tables: Tables]

ASSUME ProtocolAssumption ==
  /\ IsFiniteSet(Jobs)
  /\ Deliverer \notin Callers
  /\ MaxFaults \in Nat
  /\ Nil \notin Jobs \cup Contents
  /\ Nil \notin Record /\ Nil \notin Row /\ Nil \notin Transaction

(* The rows and the calls have their types, and an event is handed out again  *)
(* only if something failed.                                                 *)
ProtocolTypeOK ==
  /\ evidence \in [Jobs -> Record \cup {Nil}]
  /\ database \in Tables
  /\ transaction \in Transaction \cup {Nil}
  /\ calls \in [Processes -> Call]
  /\ received \in [Events -> 0..faults + 1]
  /\ faults \in 0..MaxFaults
  /\ \A c \in Callers : calls[c].step \in CommandSteps => calls[c].ref # Nil

NoCall ==
  [step |-> "idle", job |-> Nil, content |-> Nil, expected |-> 0, ref |-> Nil,
   event |-> 0, reply |-> "none", result |-> 0]

Init ==
  /\ evidence = [j \in Jobs |-> Nil]
  /\ database = [version |-> 0, outbox |-> << >>,
                 commands |-> [i \in CommandIds |-> Nil]]
  /\ transaction = Nil
  /\ calls = [p \in Processes |-> NoCall]
  /\ received = [e \in Events |-> 0]
  /\ faults = 0

-----------------------------------------------------------------------------
(* A caller. *)

At(p, step) == calls[p].step = step

SetCall(p, call) == calls' = [calls EXCEPT ![p] = call]

Goto(p, step) == SetCall(p, [calls[p] EXCEPT !.step = step])

Return(p, reply, result) ==
  SetCall(p, [calls[p] EXCEPT !.step = "answered", !.reply = reply, !.result = result])

Throw(p, reply) == Return(p, reply, 0)

UnchangedStores == UNCHANGED <<evidence, database, transaction>>

Fault == faults < MaxFaults /\ faults' = faults + 1

(* It reads the version its command will expect.                             *)
Start(c) ==
  /\ At(c, "idle")
  /\ \E job \in Jobs, content \in Contents :
       SetCall(c, [NoCall EXCEPT !.step = "find", !.job = job, !.content = content,
                                 !.expected = database.version])
  /\ UnchangedStores /\ UNCHANGED <<received, faults>>

(* It kept the request and sends it again, under the same ids.               *)
Retry(c) ==
  /\ At(c, "answered") /\ calls[c].reply = "failed"
  /\ SetCall(c, [calls[c] EXCEPT !.step = "find", !.ref = Nil, !.reply = "none",
                                 !.result = 0])
  /\ UnchangedStores /\ UNCHANGED <<received, faults>>

(* No row was written for a command that was rejected: it may be sent again  *)
(* with the version that is there now.                                       *)
Reread(c) ==
  /\ At(c, "answered") /\ calls[c].reply = "rejected"
  /\ SetCall(c, [calls[c] EXCEPT !.step = "find", !.ref = Nil, !.reply = "none",
                                 !.expected = database.version])
  /\ UnchangedStores /\ UNCHANGED <<received, faults>>

LoseReply(c) ==
  /\ At(c, "answered") /\ calls[c].reply # "failed"
  /\ Fault
  /\ Throw(c, "failed")
  /\ UnchangedStores /\ UNCHANGED received

-----------------------------------------------------------------------------
(* put. *)

Mine(c) == calls[c].content

(* The row under the id is answered if it is of the same input.              *)
Found(c) ==
  LET row == evidence[calls[c].job]
  IN  IF row.content = Mine(c)
      THEN SetCall(c, [calls[c] EXCEPT !.step = "begin", !.ref = row])
      ELSE Throw(c, "conflict")

Find(c) ==
  /\ At(c, "find")
  /\ IF evidence[calls[c].job] = Nil THEN Goto(c, "insert") ELSE Found(c)
  /\ UnchangedStores /\ UNCHANGED <<received, faults>>

(* Mutant: INSERT OR REPLACE.                                                *)
InsertOrReplace(c) ==
  /\ At(c, "insert")
  /\ \E now \in Instants :
       LET row == [content |-> Mine(c), result |-> now]
       IN  /\ evidence' = [evidence EXCEPT ![calls[c].job] = row]
           /\ SetCall(c, [calls[c] EXCEPT !.step = "get", !.ref = row])
  /\ UNCHANGED <<database, transaction, received, faults>>

(* The primary key refuses a second row.                                     *)
Insert(c) ==
  /\ At(c, "insert")
  /\ IF evidence[calls[c].job] = Nil
     THEN \E now \in Instants :
            LET row == [content |-> Mine(c), result |-> now]
            IN  /\ evidence' = [evidence EXCEPT ![calls[c].job] = row]
                /\ SetCall(c, [calls[c] EXCEPT !.step = "get", !.ref = row])
     ELSE Goto(c, "find again") /\ UNCHANGED evidence
  /\ UNCHANGED <<database, transaction, received, faults>>

InsertFails(c) ==
  /\ At(c, "insert")
  /\ Fault
  /\ Goto(c, "find again")
  /\ UnchangedStores /\ UNCHANGED received

FindAgain(c) ==
  /\ At(c, "find again")
  /\ IF evidence[calls[c].job] = Nil THEN Throw(c, "failed") ELSE Found(c)
  /\ UnchangedStores /\ UNCHANGED <<received, faults>>

(* The row is read back by the reference, whose digest must be the row's.    *)
Get(c) ==
  /\ At(c, "get")
  /\ IF evidence[calls[c].job] = calls[c].ref
     THEN Goto(c, "begin")
     ELSE Throw(c, "failed")
  /\ UnchangedStores /\ UNCHANGED <<received, faults>>

-----------------------------------------------------------------------------
(* command: one transaction. *)

Holds(p) == transaction # Nil /\ transaction.by = p

(* Mutant: the reference is formatted with a time of the caller's own.       *)
InputWithOwnTime(p) ==
  IF p = Deliverer
  THEN [kind |-> "mark", event |-> calls[p].event]
  ELSE [kind |-> "change", expected |-> calls[p].expected,
        ref |-> [calls[p].ref EXCEPT !.result = CHOOSE now \in Instants : TRUE]]

InputOf(p) ==
  IF p = Deliverer
  THEN [kind |-> "mark", event |-> calls[p].event]
  ELSE [kind |-> "change", ref |-> calls[p].ref, expected |-> calls[p].expected]

CommandIdOf(p) ==
  IF p = Deliverer THEN <<calls[p].event, "mark">> ELSE <<calls[p].job, "change">>

Work(tables) == transaction' = [transaction EXCEPT !.tables = tables]

RollBack == transaction' = Nil

(* BEGIN IMMEDIATE takes the only write lock, with the committed tables.     *)
BeginImmediate(p) ==
  /\ At(p, "begin")
  /\ transaction = Nil
  /\ transaction' = [by |-> p, tables |-> database]
  /\ Goto(p, "look up")
  /\ UNCHANGED <<evidence, database, received, faults>>

(* busy_timeout passes while another process holds it.                       *)
Busy(p) ==
  /\ At(p, "begin")
  /\ transaction # Nil
  /\ Fault
  /\ Throw(p, "failed")
  /\ UnchangedStores /\ UNCHANGED received

(* Mutant: the digest of the request is not compared.                        *)
LookUpById(p) ==
  LET row == transaction.tables.commands[CommandIdOf(p)]
  IN  /\ At(p, "look up")
      /\ IF row = Nil
         THEN Goto(p, "act") /\ UNCHANGED transaction
         ELSE Return(p, "result", row.result) /\ RollBack
      /\ UNCHANGED <<evidence, database, received, faults>>

LookUp(p) ==
  LET row == transaction.tables.commands[CommandIdOf(p)]
  IN  /\ At(p, "look up")
      /\ IF row = Nil
         THEN Goto(p, "act") /\ UNCHANGED transaction
         ELSE /\ IF row.content = InputOf(p)
                 THEN Return(p, "result", row.result)
                 ELSE Throw(p, "conflict")
              /\ RollBack
      /\ UNCHANGED <<evidence, database, received, faults>>

(* The action of the command.  It throws on a version that is not expected.  *)
Change(p) ==
  LET tables == transaction.tables
  IN  /\ p # Deliverer
      /\ At(p, "act")
      /\ IF tables.version = calls[p].expected
         THEN /\ Work([tables EXCEPT !.version = @ + 1,
                                     !.outbox = Append(@, "pending")])
              /\ Goto(p, "record")
         ELSE RollBack /\ Throw(p, "rejected")
      /\ UNCHANGED <<evidence, database, received, faults>>

(* Mutant: the command is recorded and the event stays pending.              *)
MarkNothing(p) ==
  /\ p = Deliverer
  /\ At(p, "act")
  /\ Goto(p, "record")
  /\ UNCHANGED <<evidence, database, transaction, received, faults>>

MarkOutboxDelivered(p) ==
  /\ p = Deliverer
  /\ At(p, "act")
  /\ calls[p].event \in DOMAIN transaction.tables.outbox
  /\ Work([transaction.tables EXCEPT !.outbox = [@ EXCEPT ![calls[p].event] = "delivered"]])
  /\ Goto(p, "record")
  /\ UNCHANGED <<evidence, database, received, faults>>

Result(p) == IF p = Deliverer THEN 0 ELSE transaction.tables.version

(* Mutant: the row is written on a connection of its own.                    *)
RecordResultAtOnce(p) ==
  LET row == [content |-> InputOf(p), result |-> Result(p)]
  IN  /\ At(p, "record")
      /\ Work([transaction.tables EXCEPT !.commands[CommandIdOf(p)] = row])
      /\ database' = [database EXCEPT !.commands[CommandIdOf(p)] = row]
      /\ Goto(p, "commit")
      /\ UNCHANGED <<evidence, received, faults>>

RecordResult(p) ==
  /\ At(p, "record")
  /\ Work([transaction.tables EXCEPT !.commands =
             [@ EXCEPT ![CommandIdOf(p)] = [content |-> InputOf(p), result |-> Result(p)]]])
  /\ Goto(p, "commit")
  /\ UNCHANGED <<evidence, database, received, faults>>

Commit(p) ==
  /\ At(p, "commit")
  /\ database' = transaction.tables
  /\ transaction' = Nil
  /\ Return(p, "result", Result(p))
  /\ UNCHANGED <<evidence, received, faults>>

(* Mutant: the error leaves the transaction open.                            *)
StatementFailsUncaught(p) ==
  /\ Holds(p)
  /\ Fault
  /\ Throw(p, "failed")
  /\ UNCHANGED <<evidence, database, transaction, received>>

(* A statement throws, COMMIT among them: the catch rolls back.              *)
StatementFails(p) ==
  /\ Holds(p)
  /\ Fault
  /\ RollBack
  /\ Throw(p, "failed")
  /\ UNCHANGED <<evidence, database, received>>

(* The process dies; SQLite rolls its transaction back.                      *)
Crash(p) ==
  /\ ~At(p, "idle")
  /\ Fault
  /\ SetCall(p, NoCall)
  /\ transaction' = IF Holds(p) THEN Nil ELSE transaction
  /\ UNCHANGED <<evidence, database, received>>

-----------------------------------------------------------------------------
(* The deliverer, by the recovery plan. *)

Pending == {e \in DOMAIN database.outbox : database.outbox[e] = "pending"}

HandOut(d) ==
  /\ At(d, "idle")
  /\ \E e \in Pending :
       /\ received' = [received EXCEPT ![e] = @ + 1]
       /\ SetCall(d, [NoCall EXCEPT !.step = "begin", !.event = e])
  /\ UnchangedStores /\ UNCHANGED faults

PlanAgain(d) ==
  /\ At(d, "answered")
  /\ SetCall(d, NoCall)
  /\ UnchangedStores /\ UNCHANGED <<received, faults>>

-----------------------------------------------------------------------------

Put(c) == Find(c) \/ Insert(c) \/ FindAgain(c) \/ Get(c)

Command(p) ==
  BeginImmediate(p) \/ LookUp(p) \/ Change(p) \/ MarkOutboxDelivered(p)
    \/ RecordResult(p) \/ Commit(p)

Caller(c) ==
  Start(c) \/ Retry(c) \/ Reread(c) \/ LoseReply(c) \/ Put(c) \/ InsertFails(c)

Next ==
  \/ \E c \in Callers : Caller(c)
  \/ \E p \in Processes : Command(p) \/ Busy(p) \/ StatementFails(p) \/ Crash(p)
  \/ HandOut(Deliverer)
  \/ PlanAgain(Deliverer)

Spec == Init /\ [][Next]_vars

(* put and command are synchronous: a process that has begun one finishes it *)
(* or dies.  The deliverer keeps delivering.  Nobody must start or retry.    *)
FairSpec ==
  /\ Spec
  /\ \A c \in Callers : WF_vars(Put(c))
  /\ \A p \in Processes : WF_vars(Command(p))
  /\ WF_vars(HandOut(Deliverer)) /\ WF_vars(PlanAgain(Deliverer))

-----------------------------------------------------------------------------
(* Properties. *)

Changes(tables) ==
  {tables.commands[i] : i \in {j \in CommandIds :
     tables.commands[j] # Nil /\ tables.commands[j].content.kind = "change"}}

(* Each change of the aggregate has its command row and its event, each row  *)
(* and each event its change: neither a crash nor an error leaves one of the *)
(* three without the others.  Each was applied to the version its caller had *)
(* read, so no caller overwrites what it has not seen.                       *)
EffectsAreRecorded ==
  /\ {row.result : row \in Changes(database)} = 1..database.version
  /\ Cardinality({i \in CommandIds : i[2] = "change" /\ database.commands[i] # Nil})
       = database.version
  /\ Len(database.outbox) = database.version
  /\ \A row \in Changes(database) : row.result = row.content.expected + 1

(* The Evidence a committed command cites is in the Evidence store, with the *)
(* digest cited, although no transaction covers both files.                  *)
CitedEvidenceIsStored ==
  \A row \in Changes(database) : \E j \in Jobs : evidence[j] = row.content.ref

(* put keeps the promise of a write-once store under concurrent callers.     *)
AnswerToPut(c) ==
  IF calls[c].ref # Nil /\ ~At(c, "get") THEN "row"
  ELSE IF ~At(c, "answered") THEN "none"
  ELSE IF calls[c].reply = "conflict" THEN "conflict" ELSE "failed"

PutAsks ==
  [c \in Callers |->
     IF At(c, "idle") THEN Nil
     ELSE [key |-> calls[c].job, content |-> Mine(c), answer |-> AnswerToPut(c),
           row |-> IF AnswerToPut(c) = "row" THEN calls[c].ref ELSE Nil]]

EvidenceStore == INSTANCE WriteOnce WITH
  Keys <- Jobs, Results <- Instants, stored <- evidence, asks <- PutAsks

EvidenceIsWriteOnce == EvidenceStore!Spec

(* So does the command table, whatever statement fails or process dies.      *)
AnswerToCommand(p) ==
  IF ~At(p, "answered") THEN "none"
  ELSE IF calls[p].reply = "result" THEN "row"
  ELSE IF calls[p].reply = "conflict" THEN "conflict" ELSE "failed"

CommandAsks ==
  [p \in Processes |->
     IF \/ calls[p].step \in CommandSteps
        \/ At(p, "answered") /\ p = Deliverer
        \/ At(p, "answered") /\ calls[p].ref # Nil
     THEN [key |-> CommandIdOf(p), content |-> InputOf(p),
           answer |-> AnswerToCommand(p),
           row |-> IF AnswerToCommand(p) = "row"
                   THEN [content |-> InputOf(p), result |-> calls[p].result]
                   ELSE Nil]
     ELSE Nil]

CommandTable == INSTANCE WriteOnce WITH
  Callers <- Processes, Keys <- CommandIds, Contents <- Inputs,
  Results <- Versions, stored <- database.commands, asks <- CommandAsks

CommandsAreWriteOnce == CommandTable!Spec

ASSUME NilIsNoAsk == Nil \notin EvidenceStore!Ask /\ Nil \notin CommandTable!Ask

(* A call returns or its process dies, and every event is handed out and     *)
(* marked delivered, whatever fails meanwhile: no transaction holds the lock *)
(* of the file for ever.                                                     *)
CallsEndAndEventsArrive ==
  /\ \A c \in Callers : calls[c].step \in PutSteps \cup CommandSteps
       ~> calls[c].step \in {"idle", "answered"}
  /\ \A e \in Events :
       e \in Pending ~> received[e] > 0 /\ database.outbox[e] = "delivered"
=============================================================================
