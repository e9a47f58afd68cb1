------------------------ MODULE CommandProtocolProofs ------------------------
(* The two stores for every number of callers, jobs, contents and instants,  *)
(* and any number of faults.                                                 *)
EXTENDS CommandProtocol, FiniteSetTheorems, TLAPS

-----------------------------------------------------------------------------
(* The inductive invariant. *)

(* A caller that has a reference has the row of its job.                     *)
SoundCall(k) ==
  /\ k.step # "idle" => k.job \in Jobs /\ k.content \in Contents
  /\ k.step \in {"idle", "find", "insert", "find again"} => k.ref = Nil
  /\ k.step \in {"get"} \cup CommandSteps => k.ref # Nil
  /\ k.ref # Nil => k.job \in Jobs /\ k.ref = evidence[k.job] /\ k.ref.content = k.content

CallersSound == \A c \in Callers : SoundCall(calls[c])

(* The deliverer works on an event that is there.                            *)
DelivererSound ==
  LET k == calls[Deliverer]
  IN  /\ k.step \in {"idle", "answered"} \cup CommandSteps
      /\ k.step # "idle" => k.event \in DOMAIN database.outbox

ChangeIds == {i \in CommandIds : i[2] = "change" /\ database.commands[i] # Nil}

(* What the committed tables say of each other and of the Evidence store.    *)
TablesSound ==
  /\ Len(database.outbox) = database.version
  /\ Cardinality(ChangeIds) = database.version
  /\ \A n \in 1..database.version : \E j \in Jobs :
       /\ database.commands[<<j, "change">>] # Nil
       /\ database.commands[<<j, "change">>].result = n
  /\ \A j \in Jobs :
       LET row == database.commands[<<j, "change">>]
       IN  row # Nil =>
             /\ row.content.kind = "change" /\ row.content.ref = evidence[j]
             /\ row.result = row.content.expected + 1
             /\ row.result \in 1..database.version
  /\ \A e \in Events :
       LET row == database.commands[<<e, "mark">>]
       IN  row # Nil =>
             /\ row.content.kind = "mark"
             /\ e \in DOMAIN database.outbox /\ database.outbox[e] = "delivered"

Working == {"look up", "act", "record", "commit"}

(* The process that holds the lock is the only one past BEGIN IMMEDIATE.      *)
LockSound == \A p \in Processes : calls[p].step \in Working <=> Holds(p)

(* What its transaction has changed so far is what its statements changed.    *)
Acted(p, t) ==
  IF p = Deliverer
  THEN /\ t.version = database.version
       /\ t.outbox = [database.outbox EXCEPT ![calls[p].event] = "delivered"]
  ELSE /\ calls[p].expected = database.version
       /\ t.version = database.version + 1
       /\ t.outbox = Append(database.outbox, "pending")

HolderSound(p, t) ==
  /\ calls[p].step \in {"look up", "act"} => t = database
  /\ calls[p].step # "look up" => database.commands[CommandIdOf(p)] = Nil
  /\ calls[p].step \in {"record", "commit"} => Acted(p, t)
  /\ calls[p].step = "record" => t.commands = database.commands
  /\ calls[p].step = "commit" =>
       t.commands = [database.commands EXCEPT ![CommandIdOf(p)] =
                       [content |-> InputOf(p), result |-> Result(p)]]

TransactionSound ==
  /\ LockSound
  /\ transaction # Nil => HolderSound(transaction.by, transaction.tables)

(* An event that waits was handed out once for each fault, but for the        *)
(* attempt under way.                                                        *)
Attempt(e) == calls[Deliverer].step \in CommandSteps /\ calls[Deliverer].event = e

DeliverySound ==
  \A e \in Events :
    /\ e \notin DOMAIN database.outbox => received[e] = 0
    /\ e \in Pending /\ ~Attempt(e) => received[e] <= faults

ProtocolInv ==
  /\ CallersSound
  /\ DelivererSound
  /\ TablesSound
  /\ TransactionSound
  /\ DeliverySound
-----------------------------------------------------------------------------
(* What a step leaves alone. *)

(* Facts about the constants that most lemmas need.                          *)
LEMMA Basics ==
  /\ Deliverer \in Processes /\ Callers \subseteq Processes /\ Deliverer \notin Callers
  /\ Cardinality(Jobs) \in Nat /\ 0 \in Versions
BY FS_CardinalityType, ProtocolAssumption DEF Processes, Versions

(* Only the process that moves has another call afterwards.                  *)
LEMMA CallSet ==
  ASSUME ProtocolTypeOK, NEW p \in Processes, NEW call \in Call, SetCall(p, call)
  PROVE  /\ calls' \in [Processes -> Call] /\ calls'[p] = call
         /\ \A q \in Processes : q # p => calls'[q] = calls[q]
BY DEF ProtocolTypeOK, SetCall

(* An attempt to deliver that does not go on failed, or has delivered.        *)
AttemptGoesOn(call) ==
  calls[Deliverer].step \in CommandSteps =>
    \/ call.step \in CommandSteps /\ call.event = calls[Deliverer].event
    \/ faults' = faults + 1
    \/ calls[Deliverer].event \notin Pending

SoundDelivery(call) ==
  /\ call.step \in {"idle", "answered"} \cup CommandSteps
  /\ call.step # "idle" => call.event \in DOMAIN database.outbox
  /\ AttemptGoesOn(call)

(* A step that writes neither store keeps all but the transaction sound.      *)
LEMMA StoresStay ==
  ASSUME ProtocolTypeOK, ProtocolInv, NEW p \in Processes, NEW call \in Call,
         SetCall(p, call), UNCHANGED <<evidence, database, received>>,
         faults' = faults \/ Fault, transaction' \in Transaction \cup {Nil},
         p \in Callers => SoundCall(call),
         p = Deliverer => SoundDelivery(call)
  PROVE  /\ ProtocolTypeOK' /\ CallersSound' /\ DelivererSound' /\ TablesSound'
         /\ DeliverySound'
<1>1. /\ calls' \in [Processes -> Call] /\ calls'[p] = call
      /\ \A q \in Processes : q # p => calls'[q] = calls[q]
  BY CallSet
<1>2. faults \in Nat /\ faults' \in 0..MaxFaults /\ faults' >= faults
  BY ProtocolAssumption DEF ProtocolTypeOK, Fault
<1>3. CallersSound'
  <2>1. ASSUME NEW c \in Callers, c = p PROVE SoundCall(calls[c])'
    BY <1>1, <2>1 DEF SoundCall
  <2>2. ASSUME NEW c \in Callers, c # p PROVE SoundCall(calls[c])'
    <3>1. calls'[c] = calls[c] /\ SoundCall(calls[c])
      BY <1>1, <2>2, Basics DEF ProtocolInv, CallersSound
    <3> QED BY <3>1 DEF SoundCall
  <2> QED BY <2>1, <2>2 DEF CallersSound
<1>4. DelivererSound'
  BY <1>1, Basics DEF ProtocolInv, DelivererSound, SoundDelivery
<1>5. TablesSound'
  BY DEF ProtocolInv, TablesSound, ChangeIds
<1>6. DeliverySound'
  <2> SUFFICES ASSUME NEW e \in Events
      PROVE  /\ e \notin DOMAIN database.outbox => received[e] = 0
             /\ e \in Pending /\ ~Attempt(e)' => received[e] <= faults'
    BY DEF DeliverySound, Pending
  <2>1. /\ e \notin DOMAIN database.outbox => received[e] = 0
        /\ e \in Pending /\ ~Attempt(e) => received[e] <= faults
        /\ received[e] \in 0..faults + 1
    BY DEF ProtocolInv, DeliverySound, ProtocolTypeOK
  <2>2. CASE e \in Pending /\ ~Attempt(e)' /\ Attempt(e)
    <3>1. p = Deliverer /\ faults' = faults + 1
      BY <1>1, <2>2, Basics DEF Attempt, SoundDelivery, AttemptGoesOn
    <3> QED BY <1>2, <2>1, <3>1
  <2> QED BY <1>2, <2>1, <2>2
<1>7. ProtocolTypeOK'
  <2>1. received' \in [Events -> 0..faults' + 1]
    BY <1>2 DEF ProtocolTypeOK
  <2>2. \A c \in Callers : calls'[c].step \in CommandSteps => calls'[c].ref # Nil
    BY <1>3 DEF CallersSound, SoundCall
  <2> QED BY <1>1, <1>2, <2>1, <2>2 DEF ProtocolTypeOK
<1> QED BY <1>3, <1>4, <1>5, <1>6, <1>7

(* A process without the lock does not disturb the one that has it.           *)
LEMMA LockElsewhere ==
  ASSUME ProtocolTypeOK, ProtocolInv, NEW p \in Processes, NEW call \in Call,
         SetCall(p, call), UNCHANGED <<database, transaction>>,
         calls[p].step \notin Working, call.step \notin Working
  PROVE  TransactionSound'
<1>1. /\ calls'[p] = call
      /\ \A q \in Processes : q # p => calls'[q] = calls[q]
  BY CallSet
<1>2. LockSound'
  BY <1>1 DEF ProtocolInv, TransactionSound, LockSound, Holds
<1>3. ASSUME transaction # Nil PROVE HolderSound(transaction.by, transaction.tables)'
  <2>1. transaction.by \in Processes /\ transaction.by # p
    BY <1>3 DEF ProtocolTypeOK, Transaction, ProtocolInv, TransactionSound, LockSound, Holds
  <2> QED BY <1>1, <1>3, <2>1
      DEF ProtocolInv, TransactionSound, HolderSound, Acted, CommandIdOf, InputOf, Result
<1> QED BY <1>2, <1>3 DEF TransactionSound

(* A process that ends its transaction gives the lock back.                   *)
LEMMA LockReleased ==
  ASSUME ProtocolTypeOK, ProtocolInv, NEW p \in Processes, NEW call \in Call,
         SetCall(p, call), Holds(p), transaction' = Nil, call.step \notin Working
  PROVE  TransactionSound'
<1>1. /\ calls'[p] = call
      /\ \A q \in Processes : q # p => calls'[q] = calls[q]
  BY CallSet
<1> QED BY <1>1 DEF ProtocolInv, TransactionSound, LockSound, Holds

(* A process that goes on with its transaction has it to itself.              *)
LEMMA LockKept ==
  ASSUME ProtocolTypeOK, ProtocolInv, NEW p \in Processes, NEW call \in Call,
         SetCall(p, call), transaction = Nil \/ Holds(p),
         transaction' # Nil, transaction'.by = p, call.step \in Working
  PROVE  LockSound'
<1>1. /\ calls'[p] = call
      /\ \A q \in Processes : q # p => calls'[q] = calls[q]
  BY CallSet
<1> QED BY <1>1 DEF ProtocolInv, TransactionSound, LockSound, Holds
-----------------------------------------------------------------------------
(* The steps of a caller outside of a command. *)

Invariant == ProtocolTypeOK /\ ProtocolInv

(* A caller that goes on outside a transaction, and whose memory is sound,   *)
(* disturbs nothing.                                                         *)
LEMMA CallerStep ==
  ASSUME Invariant, NEW c \in Callers, NEW call \in Call, SetCall(c, call),
         UnchangedStores, UNCHANGED received, faults' = faults \/ Fault,
         calls[c].step \notin Working, call.step \notin Working, SoundCall(call)
  PROVE  Invariant'
<1>1. c \in Processes /\ c # Deliverer /\ transaction' \in Transaction \cup {Nil}
  BY Basics DEF Invariant, ProtocolTypeOK, UnchangedStores
<1>2. /\ ProtocolTypeOK' /\ CallersSound' /\ DelivererSound' /\ TablesSound'
      /\ DeliverySound'
  BY <1>1, StoresStay DEF Invariant, UnchangedStores
<1>3. TransactionSound'
  BY <1>1, LockElsewhere DEF Invariant, UnchangedStores
<1> QED BY <1>2, <1>3 DEF Invariant, ProtocolInv

(* What the invariant says of one process and of the tables.                 *)
LEMMA Fields ==
  ASSUME Invariant, NEW p \in Processes
  PROVE  /\ calls[p] \in Call
         /\ p \in Callers => SoundCall(calls[p])
         /\ database \in Tables /\ database.version \in Versions
BY DEF Invariant, ProtocolTypeOK, ProtocolInv, CallersSound, Tables

(* A call that is moved on has its type.                                      *)
LEMMA CallRows ==
  ASSUME NEW call \in Call
  PROVE  /\ \A step \in {"idle", "answered"} \cup PutSteps \cup CommandSteps :
              [call EXCEPT !.step = step] \in Call
         /\ \A reply \in {"none", "result", "conflict", "rejected", "failed"},
               result \in Versions :
              [call EXCEPT !.step = "answered", !.reply = reply, !.result = result] \in Call
         /\ \A step \in PutSteps \cup CommandSteps, ref \in Record :
              [call EXCEPT !.step = step, !.ref = ref] \in Call
BY DEF Call

(* An idle process is in a call of the right type.                           *)
LEMMA NoCallRow == NoCall \in Call
BY Basics DEF NoCall, Call

(* A new call, a repeated one and one with the version read again are        *)
(* sound.                                                                    *)
LEMMA CallerBegins ==
  ASSUME Invariant, NEW c \in Callers, Start(c) \/ Retry(c) \/ Reread(c)
  PROVE  Invariant'
<1>1. /\ calls[c] \in Call /\ SoundCall(calls[c]) /\ database.version \in Versions
      /\ 0 \in Versions
  BY Fields, Basics
<1>2. UnchangedStores /\ UNCHANGED received /\ faults' = faults
  BY DEF Start, Retry, Reread
<1>3. CASE Start(c)
  <2>1. PICK job \in Jobs, content \in Contents :
          SetCall(c, [NoCall EXCEPT !.step = "find", !.job = job, !.content = content,
                                    !.expected = database.version])
    BY <1>3 DEF Start
  <2> DEFINE call == [NoCall EXCEPT !.step = "find", !.job = job, !.content = content,
                                    !.expected = database.version]
  <2>2. call \in Call /\ SoundCall(call) /\ call.step \notin Working
    BY <1>1 DEF NoCall, Call, SoundCall, PutSteps, CommandSteps, Working
  <2>3. calls[c].step \notin Working
    BY <1>3 DEF Start, At, Working
  <2> QED BY <1>2, <2>1, <2>2, <2>3, CallerStep
<1>4. CASE Retry(c)
  <2> DEFINE call == [calls[c] EXCEPT !.step = "find", !.ref = Nil, !.reply = "none",
                                      !.result = 0]
  <2>1. calls[c].step = "answered" /\ SetCall(c, call)
    BY <1>4 DEF Retry, At
  <2>2. call \in Call /\ SoundCall(call) /\ call.step \notin Working
        /\ calls[c].step \notin Working
    BY <1>1, <2>1 DEF Call, SoundCall, PutSteps, CommandSteps, Working
  <2> QED BY <1>2, <2>1, <2>2, CallerStep
<1>5. CASE Reread(c)
  <2> DEFINE call == [calls[c] EXCEPT !.step = "find", !.ref = Nil, !.reply = "none",
                                      !.expected = database.version]
  <2>1. calls[c].step = "answered" /\ SetCall(c, call)
    BY <1>5 DEF Reread, At
  <2>2. call \in Call /\ SoundCall(call) /\ call.step \notin Working
        /\ calls[c].step \notin Working
    BY <1>1, <2>1 DEF Call, SoundCall, PutSteps, CommandSteps, Working
  <2> QED BY <1>2, <2>1, <2>2, CallerStep
<1> QED BY <1>3, <1>4, <1>5

(* A call that throws or goes on with what it has stays sound.                *)
LEMMA CallerGoesOn ==
  ASSUME Invariant, NEW c \in Callers, UnchangedStores, UNCHANGED received,
         faults' = faults \/ Fault,
         calls[c].step \in {"answered"} \cup PutSteps,
         \/ \E reply \in {"conflict", "failed"} : Throw(c, reply)
         \/ calls[c].step = "find" /\ Goto(c, "insert")
         \/ calls[c].step = "insert" /\ Goto(c, "find again")
         \/ calls[c].step = "get" /\ Goto(c, "begin")
  PROVE  Invariant'
<1>1. calls[c] \in Call /\ SoundCall(calls[c]) /\ 0 \in Versions
  BY Fields, Basics
<1>2. calls[c].step \notin Working
  BY DEF PutSteps, Working
<1>3. ASSUME NEW reply \in {"conflict", "failed"}, Throw(c, reply) PROVE Invariant'
  <2> DEFINE call == [calls[c] EXCEPT !.step = "answered", !.reply = reply, !.result = 0]
  <2>1. SetCall(c, call)
    BY <1>3 DEF Throw, Return
  <2>2. call \in Call
    BY <1>1, CallRows
  <2>3. SoundCall(call) /\ call.step \notin Working
    BY <1>1 DEF Call, SoundCall, PutSteps, CommandSteps, Working
  <2> QED BY <1>2, <2>1, <2>2, <2>3, CallerStep
<1>4. ASSUME NEW step \in {"insert", "find again", "begin"}, Goto(c, step),
             step \in {"insert", "find again"} => calls[c].step \in {"find", "insert"},
             step = "begin" => calls[c].step = "get"
      PROVE  Invariant'
  <2> DEFINE call == [calls[c] EXCEPT !.step = step]
  <2>1. SetCall(c, call)
    BY <1>4 DEF Goto
  <2>2. call \in Call
    BY <1>1, CallRows DEF PutSteps, CommandSteps
  <2>3. SoundCall(call) /\ call.step \notin Working
    BY <1>1, <1>4 DEF Call, SoundCall, PutSteps, CommandSteps, Working
  <2> QED BY <1>2, <2>1, <2>2, <2>3, CallerStep
<1> QED BY <1>3, <1>4

(* The row that is found is of the same input, or the call throws.            *)
LEMMA CallerFinds ==
  ASSUME Invariant, NEW c \in Callers, calls[c].step \in {"find", "find again"},
         evidence[calls[c].job] # Nil, Found(c),
         UnchangedStores, UNCHANGED <<received, faults>>
  PROVE  Invariant'
<1>1. calls[c] \in Call /\ SoundCall(calls[c])
  BY Fields, Basics
<1>2. calls[c].job \in Jobs /\ evidence[calls[c].job] \in Record
  BY <1>1 DEF SoundCall, Invariant, ProtocolTypeOK
<1>3. CASE evidence[calls[c].job].content = Mine(c)
  <2> DEFINE call == [calls[c] EXCEPT !.step = "begin", !.ref = evidence[calls[c].job]]
  <2>1. SetCall(c, call)
    BY <1>3 DEF Found
  <2>2. call \in Call
    BY <1>1, <1>2, CallRows DEF CommandSteps
  <2>3. SoundCall(call) /\ call.step \notin Working /\ calls[c].step \notin Working
    BY <1>1, <1>2, <1>3 DEF Call, SoundCall, Mine, PutSteps, CommandSteps, Working
  <2> QED BY <2>1, <2>2, <2>3, CallerStep
<1>4. CASE evidence[calls[c].job].content # Mine(c)
  BY <1>4, CallerGoesOn DEF Found, PutSteps
<1> QED BY <1>3, <1>4

(* The statements of put that only read, fail or are answered too late.      *)
LEMMA CallerLooks ==
  ASSUME Invariant, NEW c \in Callers,
         LoseReply(c) \/ Find(c) \/ FindAgain(c) \/ Get(c) \/ InsertFails(c)
  PROVE  Invariant'
<1>1. CASE LoseReply(c)
  BY <1>1, CallerGoesOn DEF LoseReply, At
<1>2. CASE Find(c)
  BY <1>2, CallerGoesOn, CallerFinds DEF Find, At, PutSteps
<1>3. CASE FindAgain(c)
  BY <1>3, CallerGoesOn, CallerFinds DEF FindAgain, At, PutSteps
<1>4. CASE Get(c)
  BY <1>4, CallerGoesOn DEF Get, At, PutSteps
<1>5. CASE InsertFails(c)
  BY <1>5, CallerGoesOn DEF InsertFails, At, PutSteps
<1> QED BY <1>1, <1>2, <1>3, <1>4, <1>5
(* The Evidence id was free, so nobody has a reference to what was there.     *)
LEMMA CallerInserts ==
  ASSUME Invariant, NEW c \in Callers, Insert(c)
  PROVE  Invariant'
<1>1. /\ calls[c] \in Call /\ SoundCall(calls[c]) /\ c \in Processes /\ c # Deliverer
      /\ calls[c].step = "insert"
  BY Fields, Basics DEF Insert, At
<1>2. CASE evidence[calls[c].job] # Nil
  BY <1>1, <1>2, CallerGoesOn DEF Insert, PutSteps, UnchangedStores
<1>3. CASE evidence[calls[c].job] = Nil
  <2>1. PICK now \in Instants :
          LET row == [content |-> Mine(c), result |-> now]
          IN  /\ evidence' = [evidence EXCEPT ![calls[c].job] = row]
              /\ SetCall(c, [calls[c] EXCEPT !.step = "get", !.ref = row])
    BY <1>3 DEF Insert
  <2> DEFINE row == [content |-> Mine(c), result |-> now]
             call == [calls[c] EXCEPT !.step = "get", !.ref = row]
  <2>2. /\ calls[c].job \in Jobs /\ row \in Record /\ row # Nil
    BY <1>1, ProtocolAssumption DEF SoundCall, Mine, Record
  <2>3. call \in Call
    BY <1>1, <2>2, CallRows DEF PutSteps
  <2>4. /\ calls' \in [Processes -> Call] /\ calls'[c] = call
        /\ \A q \in Processes : q # c => calls'[q] = calls[q]
    BY <1>1, <2>1, <2>3, CallSet DEF Invariant
  <2>5. UNCHANGED <<database, transaction, received, faults>>
    BY DEF Insert
  <2>6. /\ evidence' \in [Jobs -> Record \cup {Nil}] /\ evidence'[calls[c].job] = row
        /\ \A j \in Jobs : j # calls[c].job => evidence'[j] = evidence[j]
    BY <2>1, <2>2 DEF Invariant, ProtocolTypeOK
  <2>7. CallersSound'
    <3>1. SoundCall(calls[c])'
      <4>1. /\ calls'[c].step = "get" /\ calls'[c].job = calls[c].job
            /\ calls'[c].ref = row /\ calls'[c].content = calls[c].content
        BY <1>1, <2>4 DEF Call
      <4>2. row.content = calls[c].content /\ calls[c].content \in Contents
        BY <1>1 DEF Mine, SoundCall
      <4> QED BY <2>2, <2>6, <4>1, <4>2 DEF SoundCall, CommandSteps
    <3>2. ASSUME NEW d \in Callers, d # c PROVE SoundCall(calls[d])'
      <4>1. calls'[d] = calls[d] /\ SoundCall(calls[d])
        BY <2>4, <3>2, Basics DEF Invariant, ProtocolInv, CallersSound
      <4>2. calls[d].ref # Nil => calls[d].job # calls[c].job
        BY <1>3, <4>1 DEF SoundCall
      <4> QED BY <2>6, <4>1, <4>2 DEF SoundCall
    <3> QED BY <3>1, <3>2 DEF CallersSound
  <2>8. TablesSound'
    <3>1. ASSUME NEW j \in Jobs, database.commands[<<j, "change">>] # Nil
          PROVE  database.commands[<<j, "change">>].content.ref = evidence'[j]
      <4>1. database.commands[<<j, "change">>] \in Row
        BY <3>1 DEF Invariant, ProtocolTypeOK, Tables, CommandIds
      <4>2. /\ database.commands[<<j, "change">>].content.kind = "change"
            /\ database.commands[<<j, "change">>].content.ref = evidence[j]
        BY <3>1 DEF Invariant, ProtocolInv, TablesSound
      <4>3. database.commands[<<j, "change">>].content.ref \in Record
        BY <4>1, <4>2 DEF Row, Inputs
      <4> QED BY <1>3, <2>6, <4>2, <4>3, ProtocolAssumption
    <3> QED BY <2>5, <3>1 DEF Invariant, ProtocolInv, TablesSound, ChangeIds
  <2>9. DelivererSound' /\ DeliverySound'
    BY <1>1, <2>4, <2>5, Basics
       DEF Invariant, ProtocolInv, DelivererSound, DeliverySound, Pending, Attempt
  <2>10. TransactionSound'
    <3>1. calls[c].step \notin Working /\ call.step \notin Working
      BY <1>1 DEF Call, Working
    <3> QED BY <1>1, <2>1, <2>3, <2>5, <3>1, LockElsewhere DEF Invariant
  <2>11. ProtocolTypeOK'
    <3>1. \A d \in Callers : calls'[d].step \in CommandSteps => calls'[d].ref # Nil
      BY <2>7 DEF CallersSound, SoundCall
    <3> QED BY <2>4, <2>5, <2>6, <3>1 DEF Invariant, ProtocolTypeOK
  <2> QED BY <2>7, <2>8, <2>9, <2>10, <2>11 DEF Invariant, ProtocolInv
<1> QED BY <1>2, <1>3

(* Every step of put and of what a caller does around it.                    *)
LEMMA CallerKeeps ==
  ASSUME Invariant, NEW c \in Callers, Caller(c)
  PROVE  Invariant'
BY CallerBegins, CallerLooks, CallerInserts DEF Caller, Put

-----------------------------------------------------------------------------
(* The steps of a command. *)

(* What a command is about does not change under way.                         *)
LEMMA CommandMoves ==
  ASSUME Invariant, NEW p \in Processes, NEW call \in Call,
         calls[p].step \in CommandSteps, call.step \in {"answered"} \cup CommandSteps,
         call.job = calls[p].job, call.content = calls[p].content,
         call.ref = calls[p].ref, call.event = calls[p].event,
         call.step = "answered" /\ p = Deliverer =>
           faults' = faults + 1 \/ calls[p].event \notin Pending
  PROVE  /\ p \in Callers => SoundCall(call)
         /\ p = Deliverer => SoundDelivery(call)
<1>1. ASSUME p \in Callers PROVE SoundCall(call)
  BY <1>1, Fields DEF SoundCall, CommandSteps
<1>2. ASSUME p = Deliverer PROVE SoundDelivery(call)
  BY <1>2 DEF Invariant, ProtocolInv, DelivererSound, SoundDelivery, AttemptGoesOn, CommandSteps
<1> QED BY <1>1, <1>2

(* The transaction of the process that holds it.                              *)
LEMMA Held ==
  ASSUME Invariant, NEW p \in Processes, calls[p].step \in Working
  PROVE  /\ Holds(p) /\ transaction \in Transaction /\ transaction.tables \in Tables
         /\ transaction.by = p /\ transaction # Nil
         /\ HolderSound(p, transaction.tables)
         /\ calls[p].step \in CommandSteps
<1>1. Holds(p)
  BY DEF Invariant, ProtocolInv, TransactionSound, LockSound
<1> QED BY <1>1 DEF Invariant, ProtocolInv, ProtocolTypeOK, TransactionSound, Holds, Transaction,
        Working, CommandSteps

(* A process that sends a command has an id and an input for it.             *)
LEMMA InputTyped ==
  ASSUME Invariant, NEW p \in Processes, calls[p].step \in CommandSteps
  PROVE  InputOf(p) \in Inputs /\ CommandIdOf(p) \in CommandIds
<1>1. CASE p = Deliverer
  <2>1. calls[p].event \in DOMAIN database.outbox
    BY <1>1 DEF Invariant, ProtocolInv, DelivererSound, CommandSteps
  <2>2. DOMAIN database.outbox = 1..database.version /\ database.version \in Versions
    BY Fields DEF Invariant, ProtocolInv, ProtocolTypeOK, TablesSound, Tables
  <2>3. calls[p].event \in Events
    BY <2>1, <2>2, Basics DEF Events, Versions
  <2> QED BY <1>1, <2>3 DEF InputOf, CommandIdOf, Inputs, CommandIds
<1>2. CASE p # Deliverer
  <2>1. calls[p] \in Call /\ SoundCall(calls[p])
    BY <1>2, Fields DEF Processes
  <2>2. calls[p].job \in Jobs /\ calls[p].ref \in Record /\ calls[p].expected \in Versions
    BY <2>1 DEF SoundCall, Call, CommandSteps
  <2> QED BY <1>2, <2>2 DEF InputOf, CommandIdOf, Inputs, CommandIds
<1> QED BY <1>1, <1>2

(* BEGIN IMMEDIATE is granted while nobody holds the lock.                   *)
LEMMA CommandBegins ==
  ASSUME Invariant, NEW p \in Processes, BeginImmediate(p)
  PROVE  Invariant'
<1> DEFINE call == [calls[p] EXCEPT !.step = "look up"]
<1>1. /\ SetCall(p, call) /\ calls[p].step = "begin" /\ transaction = Nil
      /\ transaction' = [by |-> p, tables |-> database]
      /\ UNCHANGED <<evidence, database, received, faults>>
  BY DEF BeginImmediate, Goto, At
<1>2. /\ calls[p] \in Call /\ call \in Call /\ database \in Tables
  BY Fields, CallRows DEF CommandSteps
<1>3. /\ p \in Callers => SoundCall(call)
      /\ p = Deliverer => SoundDelivery(call)
  <2>1. /\ call.job = calls[p].job /\ call.content = calls[p].content
        /\ call.ref = calls[p].ref /\ call.event = calls[p].event
        /\ call.step = "look up"
    BY <1>2 DEF Call
  <2> QED BY <1>1, <1>2, <2>1, CommandMoves DEF CommandSteps
<1>4. transaction' \in Transaction /\ transaction' # Nil
  <2>1. transaction' \in Transaction
    BY <1>1, <1>2 DEF Transaction
  <2> QED BY <2>1, ProtocolAssumption
<1>5. /\ ProtocolTypeOK' /\ CallersSound' /\ DelivererSound' /\ TablesSound'
      /\ DeliverySound'
  BY <1>1, <1>2, <1>3, <1>4, StoresStay DEF Invariant
<1>6. LockSound'
  <2>1. transaction'.by = p /\ call.step \in Working
    BY <1>1, <1>2 DEF Call, Working
  <2> QED BY <1>1, <1>2, <1>4, <2>1, LockKept DEF Invariant
<1>7. calls'[p] = call
  BY <1>1, <1>2, CallSet DEF Invariant
<1>8. HolderSound(p, database)'
  BY <1>1, <1>2, <1>7 DEF HolderSound, Call
<1>9. TransactionSound'
  BY <1>1, <1>6, <1>8 DEF TransactionSound
<1> QED BY <1>5, <1>9 DEF Invariant, ProtocolInv

(* A command that answers or throws without COMMIT.                           *)
LEMMA CommandEnds ==
  ASSUME Invariant, NEW p \in Processes, NEW call \in Call, SetCall(p, call),
         calls[p].step \in Working, transaction' = Nil,
         UNCHANGED <<evidence, database, received>>, faults' = faults \/ Fault,
         call.step \notin Working,
         p \in Callers => SoundCall(call),
         p = Deliverer => SoundDelivery(call)
  PROVE  Invariant'
<1>1. /\ ProtocolTypeOK' /\ CallersSound' /\ DelivererSound' /\ TablesSound'
      /\ DeliverySound'
  BY StoresStay DEF Invariant
<1>2. TransactionSound'
  BY Held, LockReleased DEF Invariant
<1> QED BY <1>1, <1>2 DEF Invariant, ProtocolInv

(* A command that returns without committing leaves the tables as they       *)
(* were.                                                                     *)
LEMMA AnswerRow ==
  ASSUME Invariant, NEW p \in Processes,
         NEW reply \in {"result", "conflict", "rejected", "failed"}, NEW result \in Versions,
         Return(p, reply, result), calls[p].step \in Working, transaction' = Nil,
         UNCHANGED <<evidence, database, received>>, faults' = faults \/ Fault,
         p = Deliverer => faults' = faults + 1 \/ calls[p].event \notin Pending
  PROVE  Invariant'
<1> DEFINE call == [calls[p] EXCEPT !.step = "answered", !.reply = reply, !.result = result]
<1>1. SetCall(p, call)
  BY DEF Return
<1>2. calls[p] \in Call /\ call \in Call /\ calls[p].step \in CommandSteps
  BY Fields, CallRows, Held
<1>3. call.step \notin Working /\ call.step = "answered"
  BY <1>2 DEF Call, Working
<1>4. /\ call.job = calls[p].job /\ call.content = calls[p].content
      /\ call.ref = calls[p].ref /\ call.event = calls[p].event
  BY <1>2 DEF Call
<1>5. /\ p \in Callers => SoundCall(call)
      /\ p = Deliverer => SoundDelivery(call)
  BY <1>2, <1>3, <1>4, CommandMoves
<1> QED BY <1>1, <1>2, <1>3, <1>5, CommandEnds
(* A command that goes on with its transaction.                               *)
LEMMA CommandGoesOn ==
  ASSUME Invariant, NEW p \in Processes, NEW step \in Working, NEW tables \in Tables,
         calls[p].step \in Working, Goto(p, step),
         transaction' = [by |-> p, tables |-> tables],
         UNCHANGED <<evidence, database, received, faults>>,
         HolderSound(p, tables)'
  PROVE  Invariant'
<1> DEFINE call == [calls[p] EXCEPT !.step = step]
<1>1. calls[p] \in Call /\ calls[p].step \in CommandSteps /\ step \in CommandSteps /\ Holds(p)
  BY Fields, Held DEF Working, CommandSteps
<1>2. SetCall(p, call) /\ call \in Call
  BY <1>1, CallRows DEF Goto
<1>3. /\ call.job = calls[p].job /\ call.content = calls[p].content
      /\ call.ref = calls[p].ref /\ call.event = calls[p].event /\ call.step = step
  BY <1>1 DEF Call
<1>4. /\ p \in Callers => SoundCall(call)
      /\ p = Deliverer => SoundDelivery(call)
  BY <1>1, <1>2, <1>3, CommandMoves DEF CommandSteps
<1>5. transaction' \in Transaction
  BY DEF Transaction
<1>6. transaction' # Nil
  BY <1>5, ProtocolAssumption
<1>7. /\ ProtocolTypeOK' /\ CallersSound' /\ DelivererSound' /\ TablesSound'
      /\ DeliverySound'
  BY <1>2, <1>4, <1>5, StoresStay DEF Invariant
<1>8. LockSound'
  BY <1>1, <1>2, <1>3, <1>6, LockKept DEF Invariant
<1>9. TransactionSound'
  BY <1>8 DEF TransactionSound
<1> QED BY <1>7, <1>9 DEF Invariant, ProtocolInv

(* A command that is there is answered or refused.                            *)
LEMMA CommandLooksUp ==
  ASSUME Invariant, NEW p \in Processes, LookUp(p)
  PROVE  Invariant'
<1> DEFINE row == transaction.tables.commands[CommandIdOf(p)]
<1>1. /\ calls[p].step = "look up" /\ calls[p].step \in Working
      /\ UNCHANGED <<evidence, database, received, faults>>
  BY DEF LookUp, At, Working
<1>2. /\ transaction \in Transaction /\ transaction.by = p /\ transaction.tables = database
      /\ transaction # Nil /\ calls[p].step \in CommandSteps /\ calls[p] \in Call
      /\ database \in Tables
  BY <1>1, Held, Fields DEF HolderSound
<1>3. CASE row = Nil
  <2>1. Goto(p, "act") /\ UNCHANGED transaction
    BY <1>3 DEF LookUp
  <2>2. calls'[p] = [calls[p] EXCEPT !.step = "act"]
    BY <2>1 DEF Goto, SetCall, Invariant, ProtocolTypeOK
  <2>3. /\ calls'[p].step = "act" /\ calls'[p].event = calls[p].event
        /\ calls'[p].job = calls[p].job
    BY <1>2, <2>2 DEF Call
  <2>4. HolderSound(p, database)'
    BY <1>1, <1>2, <1>3, <2>3 DEF HolderSound, CommandIdOf
  <2>5. transaction' = [by |-> p, tables |-> database]
    BY <1>2, <2>1 DEF Transaction
  <2> QED BY <1>1, <1>2, <2>1, <2>4, <2>5, CommandGoesOn DEF Working
<1>4. CASE row # Nil
  <2>1. CommandIdOf(p) \in CommandIds /\ row \in Row
    BY <1>2, <1>4, InputTyped DEF Tables
  <2>2. p = Deliverer => calls[p].event \notin Pending
    <3>1. ASSUME p = Deliverer PROVE calls[p].event \notin Pending
      <4>1. calls[p].event \in Events /\ CommandIdOf(p) = <<calls[p].event, "mark">>
        BY <2>1, <3>1 DEF CommandIdOf, CommandIds
      <4> QED BY <1>2, <1>4, <4>1 DEF Invariant, ProtocolInv, TablesSound, Pending
    <3> QED BY <3>1
  <2>3. row.result \in Versions /\ 0 \in Versions
    BY <2>1, Basics DEF Row
  <2>4. transaction' = Nil /\ (Return(p, "result", row.result) \/ Return(p, "conflict", 0))
    BY <1>4 DEF LookUp, Throw, RollBack
  <2> QED BY <1>1, <2>2, <2>3, <2>4, AnswerRow
<1> QED BY <1>3, <1>4

(* There is a version for every job whose command is not recorded yet.        *)
LEMMA ChangesCounted ==
  ASSUME Invariant, NEW j \in Jobs, database.commands[<<j, "change">>] = Nil
  PROVE  /\ Cardinality(ChangeIds \cup {<<j, "change">>}) = database.version + 1
         /\ database.version + 1 \in Versions
<1> DEFINE Ids == Jobs \X {"change"}
           More == ChangeIds \cup {<<j, "change">>}
<1>1. IsFiniteSet(Ids) /\ Cardinality(Ids) = Cardinality(Jobs)
  <2>1. IsFiniteSet({"change"}) /\ Cardinality({"change"}) = 1
    BY FS_Singleton
  <2>2. IsFiniteSet(Ids) /\ Cardinality(Ids) = Cardinality(Jobs) * 1
    BY <2>1, FS_Product, ProtocolAssumption
  <2> QED BY <2>2, Basics
<1>2. ChangeIds \subseteq Ids /\ More \subseteq Ids /\ <<j, "change">> \notin ChangeIds
  BY DEF ChangeIds, CommandIds
<1>3. IsFiniteSet(ChangeIds) /\ IsFiniteSet(More) /\ Cardinality(More) <= Cardinality(Ids)
  BY <1>1, <1>2, FS_Subset
<1>4. Cardinality(More) = Cardinality(ChangeIds) + 1
  BY <1>2, <1>3, FS_AddElement
<1>5. Cardinality(ChangeIds) = database.version /\ database.version \in Versions
  BY DEF Invariant, ProtocolInv, ProtocolTypeOK, Tables, TablesSound
<1> QED BY <1>1, <1>3, <1>4, <1>5, Basics DEF Versions
(* Another statement of the same command: same id, same input.               *)
LEMMA GotoKeeps ==
  ASSUME Invariant, NEW p \in Processes, NEW step, Goto(p, step)
  PROVE  /\ calls'[p].step = step /\ calls'[p].event = calls[p].event
         /\ calls'[p].expected = calls[p].expected
         /\ InputOf(p)' = InputOf(p) /\ CommandIdOf(p)' = CommandIdOf(p)
<1>1. calls[p] \in Call /\ calls'[p] = [calls[p] EXCEPT !.step = step]
  BY DEF Goto, SetCall, Invariant, ProtocolTypeOK
<1>2. /\ calls'[p].step = step /\ calls'[p].event = calls[p].event
      /\ calls'[p].expected = calls[p].expected /\ calls'[p].ref = calls[p].ref
      /\ calls'[p].job = calls[p].job
  BY <1>1 DEF Call
<1> QED BY <1>2 DEF InputOf, CommandIdOf

(* A change is applied to the version its caller had read.                    *)
LEMMA CommandChanges ==
  ASSUME Invariant, NEW p \in Processes, Change(p)
  PROVE  Invariant'
<1> DEFINE t == transaction.tables
<1>1. /\ calls[p].step = "act" /\ calls[p].step \in Working /\ p # Deliverer
      /\ UNCHANGED <<evidence, database, received, faults>>
  BY DEF Change, At, Working
<1>2. /\ transaction \in Transaction /\ transaction.by = p /\ t = database
      /\ database \in Tables /\ database.commands[CommandIdOf(p)] = Nil
      /\ calls[p].step \in CommandSteps
  BY <1>1, Held, Fields DEF HolderSound
<1>3. CASE t.version = calls[p].expected
  <2>1. PICK T : /\ T = [t EXCEPT !.version = @ + 1, !.outbox = Append(@, "pending")]
                 /\ Work(T) /\ Goto(p, "record")
    BY <1>3 DEF Change
  <2>2. CommandIdOf(p) = <<calls[p].job, "change">> /\ calls[p].job \in Jobs
    BY <1>1, <1>2, Fields DEF CommandIdOf, Processes, SoundCall, CommandSteps
  <2>3. database.version + 1 \in Versions
    BY <1>2, <2>2, ChangesCounted
  <2>4. T \in Tables
    <3>1. /\ Append(database.outbox, "pending") \in Seq({"pending", "delivered"})
          /\ database.commands \in [CommandIds -> Row \cup {Nil}]
      BY <1>2 DEF Tables
    <3>2. T = [version |-> database.version + 1, outbox |-> Append(database.outbox, "pending"),
               commands |-> database.commands]
      BY <1>2, <2>1 DEF Tables
    <3> QED BY <2>3, <3>1, <3>2 DEF Tables
  <2>5. /\ T.version = database.version + 1 /\ T.commands = database.commands
        /\ T.outbox = Append(database.outbox, "pending")
    BY <1>2, <2>1 DEF Tables
  <2>6. HolderSound(p, T)'
    <3>1. /\ calls'[p].step = "record" /\ calls'[p].expected = database.version
          /\ CommandIdOf(p)' = CommandIdOf(p)
      BY <1>2, <1>3, <2>1, GotoKeeps
    <3>2. Acted(p, T)'
      BY <1>1, <2>5, <3>1 DEF Acted
    <3> QED BY <1>1, <1>2, <2>5, <3>1, <3>2 DEF HolderSound
  <2>7. transaction' = [by |-> p, tables |-> T]
    BY <1>2, <2>1 DEF Work, Transaction
  <2> QED BY <1>1, <2>1, <2>4, <2>6, <2>7, CommandGoesOn DEF Working
<1>4. CASE t.version # calls[p].expected
  <2>1. RollBack /\ Return(p, "rejected", 0)
    BY <1>4 DEF Change, Throw
  <2> QED BY <1>1, <2>1, Basics, AnswerRow DEF RollBack
<1> QED BY <1>3, <1>4

(* mark_outbox_delivered changes the transaction, and not yet the tables.    *)
LEMMA CommandMarks ==
  ASSUME Invariant, NEW p \in Processes, MarkOutboxDelivered(p)
  PROVE  Invariant'
<1> DEFINE t == transaction.tables
<1>1. PICK T :
        /\ T = [t EXCEPT !.outbox = [@ EXCEPT ![calls[p].event] = "delivered"]]
        /\ calls[p].step = "act" /\ calls[p].step \in Working /\ p = Deliverer
        /\ Work(T) /\ Goto(p, "record")
        /\ UNCHANGED <<evidence, database, received, faults>>
  BY DEF MarkOutboxDelivered, At, Working
<1>2. /\ transaction \in Transaction /\ transaction.by = p /\ t = database
      /\ database \in Tables /\ database.commands[CommandIdOf(p)] = Nil
  BY <1>1, Held, Fields DEF HolderSound
<1>3. T \in Tables
  <2>1. [database.outbox EXCEPT ![calls[p].event] = "delivered"]
          \in Seq({"pending", "delivered"})
    <3> DEFINE box == database.outbox
    <3>1. box \in Seq({"pending", "delivered"})
      BY <1>2 DEF Tables
    <3>2. Len(box) \in Nat /\ box \in [1..Len(box) -> {"pending", "delivered"}]
      BY <3>1
    <3>3. [box EXCEPT ![calls[p].event] = "delivered"]
            \in [1..Len(box) -> {"pending", "delivered"}]
      BY <3>2
    <3> QED BY <3>2, <3>3
  <2>2. database.commands \in [CommandIds -> Row \cup {Nil}] /\ database.version \in Versions
    BY <1>2 DEF Tables
  <2>3. T = [version |-> database.version,
             outbox |-> [database.outbox EXCEPT ![calls[p].event] = "delivered"],
             commands |-> database.commands]
    BY <1>1, <1>2 DEF Tables
  <2> QED BY <2>1, <2>2, <2>3 DEF Tables
<1>4. /\ T.version = database.version /\ T.commands = database.commands
      /\ T.outbox = [database.outbox EXCEPT ![calls[p].event] = "delivered"]
  BY <1>1, <1>2 DEF Tables
<1>5. HolderSound(p, T)'
  <2>1. /\ calls'[p].step = "record" /\ calls'[p].event = calls[p].event
        /\ CommandIdOf(p)' = CommandIdOf(p)
    BY <1>1, GotoKeeps
  <2>2. Acted(p, T)'
    BY <1>1, <1>4, <2>1 DEF Acted
  <2> QED BY <1>1, <1>2, <1>4, <2>1, <2>2 DEF HolderSound
<1>6. transaction' = [by |-> p, tables |-> T]
  BY <1>1, <1>2 DEF Work, Transaction
<1> QED BY <1>1, <1>3, <1>5, <1>6, CommandGoesOn DEF Working

(* The row of the command is written into the transaction.                   *)
LEMMA CommandRecords ==
  ASSUME Invariant, NEW p \in Processes, RecordResult(p)
  PROVE  Invariant'
<1> DEFINE t == transaction.tables
           row == [content |-> InputOf(p), result |-> Result(p)]
<1>1. PICK T :
        /\ T = [t EXCEPT !.commands = [@ EXCEPT ![CommandIdOf(p)] = row]]
        /\ calls[p].step = "record" /\ calls[p].step \in Working
        /\ Work(T) /\ Goto(p, "commit")
        /\ UNCHANGED <<evidence, database, received, faults>>
  BY DEF RecordResult, At, Working
<1>2. /\ transaction \in Transaction /\ transaction.by = p /\ t \in Tables
      /\ Acted(p, t) /\ t.commands = database.commands
      /\ database.commands[CommandIdOf(p)] = Nil /\ calls[p].step \in CommandSteps
  BY <1>1, Held DEF HolderSound
<1>3. InputOf(p) \in Inputs /\ CommandIdOf(p) \in CommandIds /\ Result(p) \in Versions
  BY <1>2, InputTyped, Basics DEF Result, Tables
<1>4. row \in Row
  BY <1>3 DEF Row
<1>5. T \in Tables
  <2>1. [t.commands EXCEPT ![CommandIdOf(p)] = row] \in [CommandIds -> Row \cup {Nil}]
    BY <1>2, <1>4 DEF Tables
  <2>2. T = [version |-> t.version, outbox |-> t.outbox,
             commands |-> [t.commands EXCEPT ![CommandIdOf(p)] = row]]
    BY <1>1, <1>2 DEF Tables
  <2> QED BY <1>2, <2>1, <2>2 DEF Tables
<1>6. /\ T.version = t.version /\ T.outbox = t.outbox
      /\ T.commands = [database.commands EXCEPT ![CommandIdOf(p)] = row]
  BY <1>1, <1>2 DEF Tables
<1>7. transaction' = [by |-> p, tables |-> T]
  BY <1>1, <1>2 DEF Work, Transaction
<1>8. Result(p)' = Result(p)
  BY <1>6, <1>7 DEF Result
<1>9. Acted(p, T)'
  BY <1>1, <1>2, <1>6, GotoKeeps DEF Acted
<1>10. HolderSound(p, T)'
  <2>1. calls'[p].step = "commit" /\ InputOf(p)' = InputOf(p) /\ CommandIdOf(p)' = CommandIdOf(p)
    BY <1>1, GotoKeeps
  <2> QED BY <1>1, <1>2, <1>6, <1>8, <1>9, <2>1 DEF HolderSound
<1> QED BY <1>1, <1>5, <1>7, <1>10, CommandGoesOn DEF Working

(* What fails: the lock is not to be had, a statement throws, a process dies. *)
LEMMA CommandFails ==
  ASSUME Invariant, NEW p \in Processes, Busy(p) \/ StatementFails(p) \/ Crash(p)
  PROVE  Invariant'
<1>1. /\ calls[p] \in Call /\ 0 \in Versions /\ Fault /\ UNCHANGED <<evidence, database, received>>
      /\ faults' = faults + 1
  BY Fields, Basics DEF Busy, StatementFails, Crash, Fault, UnchangedStores
<1>2. CASE StatementFails(p)
  <2>1. calls[p].step \in Working
    BY <1>2 DEF StatementFails, Invariant, ProtocolInv, TransactionSound, LockSound
  <2> QED BY <1>1, <1>2, <2>1, AnswerRow DEF StatementFails, RollBack, Throw
<1>3. CASE Busy(p)
  <2> DEFINE call == [calls[p] EXCEPT !.step = "answered", !.reply = "failed", !.result = 0]
  <2>1. /\ calls[p].step = "begin" /\ SetCall(p, call) /\ UNCHANGED transaction
    BY <1>3 DEF Busy, At, Throw, Return, UnchangedStores
  <2>2. call \in Call
    BY <1>1, CallRows
  <2>3. /\ call.job = calls[p].job /\ call.content = calls[p].content
        /\ call.ref = calls[p].ref /\ call.event = calls[p].event /\ call.step = "answered"
    BY <1>1 DEF Call
  <2>4. /\ p \in Callers => SoundCall(call)
        /\ p = Deliverer => SoundDelivery(call)
    BY <1>1, <2>1, <2>2, <2>3, CommandMoves DEF CommandSteps
  <2>5. transaction' \in Transaction \cup {Nil}
    BY <2>1 DEF Invariant, ProtocolTypeOK
  <2>6. /\ ProtocolTypeOK' /\ CallersSound' /\ DelivererSound' /\ TablesSound'
        /\ DeliverySound'
    BY <1>1, <2>1, <2>2, <2>4, <2>5, StoresStay DEF Invariant
  <2>7. TransactionSound'
    BY <1>1, <2>1, <2>2, <2>3, LockElsewhere DEF Invariant, Working
  <2> QED BY <2>6, <2>7 DEF Invariant, ProtocolInv
<1>4. CASE Crash(p)
  <2>1. SetCall(p, NoCall) /\ transaction' = IF Holds(p) THEN Nil ELSE transaction
    BY <1>4 DEF Crash
  <2>2. /\ p \in Callers => SoundCall(NoCall)
        /\ p = Deliverer => SoundDelivery(NoCall)
    BY <1>1 DEF SoundCall, SoundDelivery, AttemptGoesOn, NoCall, CommandSteps
  <2>3. NoCall \in Call /\ NoCall.step \notin Working
    BY NoCallRow DEF NoCall, Working
  <2>4. transaction' \in Transaction \cup {Nil}
    BY <2>1 DEF Invariant, ProtocolTypeOK
  <2>5. /\ ProtocolTypeOK' /\ CallersSound' /\ DelivererSound' /\ TablesSound'
        /\ DeliverySound'
    BY <1>1, <2>1, <2>2, <2>3, <2>4, StoresStay DEF Invariant
  <2>6. TransactionSound'
    <3>1. CASE Holds(p)
      BY <2>1, <2>3, <3>1, LockReleased DEF Invariant
    <3>2. CASE ~Holds(p)
      <4>1. calls[p].step \notin Working
        BY <3>2 DEF Invariant, ProtocolInv, TransactionSound, LockSound
      <4> QED BY <1>1, <2>1, <2>3, <3>2, <4>1, LockElsewhere DEF Invariant
    <3> QED BY <3>1, <3>2
  <2> QED BY <2>5, <2>6 DEF Invariant, ProtocolInv
<1> QED BY <1>2, <1>3, <1>4

-----------------------------------------------------------------------------
(* COMMIT: the tables of the transaction are there for everybody.             *)

(* What COMMIT makes of the tables.                                          *)
LEMMA Committed ==
  ASSUME Invariant, NEW p \in Processes, Commit(p)
  PROVE  /\ calls[p] \in Call /\ calls[p].step = "commit"
         /\ UNCHANGED <<evidence, received, faults>>
         /\ transaction' = Nil /\ Holds(p)
         /\ database' \in Tables /\ Acted(p, database')
         /\ database.commands[CommandIdOf(p)] = Nil
         /\ CommandIdOf(p) \in CommandIds /\ InputOf(p) \in Inputs
         /\ Result(p) = IF p = Deliverer THEN 0 ELSE database'.version
         /\ database'.commands =
              [database.commands EXCEPT ![CommandIdOf(p)] =
                 [content |-> InputOf(p), result |-> Result(p)]]
<1>1. /\ calls[p].step = "commit" /\ calls[p].step \in Working
      /\ database' = transaction.tables /\ transaction' = Nil
      /\ UNCHANGED <<evidence, received, faults>>
  BY DEF Commit, At, Working
<1>2. /\ Holds(p) /\ transaction.tables \in Tables /\ HolderSound(p, transaction.tables)
      /\ calls[p].step \in CommandSteps
  BY <1>1, Held
<1>3. CommandIdOf(p) \in CommandIds /\ InputOf(p) \in Inputs /\ calls[p] \in Call
  BY <1>2, InputTyped, Fields
<1> QED BY <1>1, <1>2, <1>3 DEF HolderSound, Acted, Result

(* The change, its event and its row come together.                           *)
LEMMA ChangeCommits ==
  ASSUME Invariant, NEW p \in Callers, Commit(p)
  PROVE  /\ TablesSound'
         /\ database'.outbox = Append(database.outbox, "pending")
<1> DEFINE job == calls[p].job
           id == <<job, "change">>
           row == [content |-> InputOf(p), result |-> database.version + 1]
<1>1. /\ p \in Processes /\ p # Deliverer /\ calls[p].step \in CommandSteps
      /\ calls[p].step = "commit"
  BY Basics, Committed DEF CommandSteps
<1>2. /\ job \in Jobs /\ calls[p].ref = evidence[job]
      /\ CommandIdOf(p) = id /\ id \in CommandIds
      /\ InputOf(p) = [kind |-> "change", ref |-> calls[p].ref, expected |-> calls[p].expected]
  BY <1>1, Committed, Fields DEF SoundCall, CommandIdOf, InputOf
<1>3. /\ calls[p].expected = database.version
      /\ database'.version = database.version + 1
      /\ database'.outbox = Append(database.outbox, "pending")
      /\ database.commands[id] = Nil
      /\ database'.commands = [database.commands EXCEPT ![id] = row]
      /\ evidence' = evidence
  BY <1>1, <1>2, Committed DEF Acted
<1>4. /\ database \in Tables /\ database.version \in Nat
      /\ database.outbox \in Seq({"pending", "delivered"})
      /\ database.commands \in [CommandIds -> Row \cup {Nil}]
  BY <1>1, Fields DEF Tables, Versions
<1>5. /\ database'.commands[id] = row
      /\ \A i \in CommandIds : i # id => database'.commands[i] = database.commands[i]
      /\ row # Nil
  <2>1. row \in Row
    BY <1>1, <1>2, <1>3, Committed DEF Row, Tables
  <2> QED BY <1>2, <1>3, <1>4, <2>1, ProtocolAssumption
<1>6. TablesSound
  BY DEF Invariant, ProtocolInv
<1>7. Len(database'.outbox) = database'.version
  BY <1>3, <1>4, <1>6 DEF TablesSound
<1>8. Cardinality(ChangeIds)' = database'.version
  <2>1. ChangeIds' = ChangeIds \cup {id}
    BY <1>2, <1>3, <1>5 DEF ChangeIds
  <2> QED BY <1>2, <1>3, <2>1, ChangesCounted
<1>9. ASSUME NEW n \in 1..database'.version
      PROVE  \E j \in Jobs : /\ database'.commands[<<j, "change">>] # Nil
                             /\ database'.commands[<<j, "change">>].result = n
  <2>1. CASE n = database.version + 1
    BY <1>2, <1>5, <2>1
  <2>2. CASE n \in 1..database.version
    <3>1. PICK j \in Jobs : /\ database.commands[<<j, "change">>] # Nil
                            /\ database.commands[<<j, "change">>].result = n
      BY <1>6, <2>2 DEF TablesSound
    <3>2. <<j, "change">> \in CommandIds /\ <<j, "change">> # id
      BY <1>3, <3>1 DEF CommandIds
    <3> QED BY <1>5, <3>1, <3>2
  <2>3. n = database.version + 1 \/ n \in 1..database.version
    BY <1>3, <1>4
  <2> QED BY <2>1, <2>2, <2>3
<1>10. ASSUME NEW j \in Jobs, database'.commands[<<j, "change">>] # Nil
       PROVE  LET r == database'.commands[<<j, "change">>]
              IN  /\ r.content.kind = "change" /\ r.content.ref = evidence'[j]
                  /\ r.result = r.content.expected + 1
                  /\ r.result \in 1..database'.version
  <2>1. CASE j = job
    BY <1>2, <1>3, <1>4, <1>5, <2>1
  <2>2. CASE j # job
    <3>1. <<j, "change">> \in CommandIds /\ <<j, "change">> # id
      BY <2>2 DEF CommandIds
    <3>2. database'.commands[<<j, "change">>] = database.commands[<<j, "change">>]
      BY <1>5, <3>1
    <3> QED BY <1>3, <1>4, <1>6, <1>10, <3>2 DEF TablesSound
  <2> QED BY <2>1, <2>2
<1>11. ASSUME NEW e \in Events, database'.commands[<<e, "mark">>] # Nil
       PROVE  /\ database'.commands[<<e, "mark">>].content.kind = "mark"
              /\ e \in DOMAIN database'.outbox /\ database'.outbox[e] = "delivered"
  <2>1. database'.commands[<<e, "mark">>] = database.commands[<<e, "mark">>]
    BY <1>5 DEF CommandIds
  <2>2. /\ database.commands[<<e, "mark">>].content.kind = "mark"
        /\ e \in DOMAIN database.outbox /\ database.outbox[e] = "delivered"
    BY <1>6, <1>11, <2>1 DEF TablesSound
  <2> QED BY <1>3, <1>4, <2>1, <2>2
<1>12. TablesSound'
  BY <1>7, <1>8, <1>9, <1>10, <1>11 DEF TablesSound
<1> QED BY <1>3, <1>12

(* A committed mark_outbox_delivered delivers its event and changes nothing  *)
(* else.                                                                     *)
LEMMA MarkCommits ==
  ASSUME Invariant, Commit(Deliverer)
  PROVE  /\ TablesSound'
         /\ database'.outbox = [database.outbox EXCEPT ![calls[Deliverer].event] = "delivered"]
         /\ calls[Deliverer].event \in DOMAIN database.outbox
<1> DEFINE event == calls[Deliverer].event
           id == <<event, "mark">>
           row == [content |-> InputOf(Deliverer), result |-> 0]
<1>1. /\ Deliverer \in Processes /\ calls[Deliverer].step \in CommandSteps
      /\ calls[Deliverer].step = "commit"
  BY Basics, Committed DEF CommandSteps
<1>2. /\ CommandIdOf(Deliverer) = id /\ id \in CommandIds /\ event \in Events
      /\ InputOf(Deliverer) = [kind |-> "mark", event |-> event]
  BY <1>1, Committed DEF CommandIdOf, InputOf, CommandIds
<1>3. event \in DOMAIN database.outbox
  BY <1>1 DEF Invariant, ProtocolInv, DelivererSound
<1>4. /\ database'.version = database.version
      /\ database'.outbox = [database.outbox EXCEPT ![event] = "delivered"]
      /\ database'.commands = [database.commands EXCEPT ![id] = row]
      /\ evidence' = evidence
  BY <1>1, <1>2, Committed DEF Acted
<1>5. /\ database \in Tables
      /\ database.outbox \in Seq({"pending", "delivered"})
      /\ database.commands \in [CommandIds -> Row \cup {Nil}]
  BY <1>1, Fields DEF Tables
<1>6. /\ database'.commands[id] = row
      /\ \A i \in CommandIds : i # id => database'.commands[i] = database.commands[i]
  BY <1>2, <1>4, <1>5
<1>7. \A j \in Jobs : database'.commands[<<j, "change">>] = database.commands[<<j, "change">>]
  BY <1>6 DEF CommandIds
<1>8. ChangeIds' = ChangeIds
  BY <1>2, <1>6 DEF ChangeIds
<1>9. /\ DOMAIN database'.outbox = DOMAIN database.outbox
      /\ Len(database'.outbox) = Len(database.outbox)
      /\ database'.outbox[event] = "delivered"
      /\ \A e \in DOMAIN database.outbox : e # event => database'.outbox[e] = database.outbox[e]
  BY <1>3, <1>4, <1>5
<1>10. TablesSound
  BY DEF Invariant, ProtocolInv
<1>11. ASSUME NEW e \in Events, database'.commands[<<e, "mark">>] # Nil
       PROVE  /\ database'.commands[<<e, "mark">>].content.kind = "mark"
              /\ e \in DOMAIN database'.outbox /\ database'.outbox[e] = "delivered"
  <2>1. CASE e = event
    BY <1>2, <1>3, <1>6, <1>9, <2>1
  <2>2. CASE e # event
    <3>1. database'.commands[<<e, "mark">>] = database.commands[<<e, "mark">>]
      BY <1>6, <2>2 DEF CommandIds
    <3> QED BY <1>9, <1>10, <1>11, <2>2, <3>1 DEF TablesSound
  <2> QED BY <2>1, <2>2
<1>12. TablesSound'
  BY <1>4, <1>7, <1>8, <1>9, <1>10, <1>11 DEF TablesSound
<1> QED BY <1>3, <1>4, <1>12

(* What waits after a COMMIT waited before it, or is new.                     *)
LEMMA CommitKeeps ==
  ASSUME Invariant, NEW p \in Processes, Commit(p)
  PROVE  Invariant'
<1> DEFINE call == [calls[p] EXCEPT !.step = "answered", !.reply = "result",
                                    !.result = Result(p)]
<1>1. /\ calls[p] \in Call /\ calls[p].step = "commit" /\ calls[p].step \in CommandSteps
      /\ UNCHANGED <<evidence, received, faults>>
      /\ transaction' = Nil /\ Holds(p)
      /\ database' \in Tables
      /\ Result(p) = IF p = Deliverer THEN 0 ELSE database'.version
  BY Committed DEF CommandSteps
<1>2. call \in Call /\ SetCall(p, call)
  <2>1. Result(p) \in Versions
    BY <1>1, Basics DEF Tables
  <2> QED BY <1>1, <2>1, CallRows DEF Commit, Return
<1>3. /\ calls' \in [Processes -> Call] /\ calls'[p] = call
      /\ \A q \in Processes : q # p => calls'[q] = calls[q]
  BY <1>2, CallSet DEF Invariant
<1>4. /\ call.step = "answered" /\ call.job = calls[p].job
      /\ call.content = calls[p].content /\ call.ref = calls[p].ref
      /\ call.event = calls[p].event
  BY <1>1 DEF Call
<1>5. TransactionSound'
  BY <1>1, <1>2, <1>4, LockReleased DEF Invariant, Working
<1>6. CallersSound'
  <2>1. ASSUME NEW c \in Callers PROVE SoundCall(calls[c])'
    <3>1. SoundCall(calls[c]) /\ c \in Processes
      BY Basics DEF Invariant, ProtocolInv, CallersSound
    <3>2. CASE c = p
      BY <1>1, <1>3, <1>4, <3>1, <3>2 DEF SoundCall, CommandSteps
    <3>3. CASE c # p
      BY <1>1, <1>3, <3>1, <3>3 DEF SoundCall
    <3> QED BY <3>2, <3>3
  <2> QED BY <2>1 DEF CallersSound
<1>7. ProtocolTypeOK'
  <2>1. \A c \in Callers : calls'[c].step \in CommandSteps => calls'[c].ref # Nil
    BY <1>6 DEF CallersSound, SoundCall
  <2> QED BY <1>1, <1>3, <2>1 DEF Invariant, ProtocolTypeOK
<1>8. database.outbox \in Seq({"pending", "delivered"})
  BY <1>1, Fields DEF Tables
<1>9. DelivererSound /\ DeliverySound
  BY DEF Invariant, ProtocolInv
<1>10. faults \in Nat
  BY ProtocolAssumption DEF Invariant, ProtocolTypeOK
<1>11. CASE p # Deliverer
  <2>1. TablesSound' /\ database'.outbox = Append(database.outbox, "pending")
    BY <1>11, ChangeCommits DEF Processes
  <2>2. /\ DOMAIN database.outbox \subseteq DOMAIN database'.outbox
        /\ \A e \in DOMAIN database.outbox : database'.outbox[e] = database.outbox[e]
    BY <1>8, <2>1
  <2>3. calls'[Deliverer] = calls[Deliverer]
    BY <1>3, <1>11, Basics
  <2>4. DelivererSound'
    BY <1>9, <2>2, <2>3 DEF DelivererSound
  <2>5. DeliverySound'
    <3>1. ASSUME NEW e \in Events
          PROVE  /\ e \notin DOMAIN database'.outbox => received'[e] = 0
                 /\ e \in Pending' /\ ~Attempt(e)' => received'[e] <= faults'
      <4>1. CASE e \in DOMAIN database.outbox
        BY <1>1, <1>9, <2>2, <2>3, <4>1 DEF DeliverySound, Pending, Attempt
      <4>2. CASE e \notin DOMAIN database.outbox
        BY <1>1, <1>9, <1>10, <4>2 DEF DeliverySound
      <4> QED BY <4>1, <4>2
    <3> QED BY <3>1 DEF DeliverySound
  <2> QED BY <1>5, <1>6, <1>7, <2>1, <2>4, <2>5 DEF Invariant, ProtocolInv
<1>12. CASE p = Deliverer
  <2> DEFINE event == calls[Deliverer].event
  <2>1. /\ TablesSound'
        /\ database'.outbox = [database.outbox EXCEPT ![event] = "delivered"]
        /\ event \in DOMAIN database.outbox
    BY <1>12, MarkCommits
  <2>2. /\ DOMAIN database'.outbox = DOMAIN database.outbox
        /\ database'.outbox[event] = "delivered"
        /\ \A e \in DOMAIN database.outbox : e # event => database'.outbox[e] = database.outbox[e]
    BY <1>8, <2>1
  <2>3. calls'[Deliverer].step = "answered" /\ calls'[Deliverer].event = event
    BY <1>3, <1>4, <1>12
  <2>4. DelivererSound'
    BY <2>1, <2>2, <2>3 DEF DelivererSound
  <2>5. DeliverySound'
    <3>1. ASSUME NEW e \in Events
          PROVE  /\ e \notin DOMAIN database'.outbox => received'[e] = 0
                 /\ e \in Pending' /\ ~Attempt(e)' => received'[e] <= faults'
      <4>1. e \notin DOMAIN database'.outbox => received'[e] = 0
        BY <1>1, <1>9, <2>2 DEF DeliverySound
      <4>2. ASSUME e \in Pending' PROVE received'[e] <= faults'
        <5>1. e # event /\ e \in Pending
          BY <2>2, <4>2 DEF Pending
        <5> QED BY <1>1, <1>9, <5>1 DEF DeliverySound, Attempt
      <4> QED BY <4>1, <4>2
    <3> QED BY <3>1 DEF DeliverySound
  <2> QED BY <1>5, <1>6, <1>7, <2>1, <2>4, <2>5 DEF Invariant, ProtocolInv
<1> QED BY <1>11, <1>12

(* Every statement of command, a busy database, a failure and a crash.       *)
LEMMA CommandKeeps ==
  ASSUME Invariant, NEW p \in Processes,
         Command(p) \/ Busy(p) \/ StatementFails(p) \/ Crash(p)
  PROVE  Invariant'
<1>1. CASE Command(p)
  BY <1>1, CommandBegins, CommandLooksUp, CommandChanges, CommandMarks, CommandRecords,
     CommitKeeps DEF Command
<1> QED BY <1>1, CommandFails

-----------------------------------------------------------------------------
(* The deliverer. *)

(* An event is handed out when no attempt to deliver it is under way.         *)
LEMMA DelivererKeeps ==
  ASSUME Invariant, HandOut(Deliverer) \/ PlanAgain(Deliverer)
  PROVE  Invariant'
<1>1. Deliverer \in Processes /\ calls[Deliverer] \in Call /\ database \in Tables
  BY Basics, Fields
<1>2. CASE PlanAgain(Deliverer)
  <2>1. /\ SetCall(Deliverer, NoCall) /\ UNCHANGED <<evidence, database, transaction>>
        /\ UNCHANGED <<received, faults>> /\ calls[Deliverer].step = "answered"
    BY <1>2 DEF PlanAgain, UnchangedStores, At
  <2>2. NoCall \in Call /\ NoCall.step \notin Working /\ SoundDelivery(NoCall)
    BY <2>1, NoCallRow DEF NoCall, Working, SoundDelivery, AttemptGoesOn, CommandSteps
  <2>3. transaction' \in Transaction \cup {Nil} /\ calls[Deliverer].step \notin Working
    BY <2>1 DEF Invariant, ProtocolTypeOK, Working
  <2>4. /\ ProtocolTypeOK' /\ CallersSound' /\ DelivererSound' /\ TablesSound'
        /\ DeliverySound'
    BY <1>1, <2>1, <2>2, <2>3, Basics, StoresStay DEF Invariant
  <2>5. TransactionSound'
    BY <1>1, <2>1, <2>2, <2>3, LockElsewhere DEF Invariant
  <2> QED BY <2>4, <2>5 DEF Invariant, ProtocolInv
<1>3. CASE HandOut(Deliverer)
  <2>1. PICK e \in Pending :
          /\ received' = [received EXCEPT ![e] = @ + 1]
          /\ SetCall(Deliverer, [NoCall EXCEPT !.step = "begin", !.event = e])
    BY <1>3 DEF HandOut
  <2> DEFINE call == [NoCall EXCEPT !.step = "begin", !.event = e]
  <2>2. /\ UNCHANGED <<evidence, database, transaction, faults>>
        /\ calls[Deliverer].step = "idle"
    BY <1>3 DEF HandOut, At, UnchangedStores
  <2>3. e \in Events /\ e \in DOMAIN database.outbox /\ e \in Versions
    <3>1. /\ database.outbox \in Seq({"pending", "delivered"})
          /\ Len(database.outbox) = database.version /\ database.version \in Versions
      BY <1>1, Fields DEF Tables, Invariant, ProtocolInv, TablesSound
    <3>2. e \in DOMAIN database.outbox
      BY DEF Pending
    <3> QED BY <3>1, <3>2, Basics DEF Events, Versions
  <2>4. call \in Call /\ call.step = "begin" /\ call.event = e
    BY <2>3, NoCallRow DEF NoCall, Call, CommandSteps
  <2>5. /\ calls' \in [Processes -> Call] /\ calls'[Deliverer] = call
        /\ \A q \in Processes : q # Deliverer => calls'[q] = calls[q]
    BY <1>1, <2>1, <2>4, CallSet DEF Invariant
  <2>6. CallersSound'
    BY <2>2, <2>5, Basics DEF Invariant, ProtocolInv, CallersSound, SoundCall
  <2>7. DelivererSound'
    BY <2>2, <2>3, <2>4, <2>5 DEF DelivererSound, CommandSteps
  <2>8. TablesSound'
    BY <2>2 DEF Invariant, ProtocolInv, TablesSound, ChangeIds
  <2>9. TransactionSound'
    <3>1. calls[Deliverer].step \notin Working /\ call.step \notin Working
      BY <2>2, <2>4 DEF Working
    <3> QED BY <1>1, <2>1, <2>2, <2>4, <3>1, LockElsewhere DEF Invariant
  <2>10. received[e] <= faults /\ received \in [Events -> 0..faults + 1] /\ faults \in Nat
    <3>1. DeliverySound /\ received \in [Events -> 0..faults + 1] /\ faults \in 0..MaxFaults
      BY DEF Invariant, ProtocolInv, ProtocolTypeOK
    <3>2. e \in Pending /\ ~Attempt(e)
      BY <2>2 DEF Attempt, CommandSteps
    <3>3. received[e] <= faults
      BY <2>3, <3>1, <3>2 DEF DeliverySound
    <3> QED BY <3>1, <3>3, ProtocolAssumption
  <2>11. /\ received'[e] = received[e] + 1
         /\ \A f \in Events : f # e => received'[f] = received[f]
         /\ received' \in [Events -> 0..faults + 1]
    BY <2>1, <2>3, <2>10
  <2>12. DeliverySound'
    <3>1. ASSUME NEW f \in Events
          PROVE  /\ f \notin DOMAIN database'.outbox => received'[f] = 0
                 /\ f \in Pending' /\ ~Attempt(f)' => received'[f] <= faults'
      <4>1. CASE f = e
        BY <2>2, <2>3, <2>4, <2>5, <4>1 DEF Attempt, CommandSteps
      <4>2. CASE f # e
        BY <2>2, <2>11, <4>2
           DEF Invariant, ProtocolInv, DeliverySound, Pending, Attempt, CommandSteps
      <4> QED BY <4>1, <4>2
    <3> QED BY <3>1 DEF DeliverySound
  <2>13. ProtocolTypeOK'
    <3>1. \A c \in Callers : calls'[c].step \in CommandSteps => calls'[c].ref # Nil
      BY <2>6 DEF CallersSound, SoundCall
    <3> QED BY <2>2, <2>5, <2>11, <3>1 DEF Invariant, ProtocolTypeOK
  <2> QED BY <2>6, <2>7, <2>8, <2>9, <2>12, <2>13 DEF Invariant, ProtocolInv
<1> QED BY <1>2, <1>3

-----------------------------------------------------------------------------
(* The theorems. *)

(* Empty stores and idle processes.                                          *)
LEMMA InvariantInit == Init => Invariant
<1> SUFFICES ASSUME Init PROVE Invariant
  OBVIOUS
<1>1. /\ evidence = [j \in Jobs |-> Nil] /\ transaction = Nil
      /\ calls = [p \in Processes |-> NoCall] /\ received = [e \in Events |-> 0]
      /\ faults = 0 /\ MaxFaults \in Nat
      /\ database.version = 0 /\ database.outbox = << >>
      /\ database.commands = [i \in CommandIds |-> Nil]
  BY ProtocolAssumption DEF Init
<1>2. NoCall \in Call /\ NoCall.step = "idle" /\ NoCall.ref = Nil
  BY NoCallRow DEF NoCall
<1>3. ProtocolTypeOK
  <2>1. database \in Tables
    <3>1. << >> \in Seq({"pending", "delivered"})
      OBVIOUS
    <3> QED BY <3>1, Basics DEF Init, Tables
  <2>2. calls \in [Processes -> Call] /\ received \in [Events -> 0..faults + 1]
    BY <1>1, <1>2
  <2>3. \A c \in Callers : calls[c].step \notin CommandSteps
    BY <1>1, <1>2, Basics DEF CommandSteps
  <2> QED BY <1>1, <2>1, <2>2, <2>3 DEF ProtocolTypeOK
<1>4. CallersSound
  BY <1>1, <1>2, Basics DEF CallersSound, SoundCall, CommandSteps
<1>5. DelivererSound
  BY <1>1, <1>2, Basics DEF DelivererSound
<1>6. TablesSound
  <2>1. ChangeIds = {}
    BY <1>1 DEF ChangeIds
  <2>2. Cardinality(ChangeIds) = 0
    BY <2>1, FS_EmptySet
  <2>3. /\ \A j \in Jobs : database.commands[<<j, "change">>] = Nil
        /\ \A e \in Events : database.commands[<<e, "mark">>] = Nil
    BY <1>1 DEF CommandIds
  <2> QED BY <1>1, <2>2, <2>3 DEF TablesSound
<1>7. TransactionSound
  BY <1>1, <1>2 DEF TransactionSound, LockSound, Holds, Working
<1>8. DeliverySound
  BY <1>1 DEF DeliverySound, Pending
<1> QED BY <1>3, <1>4, <1>5, <1>6, <1>7, <1>8 DEF Invariant, ProtocolInv

(* Induction step: callers, commands and the deliverer.                      *)
LEMMA InvariantStep == Invariant /\ [Next]_vars => Invariant'
<1> SUFFICES ASSUME Invariant, [Next]_vars PROVE Invariant'
  OBVIOUS
<1>1. CASE Next
  BY <1>1, CallerKeeps, CommandKeeps, DelivererKeeps DEF Next
<1>2. CASE UNCHANGED vars
  <2>1. UNCHANGED <<evidence, database, transaction, calls, received, faults>>
    BY <1>2 DEF vars
  <2>2. ProtocolTypeOK'
    BY <2>1 DEF Invariant, ProtocolTypeOK
  <2>3. CallersSound' /\ DelivererSound' /\ DeliverySound'
    BY <2>1 DEF Invariant, ProtocolInv, CallersSound, SoundCall, DelivererSound,
       DeliverySound, Pending, Attempt
  <2>4. TablesSound'
    BY <2>1 DEF Invariant, ProtocolInv, TablesSound, ChangeIds
  <2>5. TransactionSound'
    BY <2>1 DEF Invariant, ProtocolInv, TransactionSound, LockSound, Holds, HolderSound,
       Acted, CommandIdOf, InputOf, Result
  <2> QED BY <2>2, <2>3, <2>4, <2>5 DEF Invariant, ProtocolInv
<1> QED BY <1>1, <1>2

(* Tables, calls and deliveries keep their types, and an event is handed out  *)
(* at most once more than something failed (command, recoveryPlan).           *)
THEOREM StoresAreTyped == Spec => []ProtocolTypeOK
<1>1. Invariant => ProtocolTypeOK
  BY DEF Invariant
<1> QED BY <1>1, InvariantInit, InvariantStep, PTL DEF Spec

(* The invariant in every reachable state.                                   *)
LEMMA InvariantHolds == Spec => []Invariant
BY InvariantInit, InvariantStep, PTL DEF Spec

(* The rows of changes are those under the ids of the jobs, and what they say *)
(* is true.                                                                   *)
LEMMA ChangeRows ==
  ASSUME Invariant
  PROVE  /\ \A row \in Changes(database) :
              /\ \E j \in Jobs : evidence[j] = row.content.ref
              /\ row.result = row.content.expected + 1
              /\ row.result \in 1..database.version
         /\ \A j \in Jobs : LET row == database.commands[<<j, "change">>]
                            IN  row # Nil => row \in Changes(database)
<1>1. TablesSound
  BY DEF Invariant, ProtocolInv
<1>2. ASSUME NEW row \in Changes(database)
      PROVE  /\ \E j \in Jobs : evidence[j] = row.content.ref
             /\ row.result = row.content.expected + 1
             /\ row.result \in 1..database.version
  <2>1. PICK i \in CommandIds :
          row = database.commands[i] /\ row # Nil /\ row.content.kind = "change"
    BY DEF Changes
  <2>2. CASE i \in Jobs \X {"change"}
    <3>1. PICK j \in Jobs : i = <<j, "change">>
      BY <2>2
    <3>2. database.commands[<<j, "change">>] = row /\ row # Nil
      BY <2>1, <3>1
    <3>3. /\ row.content.ref = evidence[j] /\ row.result = row.content.expected + 1
          /\ row.result \in 1..database.version
      BY <1>1, <3>2 DEF TablesSound
    <3> QED BY <3>3
  <2>3. CASE i \in Events \X {"mark"}
    <3>1. PICK e \in Events : i = <<e, "mark">>
      BY <2>3
    <3> QED BY <1>1, <2>1, <3>1 DEF TablesSound
  <2> QED BY <2>2, <2>3 DEF CommandIds
<1>3. ASSUME NEW j \in Jobs, database.commands[<<j, "change">>] # Nil
      PROVE  database.commands[<<j, "change">>] \in Changes(database)
  <2>1. <<j, "change">> \in CommandIds
    BY DEF CommandIds
  <2>2. database.commands[<<j, "change">>].content.kind = "change"
    BY <1>1, <1>3 DEF TablesSound
  <2> QED BY <1>3, <2>1, <2>2 DEF Changes
<1> QED BY <1>2, <1>3

(* The version, the outbox and the command table never tell different         *)
(* stories of what was done, whatever statement fails or process dies between *)
(* BEGIN IMMEDIATE and COMMIT (command, appendOutbox).                        *)
THEOREM ChangesAreRecorded == Spec => []EffectsAreRecorded
<1>1. ASSUME Invariant PROVE EffectsAreRecorded
  <2>1. TablesSound
    BY <1>1 DEF Invariant, ProtocolInv
  <2>2. {row.result : row \in Changes(database)} = 1..database.version
    <3>1. ASSUME NEW row \in Changes(database) PROVE row.result \in 1..database.version
      BY <1>1, <3>1, ChangeRows
    <3>2. ASSUME NEW n \in 1..database.version
          PROVE  \E row \in Changes(database) : row.result = n
      <4>1. PICK j \in Jobs : /\ database.commands[<<j, "change">>] # Nil
                              /\ database.commands[<<j, "change">>].result = n
        BY <2>1, <3>2 DEF TablesSound
      <4> QED BY <1>1, <4>1, ChangeRows
    <3> QED BY <3>1, <3>2
  <2>3. ASSUME NEW row \in Changes(database) PROVE row.result = row.content.expected + 1
    BY <1>1, <2>3, ChangeRows
  <2>4. Cardinality({i \in CommandIds : i[2] = "change" /\ database.commands[i] # Nil})
          = database.version
    BY <2>1 DEF TablesSound, ChangeIds
  <2> QED BY <2>1, <2>2, <2>3, <2>4 DEF EffectsAreRecorded, TablesSound
<1> QED BY <1>1, InvariantHolds, PTL

(* No transaction covers the Evidence store and the control plane: what a     *)
(* command cites is stored because put returns before command is called, and  *)
(* no row of Evidence is ever replaced (put, INSERT).                         *)
THEOREM CitationsAreStored == Spec => []CitedEvidenceIsStored
<1>1. ASSUME Invariant PROVE CitedEvidenceIsStored
  BY <1>1, ChangeRows DEF CitedEvidenceIsStored
<1> QED BY <1>1, InvariantHolds, PTL

-----------------------------------------------------------------------------
(* put implements a write-once store. *)

(* What a call says of put.                                                   *)
PutAnswer(k) ==
  IF k.ref # Nil /\ k.step # "get" THEN "row"
  ELSE IF k.step # "answered" THEN "none"
  ELSE IF k.reply = "conflict" THEN "conflict" ELSE "failed"

PutAsk(k) ==
  IF k.step = "idle" THEN Nil
  ELSE [key |-> k.job, content |-> k.content, answer |-> PutAnswer(k),
        row |-> IF PutAnswer(k) = "row" THEN k.ref ELSE Nil]

PutStep == EvidenceStore!Next \/ UNCHANGED <<evidence, PutAsks>>

(* A process that goes on changes what it asks the Evidence store, and no    *)
(* other process does.                                                       *)
LEMMA PutAskMoves ==
  ASSUME ProtocolTypeOK, NEW p \in Processes, NEW call \in Call, SetCall(p, call)
  PROVE  /\ p \in Callers => /\ PutAsks' = [PutAsks EXCEPT ![p] = PutAsk(call)]
                             /\ PutAsks[p] = PutAsk(calls[p])
         /\ p \notin Callers \/ PutAsk(call) = PutAsk(calls[p]) => PutAsks' = PutAsks
<1>1. /\ calls'[p] = call
      /\ \A q \in Processes : q # p => calls'[q] = calls[q]
  BY CallSet
<1>2. PutAsks = [c \in Callers |-> PutAsk(calls[c])]
  BY DEF PutAsks, PutAsk, PutAnswer, AnswerToPut, At, Mine
<1>3. PutAsks' = [c \in Callers |-> PutAsk(calls'[c])]
  BY DEF PutAsks, PutAsk, PutAnswer, AnswerToPut, At, Mine
<1>4. \A c \in Callers : c # p => PutAsk(calls'[c]) = PutAsk(calls[c])
  BY <1>1, Basics
<1>5. ASSUME p \in Callers
      PROVE  /\ PutAsks' = [PutAsks EXCEPT ![p] = PutAsk(call)]
             /\ PutAsks[p] = PutAsk(calls[p])
  BY <1>1, <1>2, <1>3, <1>4, <1>5
<1>6. ASSUME p \notin Callers \/ PutAsk(call) = PutAsk(calls[p]) PROVE PutAsks' = PutAsks
  <2>1. \A c \in Callers : PutAsk(calls'[c]) = PutAsk(calls[c])
    BY <1>1, <1>4, <1>6
  <2> QED BY <1>2, <1>3, <2>1
<1> QED BY <1>5, <1>6

(* A caller that waits for put, and what it may be told.                      *)
LEMMA PutWaits ==
  ASSUME Invariant, NEW c \in Callers, calls[c].step \in PutSteps
  PROVE  /\ PutAsk(calls[c]) = [key |-> calls[c].job, content |-> calls[c].content,
                                answer |-> "none", row |-> Nil]
         /\ PutAsk(calls[c]) # Nil
         /\ calls[c].job \in Jobs /\ calls[c].content \in Contents
<1>1. calls[c] \in Call /\ SoundCall(calls[c]) /\ calls[c].step # "idle"
  BY Fields, Basics DEF PutSteps
<1>2. calls[c].job \in Jobs /\ calls[c].content \in Contents
  BY <1>1 DEF SoundCall
<1>3. PutAnswer(calls[c]) = "none"
  BY <1>1 DEF PutAnswer, SoundCall, PutSteps
<1>4. PutAsk(calls[c]) = [key |-> calls[c].job, content |-> calls[c].content,
                          answer |-> "none", row |-> Nil]
  BY <1>1, <1>3 DEF PutAsk
<1>5. PutAsk(calls[c]) \in EvidenceStore!Ask
  BY <1>2, <1>4 DEF EvidenceStore!Ask
<1> QED BY <1>2, <1>4, <1>5, NilIsNoAsk

(* A process that asks the same as before is a stutter of the Evidence       *)
(* store.                                                                    *)
LEMMA PutStays ==
  ASSUME Invariant, NEW p \in Processes, NEW call \in Call, SetCall(p, call),
         UNCHANGED evidence, p \notin Callers \/ PutAsk(call) = PutAsk(calls[p])
  PROVE  PutStep
BY PutAskMoves DEF Invariant, PutStep

(* A call that begins, or is forgotten.                                       *)
LEMMA PutBegins ==
  ASSUME Invariant, NEW c \in Callers, Start(c) \/ Retry(c) \/ Reread(c)
  PROVE  PutStep
<1>1. /\ c \in Processes /\ calls[c] \in Call /\ SoundCall(calls[c])
      /\ UNCHANGED evidence /\ database.version \in Versions /\ 0 \in Versions
  BY Fields, Basics DEF Start, Retry, Reread, UnchangedStores
<1>2. PICK call \in Call :
        /\ SetCall(c, call) /\ call.step = "find" /\ call.ref = Nil
        /\ call.job \in Jobs /\ call.content \in Contents
  <2>1. CASE Start(c)
    <3>1. PICK job \in Jobs, content \in Contents :
            SetCall(c, [NoCall EXCEPT !.step = "find", !.job = job, !.content = content,
                                      !.expected = database.version])
      BY <2>1 DEF Start
    <3> DEFINE call == [NoCall EXCEPT !.step = "find", !.job = job, !.content = content,
                                      !.expected = database.version]
    <3>2. /\ call \in Call /\ call.step = "find" /\ call.ref = Nil
          /\ call.job \in Jobs /\ call.content \in Contents
      BY <1>1 DEF NoCall, Call, PutSteps
    <3> QED BY <3>1, <3>2
  <2>2. ASSUME Retry(c) \/ Reread(c)
        PROVE  calls[c].job \in Jobs /\ calls[c].content \in Contents
    BY <1>1, <2>2 DEF Retry, Reread, At, SoundCall
  <2>3. CASE Retry(c)
    <3> DEFINE call == [calls[c] EXCEPT !.step = "find", !.ref = Nil, !.reply = "none",
                                        !.result = 0]
    <3>1. /\ call \in Call /\ call.step = "find" /\ call.ref = Nil
          /\ call.job \in Jobs /\ call.content \in Contents
      BY <1>1, <2>2, <2>3 DEF Call, PutSteps
    <3> QED BY <2>3, <3>1 DEF Retry
  <2>4. CASE Reread(c)
    <3> DEFINE call == [calls[c] EXCEPT !.step = "find", !.ref = Nil, !.reply = "none",
                                        !.expected = database.version]
    <3>1. /\ call \in Call /\ call.step = "find" /\ call.ref = Nil
          /\ call.job \in Jobs /\ call.content \in Contents
      BY <1>1, <2>2, <2>4 DEF Call, PutSteps
    <3> QED BY <2>4, <3>1 DEF Reread
  <2> QED BY <2>1, <2>3, <2>4
<1>3. PutAsk(call) = [key |-> call.job, content |-> call.content, answer |-> "none", row |-> Nil]
  BY <1>2 DEF PutAsk, PutAnswer
<1>4. PutAsks' = [PutAsks EXCEPT ![c] = PutAsk(call)] /\ PutAsks'[c] = PutAsk(call)
  <2>1. PutAsks' = [PutAsks EXCEPT ![c] = PutAsk(call)]
    BY <1>1, <1>2, PutAskMoves DEF Invariant
  <2> QED BY <2>1 DEF PutAsks
<1>5. EvidenceStore!Asks(c)
  <2>1. PutAsks'[c] \in [key: Jobs, content: Contents, row: {Nil}, answer: {"none"}]
    BY <1>2, <1>3, <1>4
  <2>2. PutAsks' = [PutAsks EXCEPT ![c] = PutAsks'[c]]
    BY <1>4
  <2> QED BY <1>1, <2>1, <2>2 DEF EvidenceStore!Asks
<1> QED BY <1>5 DEF PutStep, EvidenceStore!Next

(* The caller is told of the failure, or that the input differs.              *)
LEMMA PutThrows ==
  ASSUME Invariant, NEW c \in Callers, NEW reply \in {"conflict", "failed"},
         Throw(c, reply), UNCHANGED evidence, calls[c].ref = Nil, calls[c].step # "idle",
         reply = "conflict" =>
           /\ calls[c].step \in PutSteps /\ evidence[calls[c].job] # Nil
           /\ evidence[calls[c].job].content # calls[c].content
  PROVE  PutStep
<1> DEFINE call == [calls[c] EXCEPT !.step = "answered", !.reply = reply, !.result = 0]
<1>1. /\ c \in Processes /\ calls[c] \in Call /\ SoundCall(calls[c]) /\ SetCall(c, call)
      /\ call \in Call
  BY Fields, Basics, CallRows DEF Throw, Return
<1>2. /\ call.step = "answered" /\ call.ref = Nil /\ call.reply = reply
      /\ call.job = calls[c].job /\ call.content = calls[c].content
  BY <1>1 DEF Call
<1>3. PutAsk(call) = [key |-> calls[c].job, content |-> calls[c].content, answer |-> reply,
                      row |-> Nil]
  BY <1>2 DEF PutAsk, PutAnswer
<1>4. PutAsk(calls[c]) = [key |-> calls[c].job, content |-> calls[c].content,
                          answer |-> PutAnswer(calls[c]), row |-> Nil]
  BY DEF PutAsk, PutAnswer
<1>5. PutAsk(call) = [key |-> PutAsk(calls[c]).key, content |-> PutAsk(calls[c]).content,
                      answer |-> reply, row |-> Nil]
  BY <1>3, <1>4
<1>6. /\ PutAsks' = [PutAsks EXCEPT ![c] = PutAsk(call)] /\ PutAsks[c] = PutAsk(calls[c])
  BY <1>1, PutAskMoves DEF Invariant
<1>7. EvidenceStore!Refuse(c, reply)
  BY <1>5, <1>6 DEF EvidenceStore!Refuse, EvidenceStore!Tell
<1>8. PutAsk(calls[c]) # Nil
  <2>1. PutAsk(calls[c]) \in EvidenceStore!Ask
    BY <1>1, <1>4 DEF EvidenceStore!Ask, SoundCall, PutAnswer
  <2> QED BY <2>1, NilIsNoAsk
<1>9. CASE reply = "failed"
  <2>1. EvidenceStore!Fail(c)
    BY <1>6, <1>7, <1>8, <1>9 DEF EvidenceStore!Fail
  <2> QED BY <2>1 DEF PutStep, EvidenceStore!Next
<1>10. CASE reply = "conflict"
  <2>1. PutAsks[c] = [key |-> calls[c].job, content |-> calls[c].content,
                      answer |-> "none", row |-> Nil]
    BY <1>6, <1>10, PutWaits
  <2>2. EvidenceStore!Conflict(c)
    BY <1>6, <1>7, <1>8, <1>10, <2>1 DEF EvidenceStore!Conflict, EvidenceStore!Pending
  <2> QED BY <2>2 DEF PutStep, EvidenceStore!Next
<1> QED BY <1>9, <1>10

(* The caller is shown the row.                                               *)
LEMMA PutAnswers ==
  ASSUME Invariant, NEW c \in Callers, NEW call \in Call, SetCall(c, call),
         UNCHANGED evidence, calls[c].step \in PutSteps, call.step = "begin",
         call.job = calls[c].job, call.content = calls[c].content,
         evidence[calls[c].job] # Nil, call.ref = evidence[calls[c].job],
         evidence[calls[c].job].content = calls[c].content
  PROVE  PutStep
<1>1. PutAsk(call) = [key |-> calls[c].job, content |-> calls[c].content, answer |-> "row",
                      row |-> evidence[calls[c].job]]
  BY DEF PutAsk, PutAnswer
<1>2. /\ PutAsk(calls[c]) = [key |-> calls[c].job, content |-> calls[c].content,
                             answer |-> "none", row |-> Nil]
      /\ PutAsk(calls[c]) # Nil
  BY PutWaits
<1>3. PutAsk(call) = [key |-> PutAsk(calls[c]).key, content |-> PutAsk(calls[c]).content,
                      answer |-> "row", row |-> evidence[calls[c].job]]
  BY <1>1, <1>2
<1>4. /\ PutAsks' = [PutAsks EXCEPT ![c] = PutAsk(call)] /\ PutAsks[c] = PutAsk(calls[c])
  BY Basics, PutAskMoves DEF Invariant
<1>5. EvidenceStore!Show(c, evidence[calls[c].job])
  BY <1>3, <1>4 DEF EvidenceStore!Show, EvidenceStore!Tell
<1>6. EvidenceStore!Answer(c)
  BY <1>2, <1>4, <1>5 DEF EvidenceStore!Answer, EvidenceStore!Pending
<1> QED BY <1>6 DEF PutStep, EvidenceStore!Next

(* find shows a caller the stored row: it is answered, or its content is     *)
(* refused.                                                                  *)
LEMMA PutFinds ==
  ASSUME Invariant, NEW c \in Callers, calls[c].step \in {"find", "find again"},
         evidence[calls[c].job] # Nil, Found(c), UNCHANGED evidence
  PROVE  PutStep
<1>1. /\ calls[c] \in Call /\ SoundCall(calls[c]) /\ calls[c].step \in PutSteps
      /\ calls[c].ref = Nil /\ calls[c].step # "idle"
  BY Fields, Basics DEF PutSteps, SoundCall
<1>2. evidence[calls[c].job] \in Record
  BY <1>1 DEF Invariant, ProtocolTypeOK, SoundCall
<1>3. CASE evidence[calls[c].job].content = Mine(c)
  <2> DEFINE call == [calls[c] EXCEPT !.step = "begin", !.ref = evidence[calls[c].job]]
  <2>1. SetCall(c, call)
    BY <1>3 DEF Found
  <2>2. call \in Call
    BY <1>1, <1>2, CallRows DEF CommandSteps
  <2>3. /\ call.step = "begin" /\ call.job = calls[c].job /\ call.content = calls[c].content
        /\ call.ref = evidence[calls[c].job]
    BY <1>1 DEF Call
  <2> QED BY <1>1, <1>3, <2>1, <2>2, <2>3, PutAnswers DEF Mine
<1>4. CASE evidence[calls[c].job].content # Mine(c)
  BY <1>1, <1>4, PutThrows DEF Found, Mine
<1> QED BY <1>3, <1>4

(* The row is written: its caller is shown it when it has read it back.       *)
LEMMA PutInserts ==
  ASSUME Invariant, NEW c \in Callers, Insert(c)
  PROVE  PutStep
<1>1. /\ c \in Processes /\ calls[c] \in Call /\ calls[c].step = "insert"
      /\ SoundCall(calls[c]) /\ calls[c].step \in PutSteps /\ calls[c].ref = Nil
  BY Fields, Basics DEF Insert, At, PutSteps, SoundCall
<1>2. CASE evidence[calls[c].job] # Nil
  <2> DEFINE call == [calls[c] EXCEPT !.step = "find again"]
  <2>1. SetCall(c, call) /\ UNCHANGED evidence /\ call \in Call
    BY <1>1, <1>2, CallRows DEF Insert, Goto, PutSteps
  <2>2. PutAsk(call) = PutAsk(calls[c])
    BY <1>1 DEF Call, PutAsk, PutAnswer
  <2> QED BY <1>1, <2>1, <2>2, PutStays
<1>3. CASE evidence[calls[c].job] = Nil
  <2>1. PICK now \in Instants :
          LET row == [content |-> Mine(c), result |-> now]
          IN  /\ evidence' = [evidence EXCEPT ![calls[c].job] = row]
              /\ SetCall(c, [calls[c] EXCEPT !.step = "get", !.ref = row])
    BY <1>3 DEF Insert
  <2> DEFINE row == [content |-> Mine(c), result |-> now]
             call == [calls[c] EXCEPT !.step = "get", !.ref = row]
  <2>2. row \in Record
    BY <1>1 DEF SoundCall, Mine, Record
  <2>3. call \in Call
    BY <1>1, <2>2, CallRows DEF PutSteps
  <2>4. PutAsk(call) = PutAsk(calls[c])
    BY <1>1 DEF Call, PutAsk, PutAnswer
  <2>5. PutAsks' = PutAsks /\ PutAsks[c] = PutAsk(calls[c])
    BY <1>1, <2>1, <2>3, <2>4, PutAskMoves DEF Invariant
  <2>6. /\ PutAsks[c] # Nil /\ PutAsks[c].answer = "none"
        /\ PutAsks[c].key = calls[c].job /\ PutAsks[c].content = calls[c].content
    <3>1. PutAsks[c] = [key |-> calls[c].job, content |-> calls[c].content,
                        answer |-> "none", row |-> Nil]
      BY <1>1, <2>5, PutWaits
    <3>2. PutAsks[c] # Nil
      BY <1>1, <2>5, PutWaits
    <3> QED BY <3>1, <3>2
  <2>7. evidence' = [evidence EXCEPT ![PutAsks[c].key] =
                       [content |-> PutAsks[c].content, result |-> now]]
    BY <2>1, <2>6 DEF Mine
  <2>8. EvidenceStore!Write(c, now)
    BY <1>3, <2>5, <2>6, <2>7 DEF EvidenceStore!Write, EvidenceStore!Pending
  <2> QED BY <2>8 DEF PutStep, EvidenceStore!Next
<1> QED BY <1>2, <1>3

(* The statements of put that do not insert.                                 *)
LEMMA PutLooks ==
  ASSUME Invariant, NEW c \in Callers,
         LoseReply(c) \/ Find(c) \/ FindAgain(c) \/ Get(c) \/ InsertFails(c)
  PROVE  PutStep
<1>1. /\ c \in Processes /\ calls[c] \in Call /\ SoundCall(calls[c]) /\ 0 \in Versions
      /\ UNCHANGED evidence
  BY Fields, Basics DEF LoseReply, Find, FindAgain, Get, InsertFails, UnchangedStores
<1>2. ASSUME NEW step \in {"insert", "find again"}, Goto(c, step),
             calls[c].step \in {"find", "insert"}
      PROVE  PutStep
  <2> DEFINE call == [calls[c] EXCEPT !.step = step]
  <2>1. SetCall(c, call) /\ call \in Call
    BY <1>1, <1>2, CallRows DEF Goto, PutSteps
  <2>2. PutAsk(call) = PutAsk(calls[c])
    BY <1>1, <1>2 DEF Call, PutAsk, PutAnswer, SoundCall
  <2> QED BY <1>1, <2>1, <2>2, PutStays
<1>3. CASE LoseReply(c)
  <2>1. calls[c].step = "answered" /\ calls[c].reply # "failed" /\ Throw(c, "failed")
    BY <1>3 DEF LoseReply, At
  <2>2. CASE calls[c].ref = Nil
    BY <1>1, <2>1, <2>2, PutThrows
  <2>3. CASE calls[c].ref # Nil
    <3> DEFINE call == [calls[c] EXCEPT !.step = "answered", !.reply = "failed", !.result = 0]
    <3>1. SetCall(c, call) /\ call \in Call
      BY <1>1, <2>1, CallRows DEF Throw, Return
    <3>2. PutAsk(call) = PutAsk(calls[c])
      BY <1>1, <2>1, <2>3 DEF Call, PutAsk, PutAnswer
    <3> QED BY <1>1, <3>1, <3>2, PutStays
  <2> QED BY <2>2, <2>3
<1>4. CASE Find(c)
  BY <1>1, <1>2, <1>4, PutFinds DEF Find, At
<1>5. CASE FindAgain(c)
  <2>1. calls[c].step = "find again" /\ calls[c].ref = Nil /\ calls[c].step # "idle"
    BY <1>1, <1>5 DEF FindAgain, At, SoundCall
  <2> QED BY <1>1, <1>5, <2>1, PutFinds, PutThrows DEF FindAgain
<1>6. CASE Get(c)
  <2>1. /\ calls[c].step = "get" /\ calls[c].step \in PutSteps /\ calls[c].ref # Nil
        /\ calls[c].ref = evidence[calls[c].job] /\ calls[c].ref.content = calls[c].content
    BY <1>1, <1>6 DEF Get, At, SoundCall, PutSteps
  <2> DEFINE call == [calls[c] EXCEPT !.step = "begin"]
  <2>2. SetCall(c, call) /\ call \in Call
    BY <1>1, <1>6, <2>1, CallRows DEF Get, Goto, CommandSteps
  <2>3. /\ call.step = "begin" /\ call.job = calls[c].job /\ call.content = calls[c].content
        /\ call.ref = calls[c].ref
    BY <1>1 DEF Call
  <2> QED BY <1>1, <2>1, <2>2, <2>3, PutAnswers
<1>7. CASE InsertFails(c)
  BY <1>2, <1>7 DEF InsertFails, At
<1> QED BY <1>3, <1>4, <1>5, <1>6, <1>7

(* A caller in a command, or with its answer, keeps the row it was shown.     *)
LEMMA PutIsOver ==
  ASSUME Invariant, NEW p \in Processes, NEW call \in Call, SetCall(p, call),
         UNCHANGED evidence, calls[p].step \in CommandSteps,
         call.step \in {"answered"} \cup CommandSteps,
         call.job = calls[p].job, call.content = calls[p].content, call.ref = calls[p].ref
  PROVE  PutStep
<1>1. ASSUME p \in Callers PROVE PutAsk(call) = PutAsk(calls[p])
  <2>1. SoundCall(calls[p]) /\ calls[p].ref # Nil
    BY <1>1, Fields DEF SoundCall
  <2> QED BY <2>1 DEF PutAsk, PutAnswer, CommandSteps
<1> QED BY <1>1, PutStays

(* A command asks the Evidence store nothing.                                *)
LEMMA CommandsLeaveEvidence ==
  ASSUME Invariant, NEW p \in Processes,
         Command(p) \/ Busy(p) \/ StatementFails(p) \/ Crash(p)
  PROVE  PutStep
<1>1. /\ calls[p] \in Call /\ UNCHANGED evidence
      /\ calls[p].step \in Working => calls[p].step \in CommandSteps
      /\ Holds(p) => calls[p].step \in Working
  BY Fields DEF Command, BeginImmediate, LookUp, Change, MarkOutboxDelivered, RecordResult,
     Commit, Busy, StatementFails, Crash, UnchangedStores, Working, CommandSteps,
     Invariant, ProtocolInv, TransactionSound, LockSound
<1>2. ASSUME NEW step \in CommandSteps, Goto(p, step), calls[p].step \in CommandSteps
      PROVE  PutStep
  <2> DEFINE call == [calls[p] EXCEPT !.step = step]
  <2>1. SetCall(p, call) /\ call \in Call
    BY <1>1, <1>2, CallRows DEF Goto
  <2>2. /\ call.step = step /\ call.job = calls[p].job /\ call.content = calls[p].content
        /\ call.ref = calls[p].ref
    BY <1>1 DEF Call
  <2> QED BY <1>1, <1>2, <2>1, <2>2, PutIsOver
<1>3. ASSUME NEW reply \in {"result", "conflict", "rejected", "failed"},
             NEW result \in Versions, Return(p, reply, result),
             calls[p].step \in CommandSteps
      PROVE  PutStep
  <2> DEFINE call == [calls[p] EXCEPT !.step = "answered", !.reply = reply, !.result = result]
  <2>1. SetCall(p, call) /\ call \in Call
    BY <1>1, <1>3, CallRows DEF Return
  <2>2. /\ call.step = "answered" /\ call.job = calls[p].job
        /\ call.content = calls[p].content /\ call.ref = calls[p].ref
    BY <1>1 DEF Call
  <2> QED BY <1>1, <1>3, <2>1, <2>2, PutIsOver
<1>4. CASE BeginImmediate(p)
  BY <1>2, <1>4 DEF BeginImmediate, At, CommandSteps
<1>5. CASE LookUp(p)
  <2>1. calls[p].step \in Working /\ calls[p].step \in CommandSteps
    BY <1>5 DEF LookUp, At, Working, CommandSteps
  <2>2. transaction.tables.commands[CommandIdOf(p)] # Nil =>
          transaction.tables.commands[CommandIdOf(p)].result \in Versions
    BY <2>1, Held, InputTyped DEF Tables, Row
  <2> QED BY <1>2, <1>3, <1>5, <2>1, <2>2, Basics DEF LookUp, Throw, CommandSteps
<1>6. CASE Change(p) \/ MarkOutboxDelivered(p) \/ RecordResult(p)
  BY <1>2, <1>3, <1>6, Basics
     DEF Change, MarkOutboxDelivered, RecordResult, Throw, At, CommandSteps
<1>7. CASE Commit(p)
  <2>1. Result(p) \in Versions /\ calls[p].step \in CommandSteps
    BY <1>7, Committed, Basics DEF Tables, CommandSteps
  <2> QED BY <1>3, <1>7, <2>1 DEF Commit
<1>8. CASE Busy(p) \/ StatementFails(p)
  BY <1>1, <1>3, <1>8, Basics DEF Busy, StatementFails, Throw, At, CommandSteps
<1>9. CASE Crash(p)
  <2>1. SetCall(p, NoCall) /\ NoCall \in Call /\ NoCall.step = "idle"
    BY <1>9, NoCallRow DEF Crash, NoCall
  <2>2. CASE p \in Callers
    <3>1. PutAsks' = [PutAsks EXCEPT ![p] = Nil]
      BY <2>1, <2>2, PutAskMoves DEF Invariant, PutAsk
    <3>2. EvidenceStore!Forget(p)
      BY <1>1, <3>1 DEF EvidenceStore!Forget
    <3> QED BY <2>2, <3>2 DEF PutStep, EvidenceStore!Next
  <2>3. CASE p \notin Callers
    BY <1>1, <2>1, <2>3, PutStays
  <2> QED BY <2>2, <2>3
<1> QED BY <1>4, <1>5, <1>6, <1>7, <1>8, <1>9 DEF Command

(* Step simulation: every step is one of the write-once store of Evidence,   *)
(* or a stutter.                                                             *)
LEMMA PutIsAllowed ==
  Invariant /\ [Next]_vars => PutStep
<1> SUFFICES ASSUME Invariant, [Next]_vars PROVE PutStep
  OBVIOUS
<1>1. ASSUME NEW c \in Callers, Caller(c) PROVE PutStep
  BY <1>1, PutBegins, PutInserts, PutLooks DEF Caller, Put
<1>2. ASSUME HandOut(Deliverer) \/ PlanAgain(Deliverer) PROVE PutStep
  <2>1. \A c \in Callers : calls'[c] = calls[c]
    BY <1>2, Basics DEF HandOut, PlanAgain, SetCall, Invariant, ProtocolTypeOK
  <2>2. PutAsks' = PutAsks
    BY <2>1 DEF PutAsks, AnswerToPut, At, Mine
  <2> QED BY <1>2, <2>2 DEF PutStep, HandOut, PlanAgain, UnchangedStores
<1>3. CASE UNCHANGED vars
  BY <1>3 DEF vars, PutStep, PutAsks, AnswerToPut, At, Mine
<1> QED BY <1>1, <1>2, <1>3, CommandsLeaveEvidence DEF Next

(* Whatever callers put at the same time, and whatever fails, nobody is shown *)
(* a row that is not the first under its id, and nobody who asks for other    *)
(* content is answered (put, find, get).                                      *)
THEOREM PutImplementsWriteOnce == Spec => EvidenceIsWriteOnce
<1>1. Init => EvidenceStore!Init
  <2> SUFFICES ASSUME Init PROVE EvidenceStore!Init
    OBVIOUS
  <2>1. \A c \in Callers : calls[c].step = "idle"
    BY Basics DEF Init, NoCall
  <2>2. PutAsks = [c \in Callers |-> Nil]
    BY <2>1 DEF PutAsks, At
  <2> QED BY <2>2 DEF Init, EvidenceStore!Init
<1>2. Invariant /\ [Next]_vars => [EvidenceStore!Next]_<<evidence, PutAsks>>
  BY PutIsAllowed DEF PutStep
<1> QED BY <1>1, <1>2, InvariantHolds, PTL DEF Spec, EvidenceIsWriteOnce, EvidenceStore!Spec

-----------------------------------------------------------------------------
(* command implements a write-once store. *)

CommandAnswer(k) ==
  IF k.step # "answered" THEN "none"
  ELSE IF k.reply = "result" THEN "row"
  ELSE IF k.reply = "conflict" THEN "conflict" ELSE "failed"

IdFor(p, k) == IF p = Deliverer THEN <<k.event, "mark">> ELSE <<k.job, "change">>

InputFor(p, k) ==
  IF p = Deliverer
  THEN [kind |-> "mark", event |-> k.event]
  ELSE [kind |-> "change", ref |-> k.ref, expected |-> k.expected]

(* What a call says of the command of its process.                            *)
CommandAsk(p, k) ==
  IF \/ k.step \in CommandSteps
     \/ k.step = "answered" /\ p = Deliverer
     \/ k.step = "answered" /\ k.ref # Nil
  THEN [key |-> IdFor(p, k), content |-> InputFor(p, k), answer |-> CommandAnswer(k),
        row |-> IF CommandAnswer(k) = "row"
                THEN [content |-> InputFor(p, k), result |-> k.result]
                ELSE Nil]
  ELSE Nil

CommandStep == CommandTable!Next \/ UNCHANGED <<database.commands, CommandAsks>>

(* A process that goes on changes what it asks the command table, and no     *)
(* other process does.                                                       *)
LEMMA CommandAskMoves ==
  ASSUME ProtocolTypeOK, NEW p \in Processes, NEW call \in Call, SetCall(p, call)
  PROVE  /\ CommandAsks' = [CommandAsks EXCEPT ![p] = CommandAsk(p, call)]
         /\ CommandAsks[p] = CommandAsk(p, calls[p])
         /\ CommandAsks'[p] = CommandAsk(p, call)
         /\ CommandAsk(p, call) = CommandAsk(p, calls[p]) => CommandAsks' = CommandAsks
<1>1. /\ calls'[p] = call
      /\ \A q \in Processes : q # p => calls'[q] = calls[q]
  BY CallSet
<1>2. CommandAsks = [q \in Processes |-> CommandAsk(q, calls[q])]
  <2>1. \A q \in Processes : /\ AnswerToCommand(q) = CommandAnswer(calls[q])
                             /\ CommandIdOf(q) = IdFor(q, calls[q])
                             /\ InputOf(q) = InputFor(q, calls[q])
    BY DEF AnswerToCommand, CommandAnswer, CommandIdOf, IdFor, InputOf, InputFor, At
  <2> QED BY <2>1 DEF CommandAsks, CommandAsk, At
<1>3. CommandAsks' = [q \in Processes |-> CommandAsk(q, calls'[q])]
  <2>1. \A q \in Processes : /\ AnswerToCommand(q)' = CommandAnswer(calls'[q])
                             /\ CommandIdOf(q)' = IdFor(q, calls'[q])
                             /\ InputOf(q)' = InputFor(q, calls'[q])
    BY DEF AnswerToCommand, CommandAnswer, CommandIdOf, IdFor, InputOf, InputFor, At
  <2> QED BY <2>1 DEF CommandAsks, CommandAsk, At
<1>4. \A q \in Processes : q # p => CommandAsk(q, calls'[q]) = CommandAsk(q, calls[q])
  BY <1>1
<1>5. /\ CommandAsks' = [CommandAsks EXCEPT ![p] = CommandAsk(p, call)]
      /\ CommandAsks[p] = CommandAsk(p, calls[p]) /\ CommandAsks'[p] = CommandAsk(p, call)
  BY <1>1, <1>2, <1>3, <1>4
<1>6. ASSUME CommandAsk(p, call) = CommandAsk(p, calls[p]) PROVE CommandAsks' = CommandAsks
  <2>1. \A q \in Processes : CommandAsk(q, calls'[q]) = CommandAsk(q, calls[q])
    BY <1>1, <1>4, <1>6
  <2> QED BY <1>2, <1>3, <2>1
<1> QED BY <1>5, <1>6

(* A process that asks the same as before is a stutter of the command        *)
(* table.                                                                    *)
LEMMA CommandStays ==
  ASSUME Invariant, NEW p \in Processes, NEW call \in Call, SetCall(p, call),
         UNCHANGED database, CommandAsk(p, call) = CommandAsk(p, calls[p])
  PROVE  CommandStep
BY CommandAskMoves DEF Invariant, CommandStep

(* A process may forget what it asked, answered or not.                      *)
LEMMA CommandForgets ==
  ASSUME Invariant, NEW p \in Processes, NEW call \in Call, SetCall(p, call),
         UNCHANGED database, CommandAsk(p, call) = Nil
  PROVE  CommandStep
<1>1. CommandAsks' = [CommandAsks EXCEPT ![p] = Nil]
  BY CommandAskMoves DEF Invariant
<1>2. CommandTable!Forget(p)
  BY <1>1 DEF CommandTable!Forget
<1> QED BY <1>2 DEF CommandStep, CommandTable!Next

(* A process that has the request in hand.                                    *)
LEMMA CommandAsksFor ==
  ASSUME Invariant, NEW p \in Processes, NEW call \in Call, SetCall(p, call),
         UNCHANGED database, call.step = "begin",
         IF p = Deliverer THEN call.event \in Events
         ELSE call.job \in Jobs /\ call.ref \in Record
  PROVE  CommandStep
<1>1. CommandAsk(p, call) = [key |-> IdFor(p, call), content |-> InputFor(p, call),
                             answer |-> "none", row |-> Nil]
  BY DEF CommandAsk, CommandAnswer, CommandSteps
<1>2. IdFor(p, call) \in CommandIds
  BY DEF IdFor, CommandIds
<1>3. InputFor(p, call) \in Inputs
  <2>1. call.expected \in Versions
    BY DEF Call
  <2> QED BY <2>1 DEF InputFor, Inputs
<1>4. /\ CommandAsks' = [CommandAsks EXCEPT ![p] = CommandAsk(p, call)]
      /\ CommandAsks'[p] = CommandAsk(p, call)
  BY CommandAskMoves DEF Invariant
<1>5. CommandTable!Asks(p)
  <2>1. CommandAsks'[p] \in [key: CommandIds, content: Inputs, row: {Nil}, answer: {"none"}]
    BY <1>1, <1>2, <1>3, <1>4
  <2>2. CommandAsks' = [CommandAsks EXCEPT ![p] = CommandAsks'[p]]
    BY <1>4
  <2> QED BY <2>1, <2>2 DEF CommandTable!Asks
<1> QED BY <1>5 DEF CommandStep, CommandTable!Next

(* A process inside command waits for its answer.                            *)
LEMMA CommandWaits ==
  ASSUME Invariant, NEW p \in Processes, calls[p].step \in CommandSteps
  PROVE  /\ CommandAsk(p, calls[p]) = [key |-> CommandIdOf(p), content |-> InputOf(p),
                                       answer |-> "none", row |-> Nil]
         /\ CommandAsk(p, calls[p]) # Nil
<1>1. CommandAnswer(calls[p]) = "none"
  BY DEF CommandAnswer, CommandSteps
<1>2. IdFor(p, calls[p]) = CommandIdOf(p) /\ InputFor(p, calls[p]) = InputOf(p)
  BY DEF IdFor, InputFor, CommandIdOf, InputOf
<1>3. CommandAsk(p, calls[p]) = [key |-> CommandIdOf(p), content |-> InputOf(p),
                                 answer |-> "none", row |-> Nil]
  BY <1>1, <1>2 DEF CommandAsk
<1>4. CommandAsk(p, calls[p]) \in CommandTable!Ask
  BY <1>3, InputTyped DEF CommandTable!Ask
<1> QED BY <1>3, <1>4, NilIsNoAsk

(* What is said of an ask that is answered.                                   *)
LEMMA CommandAnswered ==
  ASSUME Invariant, NEW p \in Processes, calls[p].step \in CommandSteps,
         NEW reply \in {"result", "conflict", "rejected", "failed"}, NEW result \in Versions,
         Return(p, reply, result)
  PROVE  /\ CommandAsks[p] # Nil
         /\ CommandAsks[p] = [key |-> CommandIdOf(p), content |-> InputOf(p),
                              answer |-> "none", row |-> Nil]
         /\ reply = "result" =>
              CommandTable!Show(p, [content |-> InputOf(p), result |-> result])
         /\ reply = "conflict" => CommandTable!Refuse(p, "conflict")
         /\ reply \in {"rejected", "failed"} => CommandTable!Refuse(p, "failed")
<1> DEFINE call == [calls[p] EXCEPT !.step = "answered", !.reply = reply, !.result = result]
<1>1. calls[p] \in Call /\ call \in Call /\ SetCall(p, call)
  BY Fields, CallRows DEF Return
<1>2. /\ call.step = "answered" /\ call.reply = reply /\ call.result = result
      /\ call.job = calls[p].job /\ call.expected = calls[p].expected
      /\ call.ref = calls[p].ref /\ call.event = calls[p].event
  BY <1>1 DEF Call
<1>3. p = Deliverer \/ call.ref # Nil
  BY <1>2, Fields DEF Processes, SoundCall
<1>4. IdFor(p, call) = CommandIdOf(p) /\ InputFor(p, call) = InputOf(p)
  BY <1>2 DEF IdFor, InputFor, CommandIdOf, InputOf
<1>5. CommandAsk(p, call) =
        [key |-> CommandIdOf(p), content |-> InputOf(p), answer |-> CommandAnswer(call),
         row |-> IF CommandAnswer(call) = "row"
                 THEN [content |-> InputOf(p), result |-> result]
                 ELSE Nil]
  BY <1>2, <1>3, <1>4 DEF CommandAsk
<1>6. CommandAnswer(call) = IF reply = "result" THEN "row"
                            ELSE IF reply = "conflict" THEN "conflict" ELSE "failed"
  BY <1>2 DEF CommandAnswer
<1>7. CommandAsks' = [CommandAsks EXCEPT ![p] = CommandAsk(p, call)]
  BY <1>1, CommandAskMoves DEF Invariant
<1>8. /\ CommandAsks[p] = [key |-> CommandIdOf(p), content |-> InputOf(p),
                           answer |-> "none", row |-> Nil]
      /\ CommandAsks[p] # Nil
  BY <1>1, CommandAskMoves, CommandWaits DEF Invariant
<1>9. CommandAsks[p].key = CommandIdOf(p) /\ CommandAsks[p].content = InputOf(p)
  BY <1>8
<1>10. ASSUME NEW told, NEW shown,
              CommandAsk(p, call) = [key |-> CommandIdOf(p), content |-> InputOf(p),
                                     answer |-> told, row |-> shown]
       PROVE  CommandTable!Tell(p, told, shown)
  BY <1>7, <1>9, <1>10 DEF CommandTable!Tell
<1>11. ASSUME reply = "result"
       PROVE  CommandTable!Show(p, [content |-> InputOf(p), result |-> result])
  BY <1>5, <1>6, <1>10, <1>11 DEF CommandTable!Show
<1>12. ASSUME reply = "conflict" PROVE CommandTable!Refuse(p, "conflict")
  BY <1>5, <1>6, <1>10, <1>12 DEF CommandTable!Refuse
<1>13. ASSUME reply \in {"rejected", "failed"} PROVE CommandTable!Refuse(p, "failed")
  BY <1>5, <1>6, <1>10, <1>13 DEF CommandTable!Refuse
<1> QED BY <1>8, <1>11, <1>12, <1>13

(* A process outside of a command has asked nothing, or its ask is over.      *)
LEMMA CallersAsk ==
  ASSUME Invariant, NEW c \in Callers, Caller(c)
  PROVE  CommandStep
<1>1. /\ c \in Processes /\ c # Deliverer /\ calls[c] \in Call /\ SoundCall(calls[c])
      /\ UNCHANGED database /\ 0 \in Versions
  BY Fields, Basics DEF Caller, Put, Start, Retry, Reread, LoseReply, Find, Insert, FindAgain,
     Get, InsertFails, UnchangedStores
<1>2. ASSUME NEW call, SetCall(c, call), call \in Call,
             \/ call.step \in PutSteps
             \/ call.step = "answered" /\ call.ref = Nil
      PROVE  CommandStep
  <2>1. CommandAsk(c, call) = Nil
    BY <1>1, <1>2 DEF CommandAsk, PutSteps, CommandSteps
  <2> QED BY <1>1, <1>2, <2>1, CommandForgets
<1>3. ASSUME NEW step \in {"insert", "find again"}, Goto(c, step) PROVE CommandStep
  <2> DEFINE call == [calls[c] EXCEPT !.step = step]
  <2>1. SetCall(c, call) /\ call \in Call
    BY <1>1, <1>3, CallRows DEF Goto, PutSteps
  <2>2. call.step \in PutSteps
    BY <1>1 DEF Call, PutSteps
  <2> QED BY <1>2, <2>1, <2>2
<1>4. ASSUME NEW reply \in {"conflict", "failed"}, Throw(c, reply), calls[c].ref = Nil
      PROVE  CommandStep
  <2> DEFINE call == [calls[c] EXCEPT !.step = "answered", !.reply = reply, !.result = 0]
  <2>1. SetCall(c, call) /\ call \in Call
    BY <1>1, <1>4, CallRows DEF Throw, Return
  <2>2. call.step = "answered" /\ call.ref = Nil
    BY <1>1, <1>4 DEF Call
  <2> QED BY <1>2, <2>1, <2>2
<1>5. ASSUME NEW call, SetCall(c, call), call \in Call, call.step = "begin",
             call.job = calls[c].job, call.ref \in Record, calls[c].job \in Jobs
      PROVE  CommandStep
  BY <1>1, <1>5, CommandAsksFor
<1>6. ASSUME Found(c), calls[c].step \in {"find", "find again"}, evidence[calls[c].job] # Nil
      PROVE  CommandStep
  <2>1. /\ calls[c].ref = Nil /\ calls[c].job \in Jobs /\ evidence[calls[c].job] \in Record
    BY <1>1, <1>6 DEF SoundCall, Invariant, ProtocolTypeOK
  <2>2. CASE evidence[calls[c].job].content = Mine(c)
    <3> DEFINE call == [calls[c] EXCEPT !.step = "begin", !.ref = evidence[calls[c].job]]
    <3>1. SetCall(c, call) /\ call \in Call
      BY <1>1, <1>6, <2>1, <2>2, CallRows DEF Found, CommandSteps
    <3>2. call.step = "begin" /\ call.job = calls[c].job /\ call.ref \in Record
      BY <1>1, <2>1 DEF Call
    <3> QED BY <1>5, <2>1, <3>1, <3>2
  <2>3. CASE evidence[calls[c].job].content # Mine(c)
    BY <1>4, <1>6, <2>1, <2>3 DEF Found
  <2> QED BY <2>2, <2>3
<1>7. CASE Start(c)
  <2>1. PICK job \in Jobs, content \in Contents :
          SetCall(c, [NoCall EXCEPT !.step = "find", !.job = job, !.content = content,
                                    !.expected = database.version])
    BY <1>7 DEF Start
  <2> DEFINE call == [NoCall EXCEPT !.step = "find", !.job = job, !.content = content,
                                    !.expected = database.version]
  <2>2. call \in Call /\ call.step \in PutSteps
    BY <1>1, Fields DEF NoCall, Call, PutSteps
  <2> QED BY <1>2, <2>1, <2>2
<1>8. CASE Retry(c)
  <2> DEFINE call == [calls[c] EXCEPT !.step = "find", !.ref = Nil, !.reply = "none",
                                      !.result = 0]
  <2>1. call \in Call /\ call.step \in PutSteps
    BY <1>1 DEF Call, PutSteps
  <2> QED BY <1>2, <1>8, <2>1 DEF Retry
<1>9. CASE Reread(c)
  <2> DEFINE call == [calls[c] EXCEPT !.step = "find", !.ref = Nil, !.reply = "none",
                                      !.expected = database.version]
  <2>1. call \in Call /\ call.step \in PutSteps
    BY <1>1, Fields DEF Call, PutSteps
  <2> QED BY <1>2, <1>9, <2>1 DEF Reread
<1>10. CASE LoseReply(c)
  <2>1. calls[c].step = "answered" /\ Throw(c, "failed")
    BY <1>10 DEF LoseReply, At
  <2>2. CASE calls[c].ref = Nil
    BY <1>4, <2>1, <2>2
  <2>3. CASE calls[c].ref # Nil
    <3> DEFINE call == [calls[c] EXCEPT !.step = "answered", !.reply = "failed", !.result = 0]
    <3>1. SetCall(c, call) /\ call \in Call
      BY <1>1, <2>1, CallRows DEF Throw, Return
    <3>2. /\ call.step = "answered" /\ call.reply = "failed" /\ call.ref = calls[c].ref
          /\ call.job = calls[c].job /\ call.expected = calls[c].expected
      BY <1>1 DEF Call
    <3>3. /\ IdFor(c, call) = IdFor(c, calls[c]) /\ InputFor(c, call) = InputFor(c, calls[c])
          /\ CommandAnswer(call) = "failed"
      BY <1>1, <3>2 DEF IdFor, InputFor, CommandAnswer
    <3>4. CommandAsk(c, call) = [key |-> IdFor(c, calls[c]), content |-> InputFor(c, calls[c]),
                                 answer |-> "failed", row |-> Nil]
      BY <2>3, <3>2, <3>3 DEF CommandAsk
    <3>5. PICK told, shown :
            /\ told = CommandAnswer(calls[c])
            /\ shown = IF told = "row"
                       THEN [content |-> InputFor(c, calls[c]), result |-> calls[c].result]
                       ELSE Nil
      OBVIOUS
    <3>6. CommandAsk(c, calls[c]) =
            [key |-> IdFor(c, calls[c]), content |-> InputFor(c, calls[c]),
             answer |-> told, row |-> shown]
      BY <2>1, <2>3, <3>5 DEF CommandAsk
    <3>7. CommandAsk(c, calls[c]) # Nil
      <4>1. /\ calls[c].job \in Jobs /\ calls[c].ref \in Record
            /\ calls[c].expected \in Versions /\ calls[c].result \in Versions
        BY <1>1, <2>3 DEF Call, SoundCall
      <4>2. IdFor(c, calls[c]) \in CommandIds /\ InputFor(c, calls[c]) \in Inputs
        BY <1>1, <4>1 DEF IdFor, InputFor, CommandIds, Inputs
      <4>3. shown \in Row \cup {Nil} /\ told \in {"none", "row", "conflict", "failed"}
        BY <3>5, <4>1, <4>2 DEF Row, CommandAnswer
      <4>4. CommandAsk(c, calls[c]) \in CommandTable!Ask
        BY <3>6, <4>2, <4>3 DEF CommandTable!Ask, CommandTable!Row, Row
      <4> QED BY <4>4, NilIsNoAsk
    <3>8. /\ CommandAsks' = [CommandAsks EXCEPT ![c] = CommandAsk(c, call)]
          /\ CommandAsks[c] = CommandAsk(c, calls[c])
      BY <1>1, <3>1, CommandAskMoves DEF Invariant
    <3>9. /\ CommandAsks[c].key = IdFor(c, calls[c])
          /\ CommandAsks[c].content = InputFor(c, calls[c])
      BY <3>6, <3>8
    <3>10. CommandTable!Refuse(c, "failed")
      BY <3>4, <3>8, <3>9 DEF CommandTable!Refuse, CommandTable!Tell
    <3>11. CommandTable!Fail(c)
      BY <1>1, <3>7, <3>8, <3>10 DEF CommandTable!Fail
    <3> QED BY <1>1, <3>11 DEF CommandStep, CommandTable!Next
  <2> QED BY <2>2, <2>3
<1>11. CASE Find(c)
  BY <1>3, <1>6, <1>11 DEF Find, At
<1>12. CASE Insert(c)
  <2>1. CASE evidence[calls[c].job] # Nil
    BY <1>3, <1>12, <2>1 DEF Insert
  <2>2. CASE evidence[calls[c].job] = Nil
    <3>1. PICK now \in Instants :
            SetCall(c, [calls[c] EXCEPT !.step = "get",
                          !.ref = [content |-> Mine(c), result |-> now]])
      BY <1>12, <2>2 DEF Insert
    <3> DEFINE call == [calls[c] EXCEPT !.step = "get",
                          !.ref = [content |-> Mine(c), result |-> now]]
    <3>2. [content |-> Mine(c), result |-> now] \in Record
      BY <1>1, <1>12 DEF Insert, At, SoundCall, Mine, Record
    <3>3. call \in Call /\ call.step \in PutSteps
      BY <1>1, <3>2, CallRows DEF Call, PutSteps
    <3> QED BY <1>2, <3>1, <3>3
  <2> QED BY <2>1, <2>2
<1>13. CASE FindAgain(c)
  <2>1. calls[c].step = "find again" /\ calls[c].ref = Nil
    BY <1>1, <1>13 DEF FindAgain, At, SoundCall
  <2> QED BY <1>4, <1>6, <1>13, <2>1 DEF FindAgain
<1>14. CASE Get(c)
  <2>1. /\ calls[c].step = "get" /\ calls[c].ref # Nil /\ calls[c].job \in Jobs
        /\ calls[c].ref = evidence[calls[c].job] /\ calls[c].ref \in Record
    BY <1>1, <1>14 DEF Get, At, SoundCall, Call
  <2> DEFINE call == [calls[c] EXCEPT !.step = "begin"]
  <2>2. SetCall(c, call) /\ call \in Call
    BY <1>1, <1>14, <2>1, CallRows DEF Get, Goto, CommandSteps
  <2>3. call.step = "begin" /\ call.job = calls[c].job /\ call.ref \in Record
    BY <1>1, <2>1 DEF Call
  <2> QED BY <1>5, <2>1, <2>2, <2>3
<1>15. CASE InsertFails(c)
  BY <1>3, <1>15 DEF InsertFails
<1> QED BY <1>7, <1>8, <1>9, <1>10, <1>11, <1>12, <1>13, <1>14, <1>15 DEF Caller, Put

(* The row is written once, and shown to who wrote it.                        *)
LEMMA CommandWrites ==
  ASSUME Invariant, NEW p \in Processes, Commit(p)
  PROVE  CommandStep
<1>1. /\ calls[p].step \in CommandSteps /\ Result(p) \in Versions
      /\ database.commands[CommandIdOf(p)] = Nil
      /\ database'.commands = [database.commands EXCEPT ![CommandIdOf(p)] =
                                 [content |-> InputOf(p), result |-> Result(p)]]
      /\ Return(p, "result", Result(p))
  BY Committed, Basics DEF Commit, Tables, CommandSteps
<1>2. PICK result \in Versions : result = Result(p)
  BY <1>1
<1>3. /\ CommandAsks[p] # Nil
      /\ CommandAsks[p] = [key |-> CommandIdOf(p), content |-> InputOf(p),
                           answer |-> "none", row |-> Nil]
      /\ CommandTable!Show(p, [content |-> InputOf(p), result |-> result])
  BY <1>1, <1>2, CommandAnswered
<1>4. /\ CommandAsks[p].key = CommandIdOf(p) /\ CommandAsks[p].content = InputOf(p)
      /\ CommandAsks[p].answer = "none"
  BY <1>3
<1>5. CommandTable!Write(p, result)
  BY <1>1, <1>2, <1>3, <1>4 DEF CommandTable!Write, CommandTable!Pending
<1> QED BY <1>5 DEF CommandStep, CommandTable!Next

(* LookUp answers with the committed row, refuses other content or finds     *)
(* nothing.                                                                  *)
LEMMA CommandTold ==
  ASSUME Invariant, NEW p \in Processes, LookUp(p)
  PROVE  CommandStep
<1> DEFINE row == transaction.tables.commands[CommandIdOf(p)]
<1>1. /\ calls[p].step = "look up" /\ calls[p].step \in Working /\ UNCHANGED database
      /\ calls[p].step \in CommandSteps
  BY DEF LookUp, At, Working, CommandSteps
<1>2. /\ transaction.tables = database /\ calls[p] \in Call /\ CommandIdOf(p) \in CommandIds
      /\ database \in Tables
  BY <1>1, Held, Fields, InputTyped DEF HolderSound
<1>3. CASE row = Nil
  <2> DEFINE call == [calls[p] EXCEPT !.step = "act"]
  <2>1. SetCall(p, call) /\ call \in Call
    BY <1>2, <1>3, CallRows DEF LookUp, Goto, CommandSteps
  <2>2. /\ call.step = "act" /\ call.job = calls[p].job /\ call.ref = calls[p].ref
        /\ call.event = calls[p].event /\ call.expected = calls[p].expected
    BY <1>2 DEF Call
  <2>3. CommandAsk(p, call) = CommandAsk(p, calls[p])
    BY <1>1, <2>2 DEF CommandAsk, CommandAnswer, IdFor, InputFor, CommandSteps
  <2> QED BY <1>1, <2>1, <2>3, CommandStays
<1>4. CASE row # Nil
  <2>1. database.commands[CommandIdOf(p)] = row /\ row \in Row
    BY <1>2, <1>4 DEF Tables
  <2>2. row.result \in Versions
    BY <2>1 DEF Row
  <2>3. CASE row.content = InputOf(p)
    <3>1. PICK result \in Versions : result = row.result
      BY <2>2
    <3>2. Return(p, "result", result)
      BY <1>4, <2>3, <3>1 DEF LookUp
    <3>3. /\ CommandAsks[p] # Nil
          /\ CommandAsks[p] = [key |-> CommandIdOf(p), content |-> InputOf(p),
                               answer |-> "none", row |-> Nil]
          /\ CommandTable!Show(p, [content |-> InputOf(p), result |-> result])
      BY <1>1, <3>2, CommandAnswered
    <3>4. row = [content |-> InputOf(p), result |-> result]
      BY <2>1, <2>3, <3>1 DEF Row
    <3>5. /\ CommandAsks[p].key = CommandIdOf(p) /\ CommandAsks[p].content = InputOf(p)
          /\ CommandAsks[p].answer = "none"
      BY <3>3
    <3>6. /\ database.commands[CommandAsks[p].key] # Nil
          /\ database.commands[CommandAsks[p].key].content = CommandAsks[p].content
          /\ CommandTable!Show(p, database.commands[CommandAsks[p].key])
      BY <1>4, <2>1, <2>3, <3>3, <3>4, <3>5
    <3>7. CommandTable!Answer(p)
      BY <1>1, <3>3, <3>5, <3>6 DEF CommandTable!Answer, CommandTable!Pending
    <3> QED BY <3>7 DEF CommandStep, CommandTable!Next
  <2>4. CASE row.content # InputOf(p)
    <3>1. Return(p, "conflict", 0)
      BY <1>4, <2>4 DEF LookUp, Throw
    <3>2. /\ CommandAsks[p] # Nil
          /\ CommandAsks[p] = [key |-> CommandIdOf(p), content |-> InputOf(p),
                               answer |-> "none", row |-> Nil]
          /\ CommandTable!Refuse(p, "conflict")
      BY <1>1, <3>1, CommandAnswered, Basics
    <3>3. /\ CommandAsks[p].key = CommandIdOf(p) /\ CommandAsks[p].content = InputOf(p)
          /\ CommandAsks[p].answer = "none"
      BY <3>2
    <3>4. CommandTable!Conflict(p)
      BY <1>1, <1>4, <2>1, <2>4, <3>2, <3>3 DEF CommandTable!Conflict, CommandTable!Pending
    <3> QED BY <3>4 DEF CommandStep, CommandTable!Next
  <2> QED BY <2>3, <2>4
<1> QED BY <1>3, <1>4

(* Every statement of command: the answer comes from the committed row.      *)
LEMMA CommandGoes ==
  ASSUME Invariant, NEW p \in Processes,
         Command(p) \/ Busy(p) \/ StatementFails(p) \/ Crash(p)
  PROVE  CommandStep
<1>1. calls[p] \in Call /\ 0 \in Versions
  BY Fields, Basics
<1>2. ASSUME NEW step \in CommandSteps, Goto(p, step), calls[p].step \in CommandSteps,
             UNCHANGED database
      PROVE  CommandStep
  <2> DEFINE call == [calls[p] EXCEPT !.step = step]
  <2>1. SetCall(p, call) /\ call \in Call
    BY <1>1, <1>2, CallRows DEF Goto
  <2>2. /\ call.step = step /\ call.job = calls[p].job /\ call.ref = calls[p].ref
        /\ call.event = calls[p].event /\ call.expected = calls[p].expected
    BY <1>1 DEF Call
  <2>3. CommandAsk(p, call) = CommandAsk(p, calls[p])
    BY <1>2, <2>2 DEF CommandAsk, CommandAnswer, IdFor, InputFor, CommandSteps
  <2> QED BY <1>2, <2>1, <2>3, CommandStays
<1>3. ASSUME NEW reply \in {"rejected", "failed"}, Throw(p, reply),
             calls[p].step \in CommandSteps, UNCHANGED database
      PROVE  CommandStep
  <2>1. CommandAsks[p] # Nil /\ CommandTable!Refuse(p, "failed")
    BY <1>1, <1>3, CommandAnswered DEF Throw
  <2>2. CommandTable!Fail(p)
    BY <1>3, <2>1 DEF CommandTable!Fail
  <2> QED BY <2>2 DEF CommandStep, CommandTable!Next
<1>4. CASE BeginImmediate(p) \/ Change(p) \/ MarkOutboxDelivered(p) \/ RecordResult(p)
  BY <1>2, <1>3, <1>4
     DEF BeginImmediate, Change, MarkOutboxDelivered, RecordResult, At, CommandSteps
<1>5. CASE Busy(p)
  BY <1>3, <1>5 DEF Busy, At, CommandSteps, UnchangedStores
<1>6. CASE StatementFails(p)
  <2>1. calls[p].step \in CommandSteps
    BY <1>6 DEF StatementFails, Invariant, ProtocolInv, TransactionSound, LockSound,
       Working, CommandSteps
  <2> QED BY <1>3, <1>6, <2>1 DEF StatementFails
<1>7. CASE Crash(p)
  <2>1. SetCall(p, NoCall) /\ NoCall \in Call /\ UNCHANGED database
    BY <1>7, NoCallRow DEF Crash
  <2>2. CommandAsk(p, NoCall) = Nil
    BY DEF CommandAsk, NoCall, CommandSteps
  <2> QED BY <2>1, <2>2, CommandForgets
<1> QED BY <1>4, <1>5, <1>6, <1>7, CommandTold, CommandWrites DEF Command

(* The deliverer asks under an id of its event.                              *)
LEMMA DelivererAsks ==
  ASSUME Invariant, HandOut(Deliverer) \/ PlanAgain(Deliverer)
  PROVE  CommandStep
<1>1. Deliverer \in Processes /\ database \in Tables /\ UNCHANGED database
  BY Basics, Fields DEF HandOut, PlanAgain, UnchangedStores
<1>2. CASE PlanAgain(Deliverer)
  <2>1. SetCall(Deliverer, NoCall) /\ NoCall \in Call
    BY <1>2, NoCallRow DEF PlanAgain
  <2>2. CommandAsk(Deliverer, NoCall) = Nil
    BY DEF CommandAsk, NoCall, CommandSteps
  <2> QED BY <1>1, <2>1, <2>2, CommandForgets
<1>3. CASE HandOut(Deliverer)
  <2>1. PICK e \in Pending :
          SetCall(Deliverer, [NoCall EXCEPT !.step = "begin", !.event = e])
    BY <1>3 DEF HandOut
  <2> DEFINE call == [NoCall EXCEPT !.step = "begin", !.event = e]
  <2>2. e \in Events /\ e \in Versions
    <3>1. /\ database.outbox \in Seq({"pending", "delivered"})
          /\ Len(database.outbox) = database.version /\ database.version \in Versions
      BY <1>1, Fields DEF Tables, Invariant, ProtocolInv, TablesSound
    <3>2. e \in DOMAIN database.outbox
      BY DEF Pending
    <3> QED BY <3>1, <3>2, Basics DEF Events, Versions
  <2>3. call \in Call /\ call.step = "begin" /\ call.event \in Events
    BY <2>2, NoCallRow DEF NoCall, Call, CommandSteps
  <2> QED BY <1>1, <2>1, <2>3, CommandAsksFor
<1> QED BY <1>2, <1>3

(* Step simulation: every step is one of the write-once command table, or a  *)
(* stutter.                                                                  *)
LEMMA CommandIsAllowed ==
  Invariant /\ [Next]_vars => CommandStep
<1> SUFFICES ASSUME Invariant, [Next]_vars PROVE CommandStep
  OBVIOUS
<1>1. CASE UNCHANGED vars
  <2>1. UNCHANGED <<calls, database>>
    BY <1>1 DEF vars
  <2>2. CommandAsks' = CommandAsks
    BY <2>1 DEF CommandAsks, AnswerToCommand, CommandIdOf, InputOf, At
  <2> QED BY <2>1, <2>2 DEF CommandStep
<1> QED BY <1>1, CallersAsk, CommandGoes, DelivererAsks DEF Next

(* One command id, one effect, one answer: whatever statement fails, whatever *)
(* process dies, and whoever sends the command again, nobody is answered with *)
(* what the committed row does not say, and no committed row changes          *)
(* (command, requestDigest).                                                *)
THEOREM CommandImplementsWriteOnce == Spec => CommandsAreWriteOnce
<1>1. Init => CommandTable!Init
  <2> SUFFICES ASSUME Init PROVE CommandTable!Init
    OBVIOUS
  <2>1. \A p \in Processes : calls[p].step = "idle"
    BY DEF Init, NoCall
  <2>2. CommandAsks = [p \in Processes |-> Nil]
    BY <2>1 DEF CommandAsks, At, CommandSteps
  <2> QED BY <2>2 DEF Init, CommandTable!Init
<1>2. Invariant /\ [Next]_vars => [CommandTable!Next]_<<database.commands, CommandAsks>>
  BY CommandIsAllowed DEF CommandStep
<1> QED BY <1>1, <1>2, InvariantHolds, PTL DEF Spec, CommandsAreWriteOnce, CommandTable!Spec
=============================================================================
