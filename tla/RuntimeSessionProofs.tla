------------------------- MODULE RuntimeSessionProofs -------------------------
(***************************************************************************)
(* The invariants of one Agent session, proved for any listeners, outcomes *)
(* and bounds.                                                             *)
(*                                                                         *)
(* The argument is about the delivery chain.  Its events are consecutive,  *)
(* and as long as nothing has been dropped from it, what a listener has    *)
(* still to be called with is what waits for it there; the events of a     *)
(* listener increase, so the first that waits is the next it is owed.      *)
(* That settle returns with nothing before it left undone, and that a      *)
(* failure is taken out of the dispatcher once, follow from the same chain.*)
(***************************************************************************)
EXTENDS RuntimeSession, TLAPS

Entry == [event: Events, to: SUBSET Listeners]

Report == [run: 0..MaxRuns, event: Events, listener: Listeners]

RunReply == [kind: {"none", "result", "rejected"}, outcome: Outcomes \cup {Nil},
             until: 0..MaxEvents]

HistoryTypeOK ==
  /\ owed \in [Listeners -> Seq(Events)]
  /\ got \in [Listeners -> Seq(Events)]
  /\ failures \subseteq Failure
  /\ reports \subseteq Report
  /\ ended \in Outcomes \cup {Nil}
  /\ returned \in RunReply

Typed == SessionTypeOK /\ HistoryTypeOK

(* Pi is prompted by the call of run in progress and by no other, and run    *)
(* has returned nothing while it is in progress.                             *)
PromptSound ==
  /\ pi # "idle" => run.step = "prompt"
  /\ run.step # "none" => returned.kind = "none"
  /\ runResult = ended
  /\ RunAnswersItsOwnEnd

(* The chain holds the last events emitted, none of which the last run to    *)
(* return has waited for.                                                    *)
ChainSound ==
  /\ Len(queue) <= emitted
  /\ run.until <= emitted /\ returned.until <= emitted
  /\ \A j \in 1..Len(queue) :
       /\ queue[j].event = emitted - Len(queue) + j
       /\ queue[j].event > returned.until
  /\ awaited # Nil => awaited \in queue[1].to

(* The events that wait in the chain for a listener to be called ...         *)
Waiting(l) ==
  {queue[j].event : j \in {i \in 1..Len(queue) :
                             l \in queue[i].to /\ (i = 1 => awaited # l)}}

(* ... and those it is owed and has not been called with.                    *)
Left(l) == {owed[l][i] : i \in Len(got[l]) + 1 .. Len(owed[l])}

CalledInOrder(l) ==
  /\ Len(got[l]) <= Len(owed[l])
  /\ \A i \in 1..Len(got[l]) : got[l][i] = owed[l][i]

(* A disposed session drops events as soon as it awaits no listener.         *)
NothingDropped == disposed => awaited # Nil

OwedInOrder(l) ==
  /\ \A i \in 1..Len(owed[l]) : owed[l][i] <= emitted
  /\ \A i, j \in 1..Len(owed[l]) : i < j => owed[l][i] < owed[l][j]

DeliverySound ==
  \A l \in Listeners :
    /\ OwedInOrder(l)
    /\ CalledInOrder(l)
    /\ NothingDropped => Left(l) = Waiting(l)

Reported(f) == \E r \in reports : r.event = f.event /\ r.listener = f.listener

(* No delivery still to come has failed.                                     *)
PendingSound ==
  \A j \in 1..Len(queue) : \A l \in queue[j].to :
    [event |-> queue[j].event, listener |-> l] \notin failures

(* A failure is recorded once, kept until a run is rejected with it, and is  *)
(* lost only to disposal, never one that a run has waited for.               *)
FailuresSound ==
  /\ errors \subseteq failures
  /\ \A f \in failures :
       /\ f.event <= emitted
       /\ Reported(f) \/ f.event > returned.until
       /\ Reported(f) \/ f \in errors \/ disposed
  /\ \A f \in errors : ~Reported(f)
  /\ PendingSound
  /\ \A r \in reports :
       /\ r.run <= runs
       /\ [event |-> r.event, listener |-> r.listener] \in failures
       /\ run.step # "none" \/ returned.kind = "result" => r.run < runs
  /\ ReportedOnce

SessionInv == PromptSound /\ ChainSound /\ DeliverySound /\ FailuresSound

-----------------------------------------------------------------------------
(* Chains. *)

(* A chain with one more event at its end.                                   *)
LEMMA AppendedChain ==
  ASSUME NEW q \in Seq(Entry), NEW e \in Entry
  PROVE  /\ Append(q, e) \in Seq(Entry)
         /\ Len(Append(q, e)) = Len(q) + 1
         /\ Append(q, e)[Len(q) + 1] = e
         /\ \A j \in 1..Len(q) : Append(q, e)[j] = q[j]
OBVIOUS

(* A chain whose first event has left.                                       *)
LEMMA ShortenedChain ==
  ASSUME NEW q \in Seq(Entry), q # << >>
  PROVE  /\ Len(q) \in Nat /\ Len(q) >= 1
         /\ Head(q) = q[1] /\ q[1] \in Entry
         /\ Tail(q) \in Seq(Entry)
         /\ Len(Tail(q)) = Len(q) - 1
         /\ \A j \in 1..Len(q) - 1 : Tail(q)[j] = q[j + 1]
OBVIOUS

(* A chain whose first event has fewer listeners to be delivered to.         *)
LEMMA NarrowedChain ==
  ASSUME NEW q \in Seq(Entry), q # << >>, NEW left \in SUBSET Listeners
  PROVE  /\ [q EXCEPT ![1].to = left] \in Seq(Entry)
         /\ Len([q EXCEPT ![1].to = left]) = Len(q)
         /\ [q EXCEPT ![1].to = left][1].event = q[1].event
         /\ [q EXCEPT ![1].to = left][1].to = left
         /\ \A j \in 2..Len(q) : [q EXCEPT ![1].to = left][j] = q[j]
<1> DEFINE e == [q[1] EXCEPT !.to = left]
           r == [q EXCEPT ![1] = e]
<1>1. Len(q) \in Nat /\ Len(q) >= 1 /\ 1 \in 1..Len(q) /\ q[1] \in Entry
  OBVIOUS
<1>2. e \in Entry /\ e.event = q[1].event /\ e.to = left
  BY <1>1 DEF Entry
<1>3. [q EXCEPT ![1].to = left] = r
  OBVIOUS
<1>4. DOMAIN q = 1..Len(q) /\ DOMAIN r = 1..Len(q) /\ \A j \in 1..Len(q) : q[j] \in Entry
  OBVIOUS
<1>5. \A j \in 1..Len(q) : r[j] = IF j = 1 THEN e ELSE q[j]
  BY <1>4
<1>6. r \in Seq(Entry) /\ Len(r) = Len(q)
  BY <1>1, <1>2, <1>4
<1> QED BY <1>1, <1>2, <1>3, <1>5, <1>6

-----------------------------------------------------------------------------
(* Types. *)

(* A session that is created.                                                *)
LEMMA StartIsTyped == Init => Typed
<1> SUFFICES ASSUME Init PROVE Typed
  OBVIOUS
<1>1. MaxEvents \in Nat /\ MaxRuns \in Nat
  BY SessionAssumption
<1>2. run \in Run /\ returned \in RunReply
  BY <1>1 DEF Init, Run, RunReply
<1>3. owed \in [Listeners -> Seq(Events)] /\ got \in [Listeners -> Seq(Events)]
  BY DEF Init
<1>4. queue \in Seq([event : Events, to : SUBSET Listeners])
  BY DEF Init
<1>5. HistoryTypeOK
  BY <1>2, <1>3 DEF Init, HistoryTypeOK
<1>6. emitted \in 0..MaxEvents /\ runs \in 0..MaxRuns
  BY <1>1 DEF Init
<1>7. run.step = "none" /\ awaited = Nil /\ disposed \in BOOLEAN
  BY DEF Init
<1>8. listeners \subseteq Listeners /\ errors \subseteq Failure
      /\ runResult \in Outcomes \cup {Nil}
      /\ pi \in {"idle", "prompting", "aborting", "resolved", "rejected"}
  BY DEF Init
<1>9. SessionTypeOK
  BY <1>2, <1>4, <1>6, <1>7, <1>8 DEF SessionTypeOK
<1> QED BY <1>5, <1>9 DEF Typed

(* What the types say of the chain ...                                       *)
LEMMA TheChain ==
  ASSUME Typed
  PROVE  /\ queue \in Seq(Entry)
         /\ Len(queue) \in Nat
         /\ \A j \in 1..Len(queue) : /\ queue[j] \in Entry
                                    /\ queue[j].event \in Events
                                    /\ queue[j].to \in SUBSET Listeners
<1>1. queue \in Seq(Entry)
  BY DEF Typed, SessionTypeOK, Entry
<1>2. \A j \in 1..Len(queue) : queue[j] \in Entry
  BY <1>1
<1>3. \A e \in Entry : e.event \in Events /\ e.to \in SUBSET Listeners
  BY DEF Entry
<1> QED BY <1>1, <1>2, <1>3

(* ... and of its first event.                                               *)
LEMMA TheFirst ==
  ASSUME Typed, queue # << >>
  PROVE  /\ Len(queue) >= 1
         /\ Head(queue) = queue[1]
         /\ queue[1].event \in Events
         /\ queue[1].to \in SUBSET Listeners
<1>1. queue \in Seq(Entry)
  BY TheChain
<1>2. Len(queue) \in Nat /\ Len(queue) >= 1 /\ Head(queue) = queue[1]
  BY <1>1, ShortenedChain
<1> QED BY <1>2, TheChain

(* publish appends an event and notes to whom it is owed.                    *)
LEMMA PublishIsTyped ==
  ASSUME Typed, Publish
  PROVE  /\ queue' \in Seq(Entry)
         /\ queue' # << >>
         /\ owed' \in [Listeners -> Seq(Events)]
         /\ emitted' \in 0..MaxEvents
<1>1. emitted + 1 \in Events /\ emitted' = emitted + 1 /\ MaxEvents \in Nat
  BY SessionAssumption DEF Typed, SessionTypeOK, Publish, Events
<1> DEFINE e == [event |-> emitted + 1, to |-> listeners]
<1>2. e \in Entry /\ queue \in Seq(Entry) /\ queue' = Append(queue, e)
  BY <1>1 DEF Typed, SessionTypeOK, Publish, Entry
<1>3. queue' \in Seq(Entry) /\ queue' # << >>
  BY <1>2
<1>4. \A l \in Listeners : Append(owed[l], emitted + 1) \in Seq(Events)
  BY <1>1 DEF Typed, HistoryTypeOK
<1>5. owed' \in [Listeners -> Seq(Events)]
  BY <1>4 DEF Typed, HistoryTypeOK, Publish
<1> QED BY <1>1, <1>3, <1>5 DEF Events

(* A listener is called with the first event of the chain.                   *)
LEMMA CallIsTyped ==
  ASSUME Typed, queue # << >>, NEW l \in Listeners, CallListener(l)
  PROVE  awaited' \in Listeners /\ got' \in [Listeners -> Seq(Events)]
<1>1. Head(queue).event \in Events
  BY TheFirst
<1>2. Append(got[l], Head(queue).event) \in Seq(Events)
  BY <1>1 DEF Typed, HistoryTypeOK
<1> QED BY <1>2 DEF CallListener, Typed, HistoryTypeOK

(* What GoOn does: it calls the next listener or begins with the next event. *)
LEMMA GoOnIsTyped ==
  ASSUME Typed, NEW l \in Listeners, awaited = l, GoOn(l)
  PROVE  /\ queue' \in Seq(Entry)
         /\ awaited' \in Listeners \cup {Nil}
         /\ awaited' # Nil => queue' # << >>
         /\ got' \in [Listeners -> Seq(Events)]
<1>1. queue \in Seq(Entry) /\ queue # << >> /\ got \in [Listeners -> Seq(Events)]
  BY SessionAssumption DEF Typed, SessionTypeOK, HistoryTypeOK, Entry
<1>2. Head(queue).to \in SUBSET Listeners
  BY <1>1, TheFirst
<1> DEFINE left == Head(queue).to \ {l}
<1>3. CASE left = {}
  <2>1. queue' = Tail(queue) /\ awaited' = Nil /\ got' = got
    BY <1>3 DEF GoOn
  <2> QED BY <1>1, <2>1
<1>4. CASE left # {}
  <2>1. queue' = [queue EXCEPT ![1].to = left]
    BY <1>4 DEF GoOn
  <2>2. PICK next \in left : CallListener(next)
    BY <1>4 DEF GoOn
  <2>3. queue' \in Seq(Entry) /\ Len(queue') = Len(queue)
    BY <1>1, <1>2, <2>1, NarrowedChain
  <2>4. queue' # << >>
    BY <1>1, <2>3
  <2> QED BY <1>1, <1>2, <2>2, <2>3, <2>4, CallIsTyped
<1> QED BY <1>3, <1>4

(* A reply ends the run in progress.                                         *)
LEMMA ReplyIsTyped ==
  ASSUME Typed, NEW kind \in {"result", "rejected"}, NEW outcome \in Outcomes \cup {Nil},
         Reply(kind, outcome)
  PROVE  /\ run' \in Run /\ run'.step = "none" /\ run'.until = run.until
         /\ returned' \in RunReply
         /\ returned'.kind = kind /\ returned'.outcome = outcome
         /\ returned'.until = run.until
<1>1. run \in Run /\ run' = [run EXCEPT !.step = "none"]
      /\ returned' = [kind |-> kind, outcome |-> outcome, until |-> run.until]
  BY DEF Typed, SessionTypeOK, Reply
<1>2. run.until \in 0..MaxEvents
  BY <1>1 DEF Run
<1>3. run' \in Run /\ run'.step = "none" /\ run'.until = run.until
  BY <1>1 DEF Run
<1> QED BY <1>1, <1>2, <1>3 DEF RunReply

(* The errors a run takes become reports of failures.                        *)
LEMMA ReportsAreTyped ==
  ASSUME Typed, TakeErrors
  PROVE  reports' \subseteq Report
<1>1. \A f \in errors :
        [run |-> runs, event |-> f.event, listener |-> f.listener] \in Report
  BY DEF Typed, SessionTypeOK, Failure, Report
<1> QED BY <1>1 DEF TakeErrors, Typed, HistoryTypeOK

(* EndRun rejects with the failures, or returns a result when there is none. *)
LEMMA EndRunReplies ==
  ASSUME Typed, EndRun
  PROVE  \/ Reply("rejected", Nil)
         \/ errors = {} /\ runResult # Nil /\ Reply("result", runResult)
BY DEF EndRun

(* Every step keeps the types.                                               *)
LEMMA TypesAreKept ==
  ASSUME Typed, [Next]_vars
  PROVE  Typed'
<1> USE DEF Typed
<1>1. MaxEvents \in Nat /\ MaxRuns \in Nat /\ Nil \notin Listeners \cup Outcomes
  BY SessionAssumption
<1>2. CASE EmitOther \/ EmitEnded
  <2>1. Publish
    BY <1>2 DEF EmitOther, EmitEnded
  <2>2. queue' \in Seq([event : Events, to : SUBSET Listeners]) /\ queue' # << >>
        /\ owed' \in [Listeners -> Seq(Events)] /\ emitted' \in 0..MaxEvents
    BY <2>1, PublishIsTyped DEF Entry
  <2>3. runResult' \in Outcomes \cup {Nil} /\ ended' \in Outcomes \cup {Nil}
    BY <1>2 DEF EmitOther, EmitEnded, SessionTypeOK, HistoryTypeOK, session
  <2>4. UNCHANGED <<listeners, awaited, errors, disposed, pi, run, runs, got, failures,
                    reports, returned>>
    BY <1>2 DEF EmitOther, EmitEnded, session
  <2>5. SessionTypeOK'
    BY <2>2, <2>3, <2>4 DEF SessionTypeOK
  <2> QED BY <2>2, <2>3, <2>4, <2>5 DEF HistoryTypeOK
<1>3. CASE PromptSettles \/ Abort
  <2>1. pi' \in {"idle", "prompting", "aborting", "resolved", "rejected"}
    BY <1>3 DEF PromptSettles, Abort
  <2>2. UNCHANGED <<dispatcher, session, emitted, history>>
    BY <1>3 DEF PromptSettles, Abort
  <2> QED BY <2>1, <2>2 DEF SessionTypeOK, HistoryTypeOK, dispatcher, session, history
<1>4. CASE Skip
  <2>1. queue \in Seq(Entry) /\ queue # << >> /\ queue' = Tail(queue) /\ awaited' = Nil
    BY <1>4, TheChain DEF Skip, NextEvent
  <2>2. queue' \in Seq([event : Events, to : SUBSET Listeners])
    BY <2>1, ShortenedChain DEF Entry
  <2>3. UNCHANGED <<listeners, awaited, errors, session, pi, emitted, history>>
    BY <1>4 DEF Skip
  <2>4. SessionTypeOK'
    BY <2>1, <2>2, <2>3 DEF SessionTypeOK, session
  <2> QED BY <2>3, <2>4 DEF HistoryTypeOK, history
<1>5. ASSUME NEW l \in Listeners, Deliver(l) PROVE Typed'
  <2>1. awaited' \in Listeners /\ got' \in [Listeners -> Seq(Events)] /\ queue # << >>
    BY <1>5, CallIsTyped DEF Deliver, NextEvent
  <2>2. UNCHANGED <<listeners, queue, errors, session, pi, emitted, owed, failures,
                    reports, ended, returned>>
    BY <1>5 DEF Deliver
  <2>3. SessionTypeOK'
    BY <2>1, <2>2 DEF SessionTypeOK, session
  <2> QED BY <2>1, <2>2, <2>3 DEF HistoryTypeOK
<1>6. ASSUME NEW l \in Listeners, ListenerResolves(l) \/ ListenerRejects(l) PROVE Typed'
  <2>1. awaited = l /\ GoOn(l) /\ queue # << >>
    BY <1>1, <1>6 DEF ListenerResolves, ListenerRejects, SessionTypeOK
  <2>2. queue' \in Seq([event : Events, to : SUBSET Listeners])
        /\ awaited' \in Listeners \cup {Nil} /\ (awaited' # Nil => queue' # << >>)
        /\ got' \in [Listeners -> Seq(Events)]
    BY <1>6, <2>1, GoOnIsTyped DEF Entry
  <2>3. [event |-> Head(queue).event, listener |-> l] \in Failure
    BY <1>6, <2>1, TheFirst DEF Failure
  <2>4. errors' \subseteq Failure /\ failures' \subseteq Failure
    BY <1>6, <2>3 DEF ListenerResolves, ListenerRejects, SessionTypeOK, HistoryTypeOK
  <2>5. UNCHANGED <<listeners, session, pi, emitted, owed, reports, ended, returned>>
    BY <1>6 DEF ListenerResolves, ListenerRejects
  <2>6. SessionTypeOK'
    BY <2>2, <2>4, <2>5 DEF SessionTypeOK, session
  <2> QED BY <2>2, <2>4, <2>5, <2>6 DEF HistoryTypeOK
<1>7. CASE StartRun
  <2>1. run' \in Run /\ returned' \in RunReply
    BY <1>1, <1>7 DEF StartRun, HistoryTypeOK, Run, RunReply
  <2>2. runs' \in 0..MaxRuns /\ ~disposed /\ runResult' = Nil /\ ended' = Nil
        /\ pi' = "prompting"
    BY <1>1, <1>7 DEF StartRun, SessionTypeOK
  <2>3. UNCHANGED <<dispatcher, disposed, emitted, owed, got, failures, reports>>
    BY <1>7 DEF StartRun
  <2>4. SessionTypeOK'
    BY <2>1, <2>2, <2>3 DEF SessionTypeOK, dispatcher
  <2> QED BY <2>1, <2>2, <2>3, <2>4 DEF HistoryTypeOK
<1>8. CASE Settle
  <2>1. run' \in Run
    BY <1>8 DEF Settle, SessionTypeOK, Run
  <2>2. ~disposed /\ pi' = "idle"
    BY <1>8 DEF Settle, SessionTypeOK
  <2>3. UNCHANGED <<dispatcher, disposed, runResult, runs, emitted, history>>
    BY <1>8 DEF Settle
  <2>4. SessionTypeOK'
    BY <2>1, <2>2, <2>3 DEF SessionTypeOK, dispatcher
  <2> QED BY <2>3, <2>4 DEF HistoryTypeOK, history
<1>9. CASE EndRun
  <2>1. run' \in Run /\ run'.step = "none" /\ returned' \in RunReply
    BY <1>9, EndRunReplies, ReplyIsTyped DEF SessionTypeOK
  <2>2. errors' = {} /\ reports' \subseteq Report
    BY <1>9, ReportsAreTyped DEF EndRun, TakeErrors
  <2>3. UNCHANGED <<listeners, queue, awaited, disposed, runResult, runs, pi, emitted,
                    owed, got, failures, ended>>
    BY <1>9 DEF EndRun
  <2>4. SessionTypeOK'
    BY <2>1, <2>2, <2>3 DEF SessionTypeOK
  <2> QED BY <2>1, <2>2, <2>3, <2>4 DEF HistoryTypeOK
<1>10. CASE Dispose
  <2>1. run.step = "none" /\ disposed' = TRUE /\ listeners' = {} /\ errors' = {}
    BY <1>10 DEF Dispose
  <2>2. UNCHANGED <<queue, awaited, runResult, run, runs, pi, emitted, history>>
    BY <1>10 DEF Dispose
  <2>3. SessionTypeOK'
    BY <2>1, <2>2 DEF SessionTypeOK
  <2> QED BY <2>2, <2>3 DEF HistoryTypeOK, history
<1>11. ASSUME NEW l \in Listeners, Subscribe(l) \/ Unsubscribe(l) PROVE Typed'
  <2>1. listeners' \subseteq Listeners
    BY <1>11 DEF Subscribe, Unsubscribe, SessionTypeOK
  <2>2. UNCHANGED <<queue, awaited, errors, session, pi, emitted, history>>
    BY <1>11 DEF Subscribe, Unsubscribe
  <2>3. SessionTypeOK'
    BY <2>1, <2>2 DEF SessionTypeOK, session
  <2> QED BY <2>2, <2>3 DEF HistoryTypeOK, history
<1>12. CASE UNCHANGED vars
  BY <1>12 DEF vars, dispatcher, session, history, SessionTypeOK, HistoryTypeOK
<1> QED
  BY <1>2, <1>3, <1>4, <1>5, <1>6, <1>7, <1>8, <1>9, <1>10, <1>11, <1>12
  DEF Next, Delivery

-----------------------------------------------------------------------------
(* The prompt. *)

(* Every step keeps the run and the prompt in agreement.                     *)
LEMMA PromptStaysSound ==
  ASSUME Typed, PromptSound, [Next]_vars
  PROVE  PromptSound'
<1> USE DEF PromptSound, RunAnswersItsOwnEnd
<1>1. CASE EmitOther
  BY <1>1 DEF EmitOther, session
<1>2. CASE EmitEnded
  <2>1. run.step = "prompt" /\ returned.kind = "none"
    BY <1>2 DEF EmitEnded
  <2>2. runResult' = ended'
    BY <1>2 DEF EmitEnded
  <2>3. UNCHANGED <<run, pi, returned>>
    BY <1>2 DEF EmitEnded
  <2> QED BY <2>1, <2>2, <2>3
<1>3. CASE PromptSettles \/ Abort
  <2>1. run.step = "prompt"
    BY <1>3 DEF PromptSettles, Abort
  <2>2. UNCHANGED <<session, history>>
    BY <1>3 DEF PromptSettles, Abort
  <2> QED BY <2>1, <2>2 DEF session, history
<1>4. CASE Skip
  BY <1>4 DEF Skip, session, history
<1>5. ASSUME NEW l \in Listeners,
             Deliver(l) \/ ListenerResolves(l) \/ ListenerRejects(l)
      PROVE  PromptSound'
  <2>1. UNCHANGED <<session, pi, ended, returned>>
    BY <1>5 DEF Deliver, ListenerResolves, ListenerRejects
  <2> QED BY <2>1 DEF session
<1>6. CASE StartRun
  BY <1>6 DEF StartRun
<1>7. CASE Settle
  <2>1. pi' = "idle" /\ run.step = "prompt" /\ UNCHANGED <<runResult, history>>
    BY <1>7 DEF Settle
  <2> QED BY <2>1 DEF history
<1>8. CASE EndRun
  <2>1. pi = "idle" /\ UNCHANGED <<runResult, pi, ended>>
    BY <1>8 DEF EndRun, SettleIsDue
  <2>2. run'.step = "none"
    BY <1>8, EndRunReplies, ReplyIsTyped DEF Typed, SessionTypeOK
  <2>3. \/ returned'.kind = "rejected"
        \/ returned'.kind = "result" /\ returned'.outcome = runResult /\ runResult # Nil
    BY <1>8, EndRunReplies DEF Reply
  <2> QED BY <2>1, <2>2, <2>3
<1>9. CASE Dispose
  BY <1>9 DEF Dispose, history
<1>10. ASSUME NEW l \in Listeners, Subscribe(l) \/ Unsubscribe(l) PROVE PromptSound'
  BY <1>10 DEF Subscribe, Unsubscribe, session, history
<1>11. CASE UNCHANGED vars
  BY <1>11 DEF vars, session, history
<1> QED
  BY <1>1, <1>2, <1>3, <1>4, <1>5, <1>6, <1>7, <1>8, <1>9, <1>10, <1>11
  DEF Next, Delivery

-----------------------------------------------------------------------------
(* The chain. *)

(* The steps the chain takes: an event is published, the first one leaves,   *)
(* having nobody left to be delivered to or being dropped by a disposed      *)
(* session, or a listener is called with it.                                 *)
Published ==
  /\ queue' = Append(queue, [event |-> emitted + 1, to |-> listeners])
  /\ emitted' = emitted + 1
  /\ owed' = [l \in Listeners |->
                IF l \in listeners THEN Append(owed[l], emitted + 1) ELSE owed[l]]
  /\ ~disposed
  /\ UNCHANGED <<awaited, disposed, got>>

FirstLeaves ==
  /\ queue # << >> /\ queue' = Tail(queue)
  /\ \A l \in queue[1].to : disposed \/ l = awaited
  /\ awaited' = Nil
  /\ UNCHANGED <<emitted, owed, disposed, got>>

(* of is whom the event has still to be delivered to.                        *)
ListenerCalled(l, of) ==
  /\ queue # << >>
  /\ of = queue[1].to \ {awaited} /\ l \in of
  /\ \/ queue' = queue /\ awaited = Nil
     \/ queue' = [queue EXCEPT ![1].to = of] /\ awaited \in Listeners
  /\ awaited' = l
  /\ got' = [got EXCEPT ![l] = Append(@, queue[1].event)]
  /\ UNCHANGED <<emitted, owed, disposed>>
  /\ NothingDropped

ChainAtRest ==
  /\ UNCHANGED <<queue, awaited, emitted, owed, got>>
  /\ disposed => disposed'

(* A step publishes an event, drops the first one, calls a listener with it  *)
(* or leaves the chain alone.                                                *)
LEMMA ChainSteps ==
  ASSUME Typed, PromptSound, ChainSound, [Next]_vars
  PROVE  \/ Published \/ FirstLeaves \/ ChainAtRest
         \/ \E l \in Listeners, of \in SUBSET Listeners : ListenerCalled(l, of)
<1>1. Nil \notin Listeners
  BY SessionAssumption
<1>2. CASE EmitOther
  BY <1>2 DEF EmitOther, Publish, Published, session
<1>3. CASE EmitEnded
  <2>1. run.step = "prompt"
    BY <1>3 DEF EmitEnded, PromptSound
  <2>2. ~disposed
    BY <2>1 DEF Typed, SessionTypeOK
  <2> QED BY <1>3, <2>2 DEF EmitEnded, Publish, Published
<1>4. CASE PromptSettles \/ Abort \/ Settle \/ StartRun \/ EndRun \/ Dispose
           \/ UNCHANGED vars \/ (\E l \in Listeners : Subscribe(l) \/ Unsubscribe(l))
  BY <1>4 DEF PromptSettles, Abort, Settle, StartRun, EndRun, Dispose, Subscribe,
              Unsubscribe, ChainAtRest, vars, dispatcher, session, history
<1>5. CASE Skip
  <2>1. queue # << >> /\ awaited = Nil /\ queue' = Tail(queue)
        /\ (disposed \/ Head(queue).to = {})
    BY <1>5 DEF Skip, NextEvent
  <2>2. Head(queue) = queue[1]
    BY <2>1, TheFirst
  <2>3. UNCHANGED <<awaited, emitted, owed, disposed, got>>
    BY <1>5 DEF Skip, session, history
  <2> QED BY <2>1, <2>2, <2>3 DEF FirstLeaves
<1>6. ASSUME NEW l \in Listeners, Deliver(l)
      PROVE  \E of \in SUBSET Listeners : ListenerCalled(l, of)
  <2>1. queue # << >> /\ awaited = Nil /\ ~disposed /\ l \in Head(queue).to
        /\ CallListener(l)
    BY <1>6 DEF Deliver, NextEvent
  <2>2. Head(queue) = queue[1] /\ queue[1].to \in SUBSET Listeners
    BY <2>1, TheFirst
  <2>3. queue[1].to = queue[1].to \ {awaited}
    BY <1>1, <2>1, <2>2
  <2>4. UNCHANGED <<queue, emitted, owed, disposed>>
    BY <1>6 DEF Deliver, session
  <2>5. ListenerCalled(l, queue[1].to)
    BY <2>1, <2>2, <2>3, <2>4 DEF ListenerCalled, CallListener, NothingDropped
  <2> QED BY <2>2, <2>5
<1>7. ASSUME NEW l \in Listeners, ListenerResolves(l) \/ ListenerRejects(l)
      PROVE  \/ FirstLeaves
             \/ \E n \in Listeners, of \in SUBSET Listeners : ListenerCalled(n, of)
  <2> DEFINE left == queue[1].to \ {l}
  <2>1. awaited = l /\ GoOn(l) /\ UNCHANGED <<emitted, owed, disposed>>
    BY <1>7 DEF ListenerResolves, ListenerRejects, session
  <2>2. queue # << >> /\ NothingDropped
    BY <1>1, <2>1 DEF Typed, SessionTypeOK, NothingDropped
  <2>3. Head(queue) = queue[1] /\ left \in SUBSET Listeners
    BY <2>2, TheFirst
  <2>4. CASE left = {}
    <3>1. queue' = Tail(queue) /\ awaited' = Nil /\ got' = got
      BY <2>1, <2>3, <2>4 DEF GoOn
    <3> QED BY <2>1, <2>2, <2>4, <3>1 DEF FirstLeaves
  <2>5. CASE left # {}
    <3>1. queue' = [queue EXCEPT ![1].to = left]
          /\ \E next \in left : CallListener(next)
      BY <2>1, <2>3, <2>5 DEF GoOn
    <3>2. PICK next \in left : CallListener(next)
      BY <3>1
    <3>3. ListenerCalled(next, left)
      BY <2>1, <2>2, <2>3, <3>1, <3>2 DEF ListenerCalled, CallListener
    <3> QED BY <2>3, <3>3
  <2> QED BY <2>4, <2>5
<1> QED
  BY <1>2, <1>3, <1>4, <1>5, <1>6, <1>7 DEF Next, Delivery

(* Until where a run waits is set once, and it returns when the chain is     *)
(* past it.                                                                  *)
LEMMA UntilSteps ==
  ASSUME Typed, [Next]_vars
  PROVE  \/ run'.until \in {0, run.until, emitted} /\ returned'.until = returned.until
         \/ /\ run'.until = run.until /\ returned'.until = run.until
            /\ UNCHANGED <<queue, awaited, emitted>>
            /\ \A j \in 1..Len(queue) : queue[j].event > run.until
<1>1. CASE StartRun
  BY <1>1 DEF StartRun
<1>2. CASE Settle
  BY <1>2 DEF Settle, history
<1>3. CASE EndRun
  <2>1. run'.until = run.until /\ returned'.until = run.until
    BY <1>3, EndRunReplies, ReplyIsTyped DEF Typed, SessionTypeOK
  <2>2. DOMAIN queue = 1..Len(queue)
    BY TheChain
  <2> QED BY <1>3, <2>1, <2>2 DEF EndRun, SettleIsDue
<1>4. CASE EmitOther \/ EmitEnded \/ PromptSettles \/ Abort \/ Skip \/ Dispose
           \/ (\E l \in Listeners : \/ Deliver(l) \/ ListenerResolves(l)
                                    \/ ListenerRejects(l) \/ Subscribe(l)
                                    \/ Unsubscribe(l))
           \/ UNCHANGED vars
  <2>1. run' = run /\ returned' = returned
    BY <1>4 DEF EmitOther, EmitEnded, PromptSettles, Abort, Skip, Dispose, Deliver,
                ListenerResolves, ListenerRejects, Subscribe, Unsubscribe, vars,
                session, history
  <2> QED BY <2>1
<1> QED BY <1>1, <1>2, <1>3, <1>4 DEF Next, Delivery

(* Every step keeps the chain consecutive and past what was waited for.      *)
LEMMA ChainStaysSound ==
  ASSUME Typed, PromptSound, ChainSound, [Next]_vars
  PROVE  ChainSound'
<1>1. emitted \in Nat /\ run.until \in Nat /\ returned.until \in Nat
  BY SessionAssumption DEF Typed, SessionTypeOK, HistoryTypeOK, Run, RunReply
<1>2. queue \in Seq(Entry) /\ Len(queue) \in Nat
      /\ \A j \in 1..Len(queue) : queue[j].event \in Nat
  BY TheChain DEF Events
<1>3. Nil \notin Listeners
  BY SessionAssumption
<1>4. CASE Published
  <2> DEFINE e == [event |-> emitted + 1, to |-> listeners]
  <2>1. run'.until <= emitted /\ returned'.until <= emitted
    BY <1>1, UntilSteps DEF ChainSound
  <2>2. returned'.until = returned.until
    BY <1>1, <1>4, UntilSteps DEF Published
  <2>3. Typed'
    BY TypesAreKept
  <2>4. e \in Entry
    BY <1>4, <2>3, SessionAssumption
    DEF Published, Typed, SessionTypeOK, Entry, Events
  <2>5. /\ Len(queue') = Len(queue) + 1
        /\ queue'[Len(queue) + 1] = e
        /\ \A j \in 1..Len(queue) : queue'[j] = queue[j]
    BY <1>2, <1>4, <2>4, AppendedChain DEF Published
  <2>6. emitted' = emitted + 1 /\ awaited' = awaited /\ e.event = emitted + 1
    BY <1>4 DEF Published
  <2>7. \A j \in 1..Len(queue') :
          /\ queue'[j].event = emitted' - Len(queue') + j
          /\ queue'[j].event > returned'.until
    <3> SUFFICES ASSUME NEW j \in 1..Len(queue')
                 PROVE  /\ queue'[j].event = emitted' - Len(queue') + j
                        /\ queue'[j].event > returned'.until
      OBVIOUS
    <3>1. returned.until <= emitted
      BY DEF ChainSound
    <3>2. CASE j = Len(queue) + 1
      BY <1>1, <1>2, <2>2, <2>5, <2>6, <3>1, <3>2
    <3>3. CASE j \in 1..Len(queue)
      <4>1. queue[j].event = emitted - Len(queue) + j /\ queue[j].event > returned.until
        BY <3>3 DEF ChainSound
      <4> QED BY <1>1, <1>2, <2>2, <2>5, <2>6, <3>3, <4>1
    <3> QED BY <1>2, <2>5, <3>2, <3>3
  <2>8. awaited' # Nil => awaited' \in queue'[1].to
    <3> SUFFICES ASSUME awaited # Nil PROVE awaited \in queue'[1].to
      BY <2>6
    <3>1. Len(queue) >= 1
      BY TheFirst DEF Typed, SessionTypeOK
    <3> QED BY <1>2, <2>5, <3>1 DEF ChainSound
  <2>9. Len(queue') <= emitted' /\ run'.until <= emitted' /\ returned'.until <= emitted'
    <3>1. run'.until \in Nat /\ returned'.until \in Nat
      BY <2>3, SessionAssumption DEF Typed, SessionTypeOK, HistoryTypeOK, Run, RunReply
    <3> QED BY <1>1, <1>2, <2>1, <2>5, <2>6, <3>1 DEF ChainSound
  <2> QED BY <2>7, <2>8, <2>9 DEF ChainSound
<1>5. CASE FirstLeaves
  <2>1. /\ Len(queue) >= 1 /\ Len(queue') = Len(queue) - 1
        /\ \A j \in 1..Len(queue) - 1 : queue'[j] = queue[j + 1]
    BY <1>2, <1>5, ShortenedChain DEF FirstLeaves
  <2>2. emitted' = emitted /\ awaited' = Nil
    BY <1>5 DEF FirstLeaves
  <2>3. run'.until \in {0, run.until, emitted} /\ returned'.until = returned.until
    <3>1. queue' # queue
      BY <1>2, <2>1
    <3> QED BY <3>1, UntilSteps
  <2>4. run'.until <= emitted' /\ returned'.until <= emitted'
    BY <1>1, <2>2, <2>3 DEF ChainSound
  <2>5. \A j \in 1..Len(queue') :
          /\ queue'[j].event = emitted' - Len(queue') + j
          /\ queue'[j].event > returned'.until
    <3> SUFFICES ASSUME NEW j \in 1..Len(queue) - 1
                 PROVE  /\ queue'[j].event = emitted' - Len(queue') + j
                        /\ queue'[j].event > returned'.until
      BY <2>1
    <3>1. queue'[j] = queue[j + 1] /\ j + 1 \in 1..Len(queue)
      BY <1>2, <2>1
    <3>2. /\ queue[j + 1].event = emitted - Len(queue) + (j + 1)
          /\ queue[j + 1].event > returned.until
      BY <3>1 DEF ChainSound
    <3> QED BY <1>1, <1>2, <2>1, <2>2, <2>3, <3>1, <3>2
  <2>6. Len(queue') <= emitted'
    BY <1>1, <1>2, <2>1, <2>2 DEF ChainSound
  <2> QED BY <2>2, <2>4, <2>5, <2>6 DEF ChainSound
<1>6. ASSUME NEW l \in Listeners, NEW of \in SUBSET Listeners, ListenerCalled(l, of)
      PROVE  ChainSound'
  <2>1. /\ Len(queue') = Len(queue)
        /\ \A j \in 1..Len(queue) : queue'[j].event = queue[j].event
        /\ l \in queue'[1].to
    <3>1. queue # << >> /\ l \in of /\ of = queue[1].to \ {awaited}
      BY <1>6 DEF ListenerCalled
    <3>2. CASE queue' = queue
      BY <3>1, <3>2
    <3>3. CASE queue' = [queue EXCEPT ![1].to = of]
      BY <1>2, <3>1, <3>3, NarrowedChain
    <3> QED BY <1>6, <3>2, <3>3 DEF ListenerCalled
  <2>2. emitted' = emitted /\ awaited' = l /\ awaited' # awaited
    BY <1>3, <1>6 DEF ListenerCalled
  <2>3. run'.until \in {0, run.until, emitted} /\ returned'.until = returned.until
    BY <2>2, UntilSteps
  <2> QED BY <1>1, <1>2, <2>1, <2>2, <2>3 DEF ChainSound
<1>7. CASE ChainAtRest
  <2>1. UNCHANGED <<queue, awaited, emitted>>
    BY <1>7 DEF ChainAtRest
  <2> QED BY <1>1, <1>2, <2>1, UntilSteps DEF ChainSound
<1> QED BY <1>4, <1>5, <1>6, <1>7, ChainSteps

-----------------------------------------------------------------------------
(* Deliveries. *)

(* A prefix, element by element.                                             *)
LEMMA PrefixIsPointwise ==
  ASSUME NEW S, NEW s \in Seq(S), NEW t \in Seq(S)
  PROVE  IsPrefix(s, t) <=> Len(s) <= Len(t) /\ \A i \in 1..Len(s) : s[i] = t[i]
BY DEF IsPrefix

(* What the types say of the history of one listener.                        *)
LEMMA TheHistory ==
  ASSUME Typed, NEW l \in Listeners
  PROVE  /\ owed[l] \in Seq(Events) /\ got[l] \in Seq(Events)
         /\ Len(owed[l]) \in Nat /\ Len(got[l]) \in Nat
         /\ \A i \in 1..Len(owed[l]) : owed[l][i] \in Nat
<1>1. owed[l] \in Seq(Events) /\ got[l] \in Seq(Events)
  BY DEF Typed, HistoryTypeOK
<1>2. Len(owed[l]) \in Nat /\ Len(got[l]) \in Nat
  BY <1>1
<1>3. \A i \in 1..Len(owed[l]) : owed[l][i] \in Events
  BY <1>1
<1>4. Events \subseteq Nat
  BY DEF Events
<1> QED BY <1>1, <1>2, <1>3, <1>4

(* What waits is behind the first event of the chain, or is that event.      *)
LEMMA WaitingIsLater ==
  ASSUME Typed, ChainSound, NEW l \in Listeners, NEW e \in Waiting(l)
  PROVE  /\ queue # << >> /\ e >= queue[1].event
         /\ e = queue[1].event => l \in queue[1].to /\ awaited # l
<1>1. PICK j \in 1..Len(queue) :
        l \in queue[j].to /\ (j = 1 => awaited # l) /\ queue[j].event = e
  BY DEF Waiting
<1>2. Len(queue) \in Nat /\ emitted \in Nat /\ queue \in Seq(Entry)
  BY TheChain DEF Typed, SessionTypeOK
<1>3. queue[1].event = emitted - Len(queue) + 1 /\ e = emitted - Len(queue) + j /\ j \in Nat
  BY <1>1, <1>2 DEF ChainSound
<1>4. queue # << >>
  BY <1>1, <1>2
<1>5. e = queue[1].event => j = 1
  BY <1>2, <1>3
<1>6. e >= queue[1].event
  BY <1>2, <1>3
<1> QED BY <1>1, <1>4, <1>5, <1>6

(* The next event a listener is owed is the first that waits for it.         *)
LEMMA TheNextIsOwed ==
  ASSUME Typed, ChainSound, NEW l \in Listeners,
         OwedInOrder(l), CalledInOrder(l), Left(l) = Waiting(l),
         queue # << >>, l \in queue[1].to, awaited # l
  PROVE  /\ Len(got[l]) + 1 <= Len(owed[l])
         /\ owed[l][Len(got[l]) + 1] = queue[1].event
<1>1. /\ Len(owed[l]) \in Nat /\ Len(got[l]) \in Nat
      /\ \A i \in 1..Len(owed[l]) : owed[l][i] \in Nat
  BY TheHistory
<1>2. queue[1].event \in Waiting(l) /\ queue[1].event \in Nat
  BY TheFirst, TheChain DEF Waiting, Events
<1>3. PICK i \in Len(got[l]) + 1 .. Len(owed[l]) : owed[l][i] = queue[1].event
  BY <1>2 DEF Left
<1>4. owed[l][Len(got[l]) + 1] \in Waiting(l)
  BY <1>1, <1>3 DEF Left
<1>5. owed[l][Len(got[l]) + 1] >= queue[1].event
  BY <1>4, WaitingIsLater
<1>6. ASSUME i # Len(got[l]) + 1 PROVE FALSE
  <2>1. owed[l][Len(got[l]) + 1] < owed[l][i]
    BY <1>1, <1>3, <1>6 DEF OwedInOrder
  <2> QED BY <1>1, <1>3, <1>5, <2>1
<1> QED BY <1>1, <1>3, <1>6

(* An event that is published is owed to the listeners it waits for in the   *)
(* chain.                                                                    *)
LEMMA PublishedIsDelivered ==
  ASSUME Typed, Typed', ChainSound, Published, NEW l \in Listeners,
         OwedInOrder(l), CalledInOrder(l), Left(l) = Waiting(l)
  PROVE  OwedInOrder(l)' /\ CalledInOrder(l)' /\ (Left(l) = Waiting(l))'
<1> DEFINE new == IF l \in listeners THEN {emitted + 1} ELSE {}
           e == [event |-> emitted + 1, to |-> listeners]
<1>1. /\ Len(owed[l]) \in Nat /\ Len(got[l]) \in Nat
      /\ \A i \in 1..Len(owed[l]) : owed[l][i] \in Nat
      /\ owed[l] \in Seq(Events) /\ got[l] \in Seq(Events)
  BY TheHistory
<1>2. emitted \in Nat /\ emitted' = emitted + 1 /\ emitted + 1 \in Events
      /\ queue \in Seq(Entry) /\ Len(queue) \in Nat
  BY TheChain, SessionAssumption DEF Published, Typed, SessionTypeOK, Events
<1>3. e \in Entry
  BY <1>2 DEF Entry, Typed, SessionTypeOK
<1>4. /\ Len(queue') = Len(queue) + 1
      /\ queue'[Len(queue) + 1] = e
      /\ \A j \in 1..Len(queue) : queue'[j] = queue[j]
  BY <1>2, <1>3, AppendedChain DEF Published
<1>5. got'[l] = got[l] /\ awaited' = awaited
      /\ owed'[l] = IF l \in listeners THEN Append(owed[l], emitted + 1) ELSE owed[l]
  BY DEF Published
<1>6. Waiting(l)' = Waiting(l) \cup new
  <2>1. queue = << >> => awaited # l
    BY SessionAssumption DEF Typed, SessionTypeOK
  <2>2. Len(queue) = 0 => queue = << >>
    BY <1>2
  <2>3. \A j \in 1..Len(queue') : j \in 1..Len(queue) \/ j = Len(queue) + 1
    BY <1>2, <1>4
  <2>4. 1..Len(queue) \subseteq 1..Len(queue') /\ Len(queue) + 1 \in 1..Len(queue')
    BY <1>2, <1>4
  <2>5. Waiting(l)' \subseteq Waiting(l) \cup new
    <3> SUFFICES ASSUME NEW j \in 1..Len(queue'),
                        l \in queue'[j].to, j = 1 => awaited' # l
                 PROVE  queue'[j].event \in Waiting(l) \cup new
      BY DEF Waiting
    <3>1. CASE j \in 1..Len(queue)
      BY <1>4, <1>5, <3>1 DEF Waiting
    <3>2. CASE j = Len(queue) + 1
      BY <1>4, <3>2
    <3> QED BY <2>3, <3>1, <3>2
  <2>6. Waiting(l) \subseteq Waiting(l)'
    BY <1>4, <1>5, <2>4 DEF Waiting
  <2>7. new \subseteq Waiting(l)'
    <3> SUFFICES ASSUME l \in listeners PROVE emitted + 1 \in Waiting(l)'
      OBVIOUS
    <3> DEFINE k == Len(queue) + 1
    <3>1. k = 1 => awaited' # l
      BY <1>2, <1>5, <2>1, <2>2
    <3>2. k \in 1..Len(queue') /\ l \in queue'[k].to /\ queue'[k].event = emitted + 1
      BY <1>4, <2>4
    <3> HIDE DEF k
    <3> QED BY <3>1, <3>2 DEF Waiting
  <2> QED BY <2>5, <2>6, <2>7
<1>7. CASE l \in listeners
  <2>1. owed'[l] = Append(owed[l], emitted + 1)
    BY <1>5, <1>7
  <2>2. /\ Len(owed'[l]) = Len(owed[l]) + 1
        /\ owed'[l][Len(owed[l]) + 1] = emitted + 1
        /\ \A i \in 1..Len(owed[l]) : owed'[l][i] = owed[l][i]
    BY <1>1, <1>2, <2>1
  <2>3. Left(l)' = Left(l) \cup {emitted + 1}
    BY <1>1, <1>5, <2>2 DEF Left, CalledInOrder
  <2>4. OwedInOrder(l)'
    <3> DEFINE n == Len(owed[l])
    <3>1. \A i \in 1..n + 1 : i \in 1..n \/ i = n + 1
      BY <1>1
    <3>2. \A i \in 1..n : owed'[l][i] \in Nat /\ owed'[l][i] <= emitted
      BY <1>1, <2>2 DEF OwedInOrder
    <3>3. \A i \in 1..n + 1 : owed'[l][i] <= emitted'
      BY <1>2, <2>2, <3>1, <3>2
    <3>4. \A i, j \in 1..n + 1 : i < j => owed'[l][i] < owed'[l][j]
      <4> SUFFICES ASSUME NEW i \in 1..n + 1, NEW j \in 1..n + 1, i < j
                   PROVE  owed'[l][i] < owed'[l][j]
        OBVIOUS
      <4>1. i \in 1..n
        BY <1>1
      <4>2. CASE j \in 1..n
        BY <2>2, <4>1, <4>2 DEF OwedInOrder
      <4>3. CASE j = n + 1
        BY <1>2, <2>2, <3>2, <4>1, <4>3
      <4> QED BY <3>1, <4>2, <4>3
    <3> QED BY <2>2, <3>3, <3>4 DEF OwedInOrder
  <2>5. CalledInOrder(l)'
    BY <1>1, <1>5, <2>2 DEF CalledInOrder
  <2> QED BY <1>6, <1>7, <2>3, <2>4, <2>5
<1>8. CASE l \notin listeners
  <2>1. owed'[l] = owed[l]
    BY <1>5, <1>8
  <2>2. OwedInOrder(l)'
    BY <1>1, <1>2, <2>1 DEF OwedInOrder
  <2> QED BY <1>5, <1>6, <1>8, <2>1, <2>2 DEF CalledInOrder, Left
<1> QED BY <1>7, <1>8

(* An event that leaves the chain waited for no listener.                    *)
LEMMA DroppedIsDelivered ==
  ASSUME Typed, FirstLeaves, NothingDropped', NEW l \in Listeners
  PROVE  Waiting(l)' = Waiting(l)
<1>1. queue \in Seq(Entry) /\ queue # << >> /\ queue' = Tail(queue)
      /\ awaited' = Nil /\ awaited' # l
  BY TheChain, SessionAssumption DEF FirstLeaves
<1>2. /\ Len(queue) \in Nat /\ Len(queue) >= 1 /\ Len(queue') = Len(queue) - 1
      /\ \A j \in 1..Len(queue) - 1 : queue'[j] = queue[j + 1]
  BY <1>1, ShortenedChain
<1>3. \A m \in queue[1].to : m = awaited
  BY <1>1 DEF FirstLeaves, NothingDropped
<1>4. Waiting(l) \subseteq Waiting(l)'
  <2> SUFFICES ASSUME NEW j \in 1..Len(queue),
                      l \in queue[j].to, j = 1 => awaited # l
               PROVE  queue[j].event \in Waiting(l)'
    BY DEF Waiting
  <2>1. j # 1
    BY <1>3
  <2>2. j - 1 \in 1..Len(queue') /\ queue'[j - 1] = queue[j]
    BY <1>2, <2>1
  <2> QED BY <1>1, <2>2 DEF Waiting
<1>5. Waiting(l)' \subseteq Waiting(l)
  <2> SUFFICES ASSUME NEW j \in 1..Len(queue'), l \in queue'[j].to
               PROVE  queue'[j].event \in Waiting(l)
    BY DEF Waiting
  <2>1. j + 1 \in 1..Len(queue) /\ j + 1 # 1 /\ queue'[j] = queue[j + 1]
    BY <1>2
  <2> QED BY <2>1 DEF Waiting
<1> QED BY <1>4, <1>5

(* A listener is called with the first event it is owed.                     *)
LEMMA CalledIsDelivered ==
  ASSUME Typed, ChainSound, NEW n \in Listeners, NEW of \in SUBSET Listeners,
         ListenerCalled(n, of), NEW l \in Listeners,
         OwedInOrder(l), CalledInOrder(l), Left(l) = Waiting(l)
  PROVE  CalledInOrder(l)' /\ (Left(l) = Waiting(l))'
<1> DEFINE first == queue[1].event
<1>1. queue \in Seq(Entry) /\ queue # << >> /\ Len(queue) \in Nat /\ Len(queue) >= 1
      /\ Nil \notin Listeners
  BY TheChain, TheFirst, SessionAssumption DEF ListenerCalled
<1>2. /\ Len(owed[l]) \in Nat /\ Len(got[l]) \in Nat
      /\ \A i \in 1..Len(owed[l]) : owed[l][i] \in Nat
      /\ owed[l] \in Seq(Events) /\ got[l] \in Seq(Events)
  BY TheHistory
<1>3. owed' = owed /\ awaited' = n /\ n # awaited /\ n \in queue[1].to
      /\ of = queue[1].to \ {awaited}
      /\ got'[l] = IF l = n THEN Append(got[l], first) ELSE got[l]
  BY DEF ListenerCalled, Typed, HistoryTypeOK
<1>4. /\ Len(queue') = Len(queue)
      /\ \A j \in 2..Len(queue) : queue'[j] = queue[j]
      /\ queue'[1].event = first
      /\ l # n => (l \in queue'[1].to <=> l \in queue[1].to /\ l # awaited)
  <2>1. CASE queue' = queue /\ awaited = Nil
    BY <1>1, <2>1
  <2>2. CASE queue' = [queue EXCEPT ![1].to = of]
    BY <1>1, <1>3, <2>2, NarrowedChain
  <2> QED BY <2>1, <2>2 DEF ListenerCalled
<1>5. CASE l = n
  <2>1. Len(got[l]) + 1 <= Len(owed[l]) /\ owed[l][Len(got[l]) + 1] = first
    BY <1>1, <1>3, <1>5, TheNextIsOwed
  <2>2. first \in Events /\ got'[l] = Append(got[l], first)
    BY <1>1, <1>3, <1>5, TheFirst
  <2>3. /\ Len(got'[l]) = Len(got[l]) + 1
        /\ got'[l][Len(got[l]) + 1] = first
        /\ \A i \in 1..Len(got[l]) : got'[l][i] = got[l][i]
    BY <1>2, <2>2
  <2>4. CalledInOrder(l)'
    BY <1>2, <1>3, <2>1, <2>3 DEF CalledInOrder
  <2>5. Left(l)' = Left(l) \ {first}
    <3>1. \A i \in Len(got[l]) + 2 .. Len(owed[l]) : owed[l][i] # first
      BY <1>2, <2>1 DEF OwedInOrder
    <3>2. Left(l)' = {owed[l][i] : i \in Len(got[l]) + 2 .. Len(owed[l])}
      BY <1>2, <1>3, <2>3 DEF Left
    <3>3. Left(l) \subseteq Left(l)' \cup {first}
      <4> SUFFICES ASSUME NEW i \in Len(got[l]) + 1 .. Len(owed[l])
                   PROVE  owed[l][i] \in Left(l)' \cup {first}
        BY DEF Left
      <4>1. CASE i = Len(got[l]) + 1
        BY <2>1, <4>1
      <4>2. CASE i # Len(got[l]) + 1
        BY <1>2, <3>2, <4>2
      <4> QED BY <4>1, <4>2
    <3>4. Left(l)' \subseteq Left(l)
      <4>1. Len(got[l]) + 2 .. Len(owed[l]) \subseteq Len(got[l]) + 1 .. Len(owed[l])
        BY <1>2
      <4> QED BY <3>2, <4>1 DEF Left
    <3> QED BY <3>1, <3>2, <3>3, <3>4
  <2>6. Waiting(l)' = Waiting(l) \ {first}
    <3>1. \A j \in 2..Len(queue) : queue[j].event # first
      <4>1. emitted \in Nat
        BY DEF Typed, SessionTypeOK
      <4> QED BY <1>1, <4>1 DEF ChainSound
    <3>2. Waiting(l)' \subseteq Waiting(l) \ {first}
      <4> SUFFICES ASSUME NEW j \in 1..Len(queue'), l \in queue'[j].to, j # 1
                   PROVE  queue'[j].event \in Waiting(l) \ {first}
        BY <1>3, <1>5 DEF Waiting
      <4>1. j \in 2..Len(queue) /\ queue'[j] = queue[j]
        BY <1>1, <1>4
      <4> QED BY <3>1, <4>1 DEF Waiting
    <3>3. Waiting(l) \ {first} \subseteq Waiting(l)'
      <4> SUFFICES ASSUME NEW j \in 1..Len(queue), l \in queue[j].to, j # 1
                   PROVE  queue[j].event \in Waiting(l)'
        BY DEF Waiting
      <4>1. j \in 2..Len(queue) /\ queue'[j] = queue[j] /\ j \in 1..Len(queue')
        BY <1>1, <1>4
      <4> QED BY <4>1 DEF Waiting
    <3> QED BY <3>2, <3>3
  <2> QED BY <2>4, <2>5, <2>6
<1>6. CASE l # n
  <2>1. got'[l] = got[l] /\ CalledInOrder(l)' /\ Left(l)' = Left(l)
    BY <1>3, <1>6 DEF CalledInOrder, Left
  <2>2. Waiting(l)' \subseteq Waiting(l)
    <3> SUFFICES ASSUME NEW j \in 1..Len(queue), l \in queue'[j].to
                 PROVE  queue'[j].event \in Waiting(l)
      BY <1>4 DEF Waiting
    <3>1. CASE j = 1
      BY <1>4, <1>6, <3>1 DEF Waiting
    <3>2. CASE j # 1
      BY <1>4, <3>2 DEF Waiting
    <3> QED BY <3>1, <3>2
  <2>3. Waiting(l) \subseteq Waiting(l)'
    <3> SUFFICES ASSUME NEW j \in 1..Len(queue), l \in queue[j].to, j = 1 => awaited # l
                 PROVE  queue[j].event \in Waiting(l)'
      BY DEF Waiting
    <3>1. CASE j = 1
      BY <1>3, <1>4, <1>6, <3>1 DEF Waiting
    <3>2. CASE j # 1
      BY <1>4, <3>2 DEF Waiting
    <3> QED BY <3>1, <3>2
  <2> QED BY <2>1, <2>2, <2>3
<1> QED BY <1>5, <1>6

(* Every step keeps owed events and waiting events the same.                 *)
LEMMA DeliveryStaysSound ==
  ASSUME Typed, PromptSound, ChainSound, DeliverySound, [Next]_vars
  PROVE  DeliverySound'
<1>1. Typed'
  BY TypesAreKept
<1> SUFFICES ASSUME NEW l \in Listeners
             PROVE  /\ OwedInOrder(l)' /\ CalledInOrder(l)'
                    /\ NothingDropped' => (Left(l) = Waiting(l))'
  BY DEF DeliverySound
<1>2. OwedInOrder(l) /\ CalledInOrder(l) /\ (NothingDropped => Left(l) = Waiting(l))
  BY DEF DeliverySound
<1>3. CASE Published
  BY <1>1, <1>2, <1>3, PublishedIsDelivered DEF Published, NothingDropped
<1>4. CASE FirstLeaves
  <2>1. UNCHANGED <<owed, got, emitted>>
    BY <1>4 DEF FirstLeaves
  <2>2. OwedInOrder(l)' /\ CalledInOrder(l)' /\ Left(l)' = Left(l)
    BY <1>2, <2>1 DEF OwedInOrder, CalledInOrder, Left
  <2>3. NothingDropped' => NothingDropped
    BY <1>4 DEF FirstLeaves, NothingDropped
  <2> QED BY <1>2, <1>4, <2>2, <2>3, DroppedIsDelivered
<1>5. ASSUME NEW n \in Listeners, NEW of \in SUBSET Listeners, ListenerCalled(n, of)
      PROVE  OwedInOrder(l)' /\ CalledInOrder(l)' /\ (Left(l) = Waiting(l))'
  <2>1. OwedInOrder(l)' /\ NothingDropped
    BY <1>2, <1>5 DEF ListenerCalled, OwedInOrder
  <2> QED BY <1>2, <1>5, <2>1, CalledIsDelivered
<1>6. CASE ChainAtRest
  <2>1. UNCHANGED <<queue, awaited, emitted, owed, got>>
        /\ (NothingDropped' => NothingDropped)
    BY <1>6 DEF ChainAtRest, NothingDropped
  <2>2. OwedInOrder(l)' /\ CalledInOrder(l)'
    BY <1>2, <2>1 DEF OwedInOrder, CalledInOrder
  <2>3. Left(l)' = Left(l) /\ Waiting(l)' = Waiting(l)
    BY <2>1 DEF Left, Waiting
  <2> QED BY <1>2, <2>1, <2>2, <2>3
<1> QED BY <1>3, <1>4, <1>5, <1>6, ChainSteps

-----------------------------------------------------------------------------
(* Failures. *)

(* A failure is an event and a listener.                                     *)
LEMMA FailureHasParts ==
  ASSUME NEW f \in Failure
  PROVE  /\ f.event \in Events /\ f.event \in Nat /\ f.listener \in Listeners
         /\ [event |-> f.event, listener |-> f.listener] = f
BY SessionAssumption DEF Failure, Events

(* What waits in the chain after a listener has answered waited there        *)
(* before.                                                                   *)
LEMMA GoOnNarrows ==
  ASSUME Typed, NEW l \in Listeners, awaited = l, GoOn(l),
         NEW j \in 1..Len(queue'), NEW m \in queue'[j].to
  PROVE  \E i \in 1..Len(queue) :
           queue[i].event = queue'[j].event /\ m \in queue[i].to /\ (i = 1 => m # l)
<1> DEFINE left == queue[1].to \ {l}
<1>1. queue \in Seq(Entry) /\ queue # << >> /\ Head(queue) = queue[1]
      /\ Len(queue) \in Nat /\ Len(queue) >= 1 /\ queue[1].to \in SUBSET Listeners
  BY TheChain, TheFirst, SessionAssumption DEF Typed, SessionTypeOK
<1>2. CASE left = {}
  <2>1. queue' = Tail(queue)
    BY <1>1, <1>2 DEF GoOn
  <2>2. j + 1 \in 1..Len(queue) /\ j + 1 # 1 /\ queue'[j] = queue[j + 1]
    BY <1>1, <2>1, ShortenedChain
  <2> QED BY <2>2
<1>3. CASE left # {}
  <2>1. queue' = [queue EXCEPT ![1].to = left]
    BY <1>1, <1>3 DEF GoOn
  <2>2. /\ Len(queue') = Len(queue)
        /\ queue'[1].event = queue[1].event /\ queue'[1].to = left
        /\ \A k \in 2..Len(queue) : queue'[k] = queue[k]
    BY <1>1, <2>1, NarrowedChain
  <2>3. CASE j = 1
    BY <1>1, <2>2, <2>3
  <2>4. CASE j # 1
    BY <1>1, <2>2, <2>4
  <2> QED BY <2>3, <2>4
<1> QED BY <1>2, <1>3

(* The failure of a delivery is new, and not one that a run has waited for.  *)
LEMMA FailureIsNew ==
  ASSUME Typed, ChainSound, FailuresSound, NEW l \in Listeners, awaited = l, GoOn(l),
         NEW failure, failure = [event |-> Head(queue).event, listener |-> l]
  PROVE  /\ failure \in Failure /\ failure \notin failures /\ ~Reported(failure)
         /\ failure.event <= emitted /\ failure.event > returned.until
         /\ \A j \in 1..Len(queue') : \A m \in queue'[j].to :
              /\ [event |-> queue'[j].event, listener |-> m] # failure
              /\ [event |-> queue'[j].event, listener |-> m] \notin failures
<1>1. queue # << >> /\ Head(queue) = queue[1] /\ Len(queue) \in Nat /\ Len(queue) >= 1
      /\ queue[1].event \in Events /\ l \in queue[1].to
  BY TheChain, TheFirst, SessionAssumption DEF Typed, SessionTypeOK, ChainSound
<1>2. failure.event = queue[1].event /\ failure.listener = l /\ failure \in Failure
  BY <1>1 DEF Failure
<1>3. emitted \in Nat /\ \A j \in 1..Len(queue) : queue[j].event = emitted - Len(queue) + j
  BY DEF Typed, SessionTypeOK, ChainSound
<1>4. failure \notin failures
  BY <1>1 DEF FailuresSound, PendingSound
<1>5. ~Reported(failure)
  <2> SUFFICES ASSUME NEW r \in reports, r.event = failure.event,
                      r.listener = failure.listener
               PROVE  FALSE
    BY DEF Reported
  <2>1. [event |-> r.event, listener |-> r.listener] \in failures
    BY DEF FailuresSound
  <2> QED BY <1>2, <1>4, <2>1, FailureHasParts
<1>6. failure.event <= emitted /\ failure.event > returned.until
  BY <1>1, <1>2, <1>3 DEF ChainSound
<1>7. ASSUME NEW j \in 1..Len(queue'), NEW m \in queue'[j].to
      PROVE  /\ [event |-> queue'[j].event, listener |-> m] # failure
             /\ [event |-> queue'[j].event, listener |-> m] \notin failures
  <2>1. PICK i \in 1..Len(queue) :
          queue[i].event = queue'[j].event /\ m \in queue[i].to /\ (i = 1 => m # l)
    BY <1>7, GoOnNarrows
  <2>2. [event |-> queue'[j].event, listener |-> m] \notin failures
    BY <2>1 DEF FailuresSound, PendingSound
  <2>3. i # 1 => queue[i].event # queue[1].event
    BY <1>1, <1>3
  <2>4. queue'[j].event # failure.event \/ m # failure.listener
    BY <1>2, <2>1, <2>3
  <2> DEFINE other == [event |-> queue'[j].event, listener |-> m]
  <2>5. other.event # failure.event \/ other.listener # failure.listener
    BY <2>4
  <2> QED BY <2>2, <2>5
<1> QED BY <1>2, <1>4, <1>5, <1>6, <1>7

(* What the dispatcher hands out is reported once.                           *)
LEMMA ReportsAreNew ==
  ASSUME Typed, FailuresSound, TakeErrors, UNCHANGED <<failures, runs>>
  PROVE  /\ \A f \in failures : Reported(f)' <=> Reported(f) \/ f \in errors
         /\ \A r \in reports' :
              /\ r.run <= runs
              /\ [event |-> r.event, listener |-> r.listener] \in failures
         /\ errors = {} => reports' = reports
         /\ ReportedOnce'
<1> DEFINE Of(f) == [run |-> runs, event |-> f.event, listener |-> f.listener]
           new == {Of(f) : f \in errors}
<1>1. reports' = reports \cup new /\ runs \in Nat
  BY DEF TakeErrors, Typed, SessionTypeOK
<1>2. errors \subseteq failures /\ failures \subseteq Failure /\ reports \subseteq Report
  BY DEF Typed, SessionTypeOK, HistoryTypeOK, FailuresSound
<1>3. \A f \in errors : Of(f).run = runs /\ Of(f).event = f.event
                        /\ Of(f).listener = f.listener
  OBVIOUS
<1>4. \A f, g \in failures : f.event = g.event /\ f.listener = g.listener => f = g
  BY <1>2 DEF Failure
<1>5. ASSUME NEW f \in failures PROVE Reported(f)' <=> Reported(f) \/ f \in errors
  <2>1. ASSUME NEW r \in new, r.event = f.event, r.listener = f.listener
        PROVE  f \in errors
    <3>1. PICK g \in errors : r = Of(g)
      BY <2>1
    <3> QED BY <1>2, <1>3, <1>4, <2>1, <3>1
  <2>2. ASSUME f \in errors PROVE Reported(f)'
    BY <1>1, <1>3, <2>2 DEF Reported
  <2> QED BY <1>1, <2>1, <2>2 DEF Reported
<1>6. \A r \in new : r.run = runs /\ [event |-> r.event, listener |-> r.listener] \in errors
  <2> SUFFICES ASSUME NEW f \in errors
               PROVE  /\ Of(f).run = runs
                      /\ [event |-> Of(f).event, listener |-> Of(f).listener] \in errors
    OBVIOUS
  <2>1. [event |-> f.event, listener |-> f.listener] = f
    BY <1>2, FailureHasParts
  <2> QED BY <1>3, <2>1
<1>7. \A r \in reports' : /\ r.run <= runs
                          /\ [event |-> r.event, listener |-> r.listener] \in failures
  <2>1. \A r \in reports :
          r.run <= runs /\ [event |-> r.event, listener |-> r.listener] \in failures
    BY DEF FailuresSound
  <2>2. \A r \in new :
          r.run <= runs /\ [event |-> r.event, listener |-> r.listener] \in failures
    <3> SUFFICES ASSUME NEW r \in new
                 PROVE  /\ r.run <= runs
                        /\ [event |-> r.event, listener |-> r.listener] \in failures
      OBVIOUS
    <3>1. r.run = runs /\ [event |-> r.event, listener |-> r.listener] \in errors
      BY <1>6
    <3> QED BY <1>1, <1>2, <3>1
  <2> QED BY <1>1, <2>1, <2>2
<1>8. ReportedOnce'
  <2> SUFFICES ASSUME NEW r \in reports', NEW s \in reports',
                      r.event = s.event, r.listener = s.listener
               PROVE  r.run = s.run
    BY DEF ReportedOnce
  <2>1. ASSUME NEW a \in reports, NEW b \in new PROVE a.event # b.event \/ a.listener # b.listener
    <3>1. PICK f \in errors : b = Of(f)
      OBVIOUS
    <3>2. ~Reported(f)
      BY DEF FailuresSound
    <3> QED BY <1>3, <3>1, <3>2 DEF Reported
  <2> QED BY <1>1, <1>6, <2>1 DEF FailuresSound, ReportedOnce
<1> QED BY <1>1, <1>5, <1>7, <1>8

(* A step that records no failure and reports none leaves them sound: what   *)
(* it must not do is bring back a delivery, forget an error or move on a run.*)
LEMMA FailuresAtRest ==
  ASSUME Typed, FailuresSound, UNCHANGED <<failures, errors, reports>>,
         PendingSound', emitted' >= emitted, emitted' \in Nat,
         returned'.until = returned.until,
         disposed => disposed',
         runs' >= runs, runs' \in Nat,
         \/ runs' > runs
         \/ (run'.step # "none" \/ returned'.kind = "result" =>
               run.step # "none" \/ returned.kind = "result")
  PROVE  FailuresSound'
<1>1. emitted \in Nat /\ runs \in Nat /\ failures \subseteq Failure /\ reports \subseteq Report
  BY DEF Typed, SessionTypeOK, HistoryTypeOK
<1>2. \A f \in failures : Reported(f)' <=> Reported(f)
  BY DEF Reported
<1>3. \A f \in failures : f.event \in Nat
  BY <1>1, FailureHasParts
<1>4. \A f \in failures' : /\ f.event <= emitted'
                           /\ Reported(f)' \/ f.event > returned'.until
                           /\ Reported(f)' \/ f \in errors' \/ disposed'
  <2> SUFFICES ASSUME NEW f \in failures
               PROVE  /\ f.event <= emitted'
                      /\ Reported(f)' \/ f.event > returned'.until
                      /\ Reported(f)' \/ f \in errors' \/ disposed'
    OBVIOUS
  <2>1. f.event <= emitted /\ (Reported(f) \/ f.event > returned.until)
        /\ (Reported(f) \/ f \in errors \/ disposed)
    BY DEF FailuresSound
  <2>2. f.event <= emitted'
    BY <1>1, <1>3, <2>1
  <2> QED BY <1>2, <2>1, <2>2
<1>5. \A r \in reports' :
        /\ r.run <= runs'
        /\ [event |-> r.event, listener |-> r.listener] \in failures'
        /\ run'.step # "none" \/ returned'.kind = "result" => r.run < runs'
  <2> SUFFICES ASSUME NEW r \in reports
               PROVE  /\ r.run <= runs'
                      /\ [event |-> r.event, listener |-> r.listener] \in failures
                      /\ run'.step # "none" \/ returned'.kind = "result" => r.run < runs'
    OBVIOUS
  <2>1. r.run \in Nat
    BY <1>1, SessionAssumption DEF Report
  <2>2. r.run <= runs /\ [event |-> r.event, listener |-> r.listener] \in failures
        /\ (run.step # "none" \/ returned.kind = "result" => r.run < runs)
    BY DEF FailuresSound
  <2> QED BY <1>1, <2>1, <2>2
<1>6. errors' \subseteq failures' /\ (\A f \in errors' : ~Reported(f)') /\ ReportedOnce'
  BY <1>2 DEF FailuresSound, ReportedOnce
<1> QED BY <1>4, <1>5, <1>6 DEF FailuresSound, PendingSound

(* Every step keeps failures pending or reported once.                       *)
LEMMA FailuresStaySound ==
  ASSUME Typed, PromptSound, ChainSound, FailuresSound, [Next]_vars
  PROVE  FailuresSound'
<1>1. Typed'
  BY TypesAreKept
<1>2. emitted \in Nat /\ emitted' \in Nat /\ runs \in Nat /\ runs' \in Nat
      /\ failures \subseteq Failure /\ PendingSound
  BY <1>1 DEF Typed, SessionTypeOK, HistoryTypeOK, FailuresSound, PendingSound
<1>3. queue \in Seq(Entry) /\ Len(queue) \in Nat
  BY TheChain
<1>4. CASE EmitOther \/ EmitEnded
  <2>1. Published
    BY <1>2, <1>4 DEF EmitOther, EmitEnded, Publish, Published, session, PromptSound,
                      Typed, SessionTypeOK
  <2> DEFINE e == [event |-> emitted + 1, to |-> listeners]
  <2>2. e \in Entry
    BY <1>1, <2>1, SessionAssumption DEF Published, Typed, SessionTypeOK, Entry, Events
  <2>3. /\ Len(queue') = Len(queue) + 1
        /\ queue'[Len(queue) + 1] = e
        /\ \A j \in 1..Len(queue) : queue'[j] = queue[j]
    BY <1>3, <2>1, <2>2, AppendedChain DEF Published
  <2>4. UNCHANGED <<failures, errors, reports, runs, run, returned, disposed>>
    BY <1>4 DEF EmitOther, EmitEnded, session
  <2>5. \A f \in failures : f.event # emitted + 1
    <3>1. \A f \in failures : f.event <= emitted /\ f.event \in Nat
      BY <1>2, FailureHasParts DEF FailuresSound
    <3> QED BY <1>2, <3>1
  <2>6. PendingSound'
    <3> SUFFICES ASSUME NEW j \in 1..Len(queue'), NEW l \in queue'[j].to
                 PROVE  [event |-> queue'[j].event, listener |-> l] \notin failures
      BY <2>4 DEF PendingSound
    <3>1. CASE j \in 1..Len(queue)
      BY <1>2, <2>3, <3>1 DEF PendingSound
    <3>2. CASE j = Len(queue) + 1
      BY <2>3, <2>5, <3>2
    <3> QED BY <1>3, <2>3, <3>1, <3>2
  <2>7. emitted' >= emitted
    BY <1>2, <2>1 DEF Published
  <2> QED BY <1>2, <2>4, <2>6, <2>7, FailuresAtRest
<1>5. CASE PromptSettles \/ Abort \/ UNCHANGED vars
           \/ (\E l \in Listeners : Deliver(l) \/ Subscribe(l) \/ Unsubscribe(l))
  <2>1. UNCHANGED <<queue, failures, errors, reports, emitted, runs, run, returned, disposed>>
    BY <1>5 DEF PromptSettles, Abort, Deliver, Subscribe, Unsubscribe, vars,
                dispatcher, session, history
  <2>2. PendingSound'
    BY <1>2, <2>1 DEF PendingSound
  <2> QED BY <1>2, <2>1, <2>2, FailuresAtRest
<1>6. CASE Skip
  <2>1. queue # << >> /\ queue' = Tail(queue)
    BY <1>6 DEF Skip, NextEvent
  <2>2. UNCHANGED <<failures, errors, reports, emitted, runs, run, returned, disposed>>
    BY <1>6 DEF Skip, session, history
  <2>3. Len(queue') = Len(queue) - 1 /\ \A j \in 1..Len(queue) - 1 : queue'[j] = queue[j + 1]
    BY <1>3, <2>1, ShortenedChain
  <2>4. PendingSound'
    <3> SUFFICES ASSUME NEW j \in 1..Len(queue'), NEW l \in queue'[j].to
                 PROVE  [event |-> queue'[j].event, listener |-> l] \notin failures
      BY <2>2 DEF PendingSound
    <3>1. j + 1 \in 1..Len(queue) /\ queue'[j] = queue[j + 1]
      BY <1>3, <2>3
    <3> QED BY <1>2, <3>1 DEF PendingSound
  <2> QED BY <1>2, <2>2, <2>4, FailuresAtRest
<1>7. ASSUME NEW l \in Listeners, ListenerResolves(l) PROVE FailuresSound'
  <2>1. awaited = l /\ GoOn(l)
    BY <1>7 DEF ListenerResolves
  <2>2. UNCHANGED <<failures, errors, reports, emitted, runs, run, returned, disposed>>
    BY <1>7 DEF ListenerResolves, session
  <2>3. PendingSound'
    <3> SUFFICES ASSUME NEW j \in 1..Len(queue'), NEW m \in queue'[j].to
                 PROVE  [event |-> queue'[j].event, listener |-> m] \notin failures
      BY <2>2 DEF PendingSound
    <3>1. PICK i \in 1..Len(queue) :
            queue[i].event = queue'[j].event /\ m \in queue[i].to /\ (i = 1 => m # l)
      BY <1>7, <2>1, GoOnNarrows
    <3> QED BY <1>2, <3>1 DEF PendingSound
  <2> QED BY <1>2, <2>2, <2>3, FailuresAtRest
<1>8. ASSUME NEW l \in Listeners, ListenerRejects(l) PROVE FailuresSound'
  <2>1. PICK failure : failure = [event |-> Head(queue).event, listener |-> l]
    OBVIOUS
  <2>2. /\ awaited = l /\ GoOn(l)
        /\ errors' = errors \cup {failure} /\ failures' = failures \cup {failure}
        /\ UNCHANGED <<reports, emitted, runs, run, returned, disposed>>
    BY <1>8, <2>1 DEF ListenerRejects, session
  <2>3. /\ failure \notin failures /\ ~Reported(failure)
        /\ failure.event <= emitted /\ failure.event > returned.until
        /\ \A j \in 1..Len(queue') : \A m \in queue'[j].to :
             /\ [event |-> queue'[j].event, listener |-> m] # failure
             /\ [event |-> queue'[j].event, listener |-> m] \notin failures
    BY <1>8, <2>1, <2>2, FailureIsNew
  <2>4. \A f : Reported(f)' <=> Reported(f)
    BY <2>2 DEF Reported
  <2>5. \A f \in failures' : /\ f.event <= emitted'
                             /\ Reported(f)' \/ f.event > returned'.until
                             /\ Reported(f)' \/ f \in errors' \/ disposed'
    <3>1. \A f \in failures : /\ f.event <= emitted'
                              /\ Reported(f)' \/ f.event > returned'.until
                              /\ Reported(f)' \/ f \in errors' \/ disposed'
      BY <2>2, <2>4 DEF FailuresSound
    <3> QED BY <2>2, <2>3, <3>1
  <2>6. errors' \subseteq failures' /\ \A f \in errors' : ~Reported(f)'
    BY <2>2, <2>3, <2>4 DEF FailuresSound
  <2>7. PendingSound'
    BY <2>2, <2>3 DEF PendingSound
  <2>8. ReportedOnce' /\ \A r \in reports' :
          /\ r.run <= runs'
          /\ [event |-> r.event, listener |-> r.listener] \in failures'
          /\ run'.step # "none" \/ returned'.kind = "result" => r.run < runs'
    BY <2>2 DEF FailuresSound, ReportedOnce
  <2> QED BY <2>5, <2>6, <2>7, <2>8 DEF FailuresSound, PendingSound
<1>9. CASE StartRun
  <2>1. UNCHANGED <<queue, failures, errors, reports, emitted, disposed>>
        /\ returned'.until = returned.until /\ runs' = runs + 1
    BY <1>9 DEF StartRun, dispatcher
  <2>2. PendingSound' /\ runs' > runs
    BY <1>2, <2>1 DEF PendingSound
  <2> QED BY <1>2, <2>1, <2>2, FailuresAtRest
<1>10. CASE Settle
  <2>1. UNCHANGED <<queue, failures, errors, reports, emitted, disposed, runs, returned>>
        /\ run.step # "none"
    BY <1>10 DEF Settle, dispatcher, history
  <2>2. PendingSound'
    BY <1>2, <2>1 DEF PendingSound
  <2> QED BY <1>2, <2>1, <2>2, FailuresAtRest
<1>11. CASE EndRun
  <2>1. /\ run.step # "none" /\ ~disposed /\ TakeErrors /\ errors' = {}
        /\ UNCHANGED <<queue, emitted, disposed, runs, failures>>
    BY <1>11 DEF EndRun, SettleIsDue, TakeErrors, Typed, SessionTypeOK
  <2>2. /\ \A f \in failures : Reported(f)' <=> Reported(f) \/ f \in errors
        /\ \A r \in reports' :
             /\ r.run <= runs
             /\ [event |-> r.event, listener |-> r.listener] \in failures
        /\ errors = {} => reports' = reports
        /\ ReportedOnce'
    BY <2>1, ReportsAreNew
  <2>3. \A f \in failures : f.event <= emitted /\ Reported(f)'
    BY <2>1, <2>2 DEF FailuresSound
  <2>4. PendingSound'
    BY <1>2, <2>1 DEF PendingSound
  <2>5. ~(run'.step # "none") /\ (returned'.kind = "result" => errors = {})
    BY <1>11, EndRunReplies, ReplyIsTyped DEF Typed, SessionTypeOK
  <2>6. \A r \in reports : r.run < runs
    BY <2>1 DEF FailuresSound
  <2>7. \A r \in reports' :
          /\ r.run <= runs'
          /\ [event |-> r.event, listener |-> r.listener] \in failures'
          /\ run'.step # "none" \/ returned'.kind = "result" => r.run < runs'
    BY <2>1, <2>2, <2>5, <2>6
  <2>8. \A f \in failures' : /\ f.event <= emitted'
                             /\ Reported(f)' \/ f.event > returned'.until
                             /\ Reported(f)' \/ f \in errors' \/ disposed'
    BY <2>1, <2>3
  <2> QED BY <2>1, <2>2, <2>4, <2>7, <2>8 DEF FailuresSound, PendingSound
<1>12. CASE Dispose
  <2>1. UNCHANGED <<queue, failures, reports, emitted, runs, run, returned>>
        /\ errors' = {} /\ disposed'
    BY <1>12 DEF Dispose, history
  <2>2. \A f : Reported(f)' <=> Reported(f)
    BY <2>1 DEF Reported
  <2>3. \A f \in failures' : /\ f.event <= emitted'
                             /\ Reported(f)' \/ f.event > returned'.until
                             /\ Reported(f)' \/ f \in errors' \/ disposed'
    BY <2>1, <2>2 DEF FailuresSound
  <2>4. ReportedOnce' /\ PendingSound' /\ \A r \in reports' :
          /\ r.run <= runs'
          /\ [event |-> r.event, listener |-> r.listener] \in failures'
          /\ run'.step # "none" \/ returned'.kind = "result" => r.run < runs'
    BY <1>2, <2>1 DEF FailuresSound, ReportedOnce, PendingSound
  <2> QED BY <2>1, <2>3, <2>4 DEF FailuresSound, PendingSound
<1> QED
  BY <1>4, <1>5, <1>6, <1>7, <1>8, <1>9, <1>10, <1>11, <1>12 DEF Next, Delivery

-----------------------------------------------------------------------------
(* The theorems. *)

(* A session that is created has emitted and reported nothing.               *)
LEMMA SessionStartsSound == Init => SessionInv
<1> SUFFICES ASSUME Init PROVE SessionInv
  OBVIOUS
<1> USE DEF Init
<1>1. Len(queue) = 0
  OBVIOUS
<1>2. PromptSound
  BY DEF PromptSound, RunAnswersItsOwnEnd
<1>3. ChainSound
  <2>1. run.until = 0 /\ returned.until = 0
    OBVIOUS
  <2>2. \A j \in 1..Len(queue) : FALSE
    BY <1>1
  <2> QED BY <1>1, <2>1, <2>2 DEF ChainSound
<1>4. \A l \in Listeners : Len(owed[l]) = 0 /\ Len(got[l]) = 0
  <2>1. Len(<< >>) = 0
    OBVIOUS
  <2> QED BY <2>1
<1>5. ASSUME NEW l \in Listeners PROVE Left(l) = {} /\ Waiting(l) = {}
  <2>1. Left(l) = {}
    BY <1>4 DEF Left
  <2>2. Waiting(l) = {}
    BY <1>1 DEF Waiting
  <2> QED BY <2>1, <2>2
<1>6. DeliverySound
  <2> SUFFICES ASSUME NEW l \in Listeners
               PROVE  OwedInOrder(l) /\ CalledInOrder(l) /\ Left(l) = Waiting(l)
    BY DEF DeliverySound
  <2>1. 1..Len(owed[l]) = {} /\ 1..Len(got[l]) = {} /\ Len(got[l]) <= Len(owed[l])
    BY <1>4
  <2>2. OwedInOrder(l) /\ CalledInOrder(l)
    BY <2>1 DEF OwedInOrder, CalledInOrder
  <2> QED BY <1>5, <2>2
<1>7. FailuresSound
  BY <1>1 DEF FailuresSound, PendingSound, ReportedOnce
<1> QED BY <1>2, <1>3, <1>6, <1>7 DEF SessionInv

(* The inductive invariant: types, prompt, chain, deliveries and failures    *)
(* hold together in every reachable state of a session (publish, settle,     *)
(* run, dispose).                                                            *)
THEOREM SessionIsSound == Spec => [](Typed /\ SessionInv)
<1>1. Init => Typed /\ SessionInv
  BY StartIsTyped, SessionStartsSound
<1>2. Typed /\ SessionInv /\ [Next]_vars => (Typed /\ SessionInv)'
  BY TypesAreKept, PromptStaysSound, ChainStaysSound, DeliveryStaysSound, FailuresStaySound
  DEF SessionInv
<1> QED BY <1>1, <1>2, PTL DEF Spec

(* The session's fields have their types, a running session is not disposed  *)
(* of, and only the first event of the chain is awaited.                     *)
THEOREM SessionsAreTyped == Spec => []SessionTypeOK
<1>1. Typed /\ SessionInv => SessionTypeOK
  BY DEF Typed
<1> QED BY <1>1, SessionIsSound, PTL

(* A listener is called with the events emitted while it was subscribed, in  *)
(* their order, none left out and none twice: publish's snapshot of the      *)
(* listeners and the chain of promises keep it so.                           *)
THEOREM DeliveriesAreInOrder == Spec => []InOrder
<1>1. Typed /\ SessionInv => InOrder
  <2> SUFFICES ASSUME Typed, SessionInv, NEW l \in Listeners
               PROVE  IsPrefix(got[l], owed[l])
    BY DEF InOrder
  <2>1. CalledInOrder(l)
    BY DEF SessionInv, DeliverySound
  <2>2. owed[l] \in Seq(Events) /\ got[l] \in Seq(Events)
    BY TheHistory
  <2> QED BY <2>1, <2>2, PrefixIsPointwise DEF CalledInOrder
<1> QED BY <1>1, SessionIsSound, PTL

(* When run returns, the events before settle are delivered and whatever     *)
(* failed of them is reported, once; a run that returns a result was told of *)
(* no failure.                                                               *)
THEOREM ReturnedRunsHideNothing == Spec => []ReturnedRunHidesNothing
<1>1. Typed /\ SessionInv => ReturnedRunHidesNothing
  <2> SUFFICES ASSUME Typed, SessionInv PROVE ReturnedRunHidesNothing
    OBVIOUS
  <2> USE DEF SessionInv
  <2>1. ReportedOnce
    BY DEF FailuresSound
  <2>2. ASSUME NEW l \in Listeners, ~disposed
        PROVE  UpTo(owed[l], returned.until) \subseteq Range(got[l])
    <3>1. /\ owed[l] \in Seq(Events) /\ got[l] \in Seq(Events)
          /\ Len(owed[l]) \in Nat /\ Len(got[l]) \in Nat
          /\ \A i \in 1..Len(owed[l]) : owed[l][i] \in Nat
      BY TheHistory
    <3>2. CalledInOrder(l) /\ Left(l) = Waiting(l)
      BY <2>2 DEF DeliverySound, NothingDropped
    <3> SUFFICES ASSUME NEW e \in Range(owed[l]), e <= returned.until
                 PROVE  e \in Range(got[l])
      BY DEF UpTo
    <3>3. PICK i \in 1..Len(owed[l]) : owed[l][i] = e
      BY <3>1 DEF Range
    <3>4. ASSUME i > Len(got[l]) PROVE FALSE
      <4>1. e \in Waiting(l)
        BY <3>1, <3>2, <3>3, <3>4 DEF Left
      <4>2. PICK j \in 1..Len(queue) : queue[j].event = e
        BY <4>1 DEF Waiting
      <4>3. e > returned.until
        BY <4>2 DEF ChainSound
      <4> QED BY <3>1, <3>3, <4>3, SessionAssumption DEF Typed, HistoryTypeOK, RunReply
    <3>5. i \in 1..Len(got[l]) /\ got[l][i] = e
      BY <3>1, <3>2, <3>3, <3>4 DEF CalledInOrder
    <3> QED BY <3>1, <3>5 DEF Range
  <2>3. \A f \in failures : f.event <= returned.until => Reported(f)
    <3>1. \A f \in failures : f.event \in Nat /\ returned.until \in Nat
      BY SessionAssumption, FailureHasParts DEF Typed, HistoryTypeOK, RunReply
    <3> QED BY <3>1 DEF FailuresSound
  <2>4. ASSUME returned.kind = "result", NEW r \in reports PROVE r.run # runs
    <3>1. r.run < runs
      BY <2>4 DEF FailuresSound
    <3>2. r \in Report /\ runs \in Nat
      BY <2>4 DEF Typed, SessionTypeOK, HistoryTypeOK
    <3>3. r.run \in Nat
      BY <3>2, SessionAssumption DEF Report
    <3> QED BY <3>1, <3>2, <3>3
  <2> QED BY <2>1, <2>2, <2>3, <2>4 DEF ReturnedRunHidesNothing, Reported
<1> QED BY <1>1, SessionIsSound, PTL

(* The outcome a run returns is how the agent ended under its own prompt:    *)
(* run clears the outcome of the one before.                                 *)
THEOREM RunsAnswerTheirOwnEnd == Spec => []RunAnswersItsOwnEnd
<1>1. Typed /\ SessionInv => RunAnswersItsOwnEnd
  BY DEF SessionInv, PromptSound
<1> QED BY <1>1, SessionIsSound, PTL
=============================================================================
