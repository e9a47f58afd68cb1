---------------------------- MODULE RuntimeSession ----------------------------
(***************************************************************************)
(* One Agent session (packages/runtime-pi/src/pi-runtime-session.ts) and   *)
(* the delivery of its events (runtime-event-dispatcher.ts).               *)
(*                                                                         *)
(* Everything runs on one event loop: a step is what happens between two   *)
(* awaits.  Pi, which emits the events, and the listeners, whose promises  *)
(* take their time, are the environment; so is whoever calls run, abort,   *)
(* subscribe and dispose, in any order.                                    *)
(***************************************************************************)
EXTENDS Integers, Sequences, SequencesExt

CONSTANTS
  Listeners,
  Outcomes,    \* of an agent, as mapPiEvent classifies them
  MaxEvents,   \* bound: events Pi emits
  MaxRuns,     \* bound: calls of run
  Nil

VARIABLES
  listeners,   \* the subscribed ones
  queue,       \* the delivery chain: events not yet delivered, and to whom
  awaited,     \* the listener whose promise the first of them awaits
  errors,      \* failures not yet reported
  disposed,    \* disposed, and the dispatcher closed
  runResult,   \* the last terminal outcome seen
  pi,          \* what prompt does
  run,         \* the call of run in progress
  emitted,     \* events so far
  runs,        \* calls of run so far
  owed,        \* history: events emitted while a listener was subscribed
  got,         \* history: events a listener was called with
  failures,    \* history: deliveries that failed
  reports,     \* history: failures a run was rejected with
  ended,       \* history: the last terminal outcome of the prompt
  returned     \* history: what run returned last

dispatcher == <<listeners, queue, awaited, errors>>
session == <<disposed, runResult, run, runs>>
history == <<owed, got, failures, reports, ended, returned>>
vars == <<dispatcher, session, pi, emitted, history>>

ASSUME SessionAssumption ==
  /\ MaxEvents \in Nat /\ MaxRuns \in Nat
  /\ Nil \notin Listeners \cup Outcomes

-----------------------------------------------------------------------------

Events == 1..MaxEvents

Failure == [event: Events, listener: Listeners]

Run == [step: {"none", "prompt", "settle"}, until: 0..MaxEvents, failed: BOOLEAN]

(* The session's fields have their types.  A running session is not disposed *)
(* of, and only the first event of the chain is being delivered.             *)
SessionTypeOK ==
  /\ listeners \subseteq Listeners
  /\ queue \in Seq([event: Events, to: SUBSET Listeners])
  /\ awaited \in Listeners \cup {Nil}
  /\ errors \subseteq Failure
  /\ disposed \in BOOLEAN
  /\ runResult \in Outcomes \cup {Nil}
  /\ pi \in {"idle", "prompting", "aborting", "resolved", "rejected"}
  /\ run \in Run
  /\ emitted \in 0..MaxEvents /\ runs \in 0..MaxRuns
  /\ run.step # "none" => ~disposed
  /\ awaited # Nil => queue # << >>

Init ==
  /\ listeners = {} /\ queue = << >> /\ awaited = Nil /\ errors = {}
  /\ disposed = FALSE /\ runResult = Nil
  /\ pi = "idle"
  /\ run = [step |-> "none", until |-> 0, failed |-> FALSE]
  /\ emitted = 0 /\ runs = 0
  /\ owed = [l \in Listeners |-> << >>] /\ got = [l \in Listeners |-> << >>]
  /\ failures = {} /\ reports = {}
  /\ ended = Nil /\ returned = [kind |-> "none", outcome |-> Nil, until |-> 0]

-----------------------------------------------------------------------------
(* Pi. *)

(* publish: the listeners of an event are those subscribed when it is emitted.*)
Publish ==
  /\ emitted < MaxEvents
  /\ emitted' = emitted + 1
  /\ queue' = Append(queue, [event |-> emitted + 1, to |-> listeners])
  /\ owed' = [l \in Listeners |->
                IF l \in listeners THEN Append(owed[l], emitted + 1) ELSE owed[l]]

(* Any event but the end of the agent, a retried end among them.             *)
EmitOther ==
  /\ ~disposed
  /\ Publish
  /\ UNCHANGED <<listeners, awaited, errors, session, pi, got, failures, reports,
                 ended, returned>>

(* The agent ends, and does so only while it is prompted.                    *)
EmitEnded ==
  /\ pi \in {"prompting", "aborting"}
  /\ Publish
  /\ \E outcome \in Outcomes : runResult' = outcome /\ ended' = outcome
  /\ UNCHANGED <<listeners, awaited, errors, disposed, run, runs, pi, got,
                 failures, reports, returned>>

PromptSettles ==
  /\ pi \in {"prompting", "aborting"}
  /\ pi' \in {"resolved", "rejected"}
  /\ UNCHANGED <<dispatcher, session, emitted, history>>

-----------------------------------------------------------------------------
(* The dispatcher.  The event before which settle was called is behind it;   *)
(* its continuation runs before the next event is begun.                     *)

SettleIsDue ==
  /\ run.step = "settle"
  /\ \A i \in DOMAIN queue : queue[i].event > run.until

NextEvent == queue # << >> /\ awaited = Nil /\ ~SettleIsDue

(* A closed dispatcher begins no event; one it has begun it finishes.        *)
Skip ==
  /\ NextEvent /\ (disposed \/ Head(queue).to = {})
  /\ queue' = Tail(queue)
  /\ UNCHANGED <<listeners, awaited, errors, session, pi, emitted, history>>

CallListener(l) ==
  /\ awaited' = l
  /\ got' = [got EXCEPT ![l] = Append(@, Head(queue).event)]

(* Mutant: the listeners are looked up when the event is delivered.          *)
DeliverToPresent(l) ==
  /\ NextEvent /\ ~disposed
  /\ l \in listeners
  /\ CallListener(l)
  /\ UNCHANGED <<listeners, queue, errors, session, pi, emitted, owed, failures,
                 reports, ended, returned>>

Deliver(l) ==
  /\ NextEvent /\ ~disposed
  /\ l \in Head(queue).to
  /\ CallListener(l)
  /\ UNCHANGED <<listeners, queue, errors, session, pi, emitted, owed, failures,
                 reports, ended, returned>>

(* The awaited listener is done with the event; the next one is called.      *)
GoOn(l) ==
  LET left == Head(queue).to \ {l}
  IN  IF left = {}
      THEN /\ queue' = Tail(queue)
           /\ awaited' = Nil
           /\ UNCHANGED got
      ELSE /\ queue' = [queue EXCEPT ![1].to = left]
           /\ \E next \in left : CallListener(next)

ListenerResolves(l) ==
  /\ awaited = l
  /\ GoOn(l)
  /\ UNCHANGED <<listeners, errors, session, pi, emitted, owed, failures, reports,
                 ended, returned>>

ListenerRejects(l) ==
  LET failure == [event |-> Head(queue).event, listener |-> l]
  IN  /\ awaited = l
      /\ errors' = errors \cup {failure}
      /\ failures' = failures \cup {failure}
      /\ GoOn(l)
      /\ UNCHANGED <<listeners, session, pi, emitted, owed, reports, ended, returned>>

-----------------------------------------------------------------------------
(* run. *)

(* Mutant: the result of the previous run is kept.                           *)
StartRunWithResult ==
  /\ runs < MaxRuns
  /\ ~disposed /\ run.step = "none"
  /\ runs' = runs + 1
  /\ run' = [step |-> "prompt", until |-> 0, failed |-> FALSE]
  /\ pi' = "prompting"
  /\ ended' = Nil
  /\ returned' = [kind |-> "none", outcome |-> Nil, until |-> returned.until]
  /\ UNCHANGED <<dispatcher, disposed, runResult, emitted, owed, got, failures, reports>>

StartRun ==
  /\ runs < MaxRuns
  /\ ~disposed /\ run.step = "none"
  /\ runs' = runs + 1
  /\ run' = [step |-> "prompt", until |-> 0, failed |-> FALSE]
  /\ runResult' = Nil
  /\ pi' = "prompting"
  /\ ended' = Nil
  /\ returned' = [kind |-> "none", outcome |-> Nil, until |-> returned.until]
  /\ UNCHANGED <<dispatcher, disposed, emitted, owed, got, failures, reports>>

(* prompt has settled: settle awaits the chain as it is now.                 *)
Settle ==
  /\ run.step = "prompt"
  /\ pi \in {"resolved", "rejected"}
  /\ run' = [step |-> "settle", until |-> emitted, failed |-> pi = "rejected"]
  /\ pi' = "idle"
  /\ UNCHANGED <<dispatcher, disposed, runResult, runs, emitted, history>>

Reply(kind, outcome) ==
  /\ run' = [run EXCEPT !.step = "none"]
  /\ returned' = [kind |-> kind, outcome |-> outcome, until |-> run.until]

(* Mutant: settle hands out the errors and keeps them.                       *)
CopyErrors ==
  /\ UNCHANGED errors
  /\ reports' = reports \cup
       {[run |-> runs, event |-> f.event, listener |-> f.listener] : f \in errors}

(* settle takes the errors out of the dispatcher.                            *)
TakeErrors ==
  /\ errors' = {}
  /\ reports' = reports \cup
       {[run |-> runs, event |-> f.event, listener |-> f.listener] : f \in errors}

(* Mutant: a run that throws stays running.                                  *)
EndRunUnlessItThrows ==
  /\ SettleIsDue
  /\ ~run.failed /\ errors = {} /\ runResult # Nil
  /\ TakeErrors
  /\ Reply("result", runResult)
  /\ UNCHANGED <<listeners, queue, awaited, disposed, runResult, runs, pi, emitted,
                 owed, got, failures, ended>>

EndRun ==
  /\ SettleIsDue
  /\ TakeErrors
  /\ IF run.failed \/ errors # {} \/ runResult = Nil
     THEN Reply("rejected", Nil)
     ELSE Reply("result", runResult)
  /\ UNCHANGED <<listeners, queue, awaited, disposed, runResult, runs, pi, emitted,
                 owed, got, failures, ended>>

-----------------------------------------------------------------------------
(* Callers. *)

Abort ==
  /\ ~disposed
  /\ pi = "prompting"
  /\ pi' = "aborting"
  /\ UNCHANGED <<dispatcher, session, emitted, history>>

Subscribe(l) ==
  /\ ~disposed
  /\ l \notin listeners
  /\ listeners' = listeners \cup {l}
  /\ UNCHANGED <<queue, awaited, errors, session, pi, emitted, history>>

(* What it is owed already it will still get.                                *)
Unsubscribe(l) ==
  /\ l \in listeners
  /\ listeners' = listeners \ {l}
  /\ UNCHANGED <<queue, awaited, errors, session, pi, emitted, history>>

(* Mutant: a running session is disposed of.                                 *)
DisposeAnyway ==
  /\ ~disposed
  /\ disposed' = TRUE
  /\ listeners' = {} /\ errors' = {}
  /\ UNCHANGED <<queue, awaited, runResult, run, runs, pi, emitted, history>>

(* Refused while a run is in progress.                                       *)
Dispose ==
  /\ ~disposed /\ run.step = "none"
  /\ disposed' = TRUE
  /\ listeners' = {} /\ errors' = {}
  /\ UNCHANGED <<queue, awaited, runResult, run, runs, pi, emitted, history>>

-----------------------------------------------------------------------------

Delivery ==
  \/ Skip
  \/ \E l \in Listeners : Deliver(l) \/ ListenerResolves(l) \/ ListenerRejects(l)

Next ==
  \/ EmitOther \/ EmitEnded \/ PromptSettles
  \/ Delivery
  \/ StartRun \/ Settle \/ EndRun
  \/ Abort \/ Dispose
  \/ \E l \in Listeners : Subscribe(l) \/ Unsubscribe(l)

Spec == Init /\ [][Next]_vars

(* The event loop takes up what is due; a listener's promise settles; the     *)
(* caller's timer aborts, and an aborted prompt settles (runRuntime in        *)
(* packages/integration/src/role-execution-coordinator.ts counts on both).   *)
FairSpec ==
  /\ Spec
  /\ WF_vars(Delivery) /\ WF_vars(Settle) /\ WF_vars(EndRun)
  /\ WF_vars(Abort)
  /\ WF_vars(pi = "aborting" /\ PromptSettles)

-----------------------------------------------------------------------------
(* Properties. *)

(* A listener is called with the events emitted while it was subscribed, in  *)
(* their order, none left out and none twice, although it may have           *)
(* unsubscribed meanwhile and others fail.                                   *)
InOrder == \A l \in Listeners : IsPrefix(got[l], owed[l])

ReportedOnce ==
  \A r, s \in reports :
    r.event = s.event /\ r.listener = s.listener => r.run = s.run

UpTo(events, until) == {e \in Range(events) : e <= until}

(* When run returns, the events of its prompt are delivered, whatever failed *)
(* has been reported to the caller of one run and not of a later one too, and *)
(* a run that returns a result was told of no failure.                       *)
ReturnedRunHidesNothing ==
  /\ ReportedOnce
  /\ returned.kind # "none" =>
    /\ \A l \in Listeners : disposed \/ UpTo(owed[l], returned.until) \subseteq Range(got[l])
    /\ \A f \in failures : f.event <= returned.until =>
         \E r \in reports : r.event = f.event /\ r.listener = f.listener
    /\ returned.kind = "result" => \A r \in reports : r.run # runs

(* The outcome a run returns is how the agent ended under its own prompt,    *)
(* never the outcome of an earlier prompt.                                   *)
RunAnswersItsOwnEnd ==
  returned.kind = "result" => returned.outcome = ended /\ ended # Nil

(* A call of run returns, and its session can be disposed of, although       *)
(* listeners fail and events keep coming.                                    *)
EveryRunReturns == run.step # "none" ~> run.step = "none"
=============================================================================
