--------------------------- MODULE TurnExecution ---------------------------
(***************************************************************************)
(* One turn/start call of the agent runtime, from the reservation of its   *)
(* idempotency key to its settlement: the handler turn_start_stream of     *)
(* lib.rs, the provider loop run_turn of codex_adapter.rs that calls back  *)
(* into it, and the ledger of mutation acknowledgements of                 *)
(* workbench_store.rs that lets a client repeat a call it has no answer to.*)
(*                                                                         *)
(* The Turns of one Session are executed.  session is the Session of the   *)
(* sequencer and of the journal at once: TimelineJournal shows that they   *)
(* agree between calls and after a restart.  Each step that writes is one  *)
(* transaction and the commit of the sequencer that follows it, and may be *)
(* refused by the store for any reason (what it must refuse, as the event  *)
(* numbered MaxSafe, is the journal's).                                    *)
(*                                                                         *)
(* Abstractions.  The handler serves one call at a time.  The revision of  *)
(* an acknowledgement is left out: this handler is its only writer, so the *)
(* compare-and-set of the code compares equal.  Prompts, context, traces   *)
(* and environment are left out, a trace only as present or taken.  The    *)
(* capability of durable mutation acknowledgements is negotiated.          *)
(***************************************************************************)
EXTENDS EventSequencer

CONSTANTS
  Keys,          \* idempotency keys, each of one request
  ProviderItems, \* Item identifiers the provider and its metadata use
  UserItem,      \* the Item of the user's message
  ErrorItem,     \* the Item of the error that closes a failed Turn
  Observations,  \* metadata the provider reports: [event, item, persisted]
  ThisSession, NoTurn, NoKey,
  Clock,         \* wall clock readings
  MaxCrashes     \* bound: crashes of the process

ASSUME ExecutionAssumption ==
  /\ ThisSession \in Sessions /\ NoTurn \notin Turns /\ NoKey \notin Keys
  /\ ProviderItems \cup {UserItem, ErrorItem} \subseteq Items \ Reserved
  /\ UserItem # ErrorItem /\ {UserItem, ErrorItem} \cap ProviderItems = {}
  /\ \A o \in Observations : ~IsTerminal(o.event)
  /\ Clock \subseteq 1..MaxSafe
  /\ MaxCrashes \in Nat

VARIABLES
  session,    \* the Session, in the sequencer and in the journal
  turnKey,    \* table turns: the idempotency key of a Turn
  operations, \* table mutation_acknowledgements
  backend,    \* Runtime.backend
  runtime,    \* the process: "up" or "down"
  call,       \* the locals of the handler and of run_turn
  provider,   \* the Turns the provider works on
  writing,    \* run_turn is in a write to the provider, which has not returned
  dispatched, \* history: the turn/start requests sent for a key
  emitted,    \* history: the events sent to clients, and their origin
  crashes

vars == <<session, turnKey, operations, backend, runtime, call, provider, writing,
          dispatched, emitted, crashes>>

-----------------------------------------------------------------------------
(* The state of a call.                                                    *)

Operation == [state : {"none", "accepted", "terminal", "reconciliation-required"},
              turn : Turns \cup {NoTurn}, updated : 0..MaxSafe]
NoOperation == [state |-> "none", turn |-> NoTurn, updated |-> 0]

StreamedShapes == {"message-agent", "command-tool"}
NoTerminal == [event |-> "none", now |-> 0]

(* "returned": no call.  "dispatching": turn/start was sent.  "greeting":  *)
(* the start of the Turn is durable, its answer not sent.  "streaming":    *)
(* the loop of run_turn.  "settling": run_turn has returned.               *)
Call == [phase : {"returned", "dispatching", "greeting", "streaming", "settling"},
         key : Keys \cup {NoKey},
         turn : Turns \cup {NoTurn},         \* started_turn_id
         providerTurn : Turns \cup {NoTurn}, \* turn_id of run_turn
         items : [StreamedShapes -> [ProviderItems -> {"absent", "open", "done"}]],
         error : {"none", "persistence", "violation", "fatal"},
         trace : BOOLEAN,                    \* the trace accumulator is there
         pending : [event : {"none"} \cup DOMAIN TerminalPhase, now : 0..MaxSafe],
         result : {"ok", "failed"},
         answer : {"none", "started", "terminal", "error"}]

NoCall == [phase |-> "returned", key |-> NoKey, turn |-> NoTurn, providerTurn |-> NoTurn,
           items |-> [s \in StreamedShapes |-> [i \in ProviderItems |-> "absent"]],
           error |-> "none", trace |-> FALSE, pending |-> NoTerminal,
           result |-> "ok", answer |-> "none"]

Init ==
  /\ session = EmptySession
  /\ turnKey = [t \in Turns |-> NoKey]
  /\ operations = [k \in Keys |-> NoOperation]
  /\ backend = "codex" /\ runtime = "up"
  /\ call = NoCall
  /\ provider = {} /\ writing = FALSE
  /\ dispatched = [k \in Keys |-> 0]
  /\ emitted = {}
  /\ crashes = 0

Ledger == <<turnKey, operations>>
Process == <<backend, runtime, writing, crashes>>

(* The events of a Turn as the sequencer would have them now.              *)
NextEvent(t, event, item, now) == Prepare(ThisSession, session, t, event, item, now)
Item(id, shape, state) == [id |-> id, shape |-> shape, state |-> state]
Sent(envelope, origin) ==
  [turn |-> envelope.turn, event |-> envelope.event, item |-> envelope.item.id,
   origin |-> origin]
Emit(events) == emitted' = emitted \cup events

Answered(answer) == [call EXCEPT !.phase = "returned", !.answer = answer]

(* shutdown: the process ends, and the child process of the adapter.       *)
Stop ==
  /\ runtime' = "down"
  /\ call' = NoCall
  /\ provider' = {} /\ writing' = FALSE
  /\ UNCHANGED <<backend, crashes, dispatched>>

-----------------------------------------------------------------------------
(* The reservation of the key.                                             *)

(* The answer to a key that is known: the arms of turn_start_stream.  An   *)
(* acceptance that never got a Turn is marked first, and so not answered.  *)
(* Faulty variant: an uncertain Turn is taken for one that has ended.      *)
AnswerByTurn(operation) == IF operation.turn # NoTurn THEN "terminal" ELSE "error"
AnswerOf(operation) ==
  CASE operation.state = "terminal"                             -> "terminal"
    [] operation.state = "accepted" /\ operation.turn # NoTurn  -> "started"
    [] OTHER                                                    -> "error"

Marked(operation) ==
  IF operation.state = "accepted" /\ operation.turn = NoTurn
  THEN [operation EXCEPT !.state = "reconciliation-required"] ELSE operation

(* Refused before or by the reservation: no backend, or the store fails.   *)
Refused(k) ==
  /\ runtime = "up" /\ call.phase = "returned"
  /\ call' = [NoCall EXCEPT !.key = k, !.answer = "error"]
  /\ UNCHANGED <<session, Ledger, Process, provider, dispatched, emitted>>

Repeat(k) ==
  /\ runtime = "up" /\ call.phase = "returned"
  /\ backend = "codex" /\ operations[k].state # "none"
  /\ operations' = [operations EXCEPT ![k] = Marked(@)]
  /\ call' = [NoCall EXCEPT !.key = k, !.answer = AnswerOf(operations[k])]
  /\ UNCHANGED <<session, turnKey, Process, provider, dispatched, emitted>>

(* The reserved request is dispatched: run_turn writes turn/start.         *)
Reserve(k, now) ==
  /\ runtime = "up" /\ call.phase = "returned"
  /\ backend = "codex" /\ operations[k].state = "none"
  /\ operations' = [operations EXCEPT ![k].state = "accepted", ![k].updated = now]
  /\ dispatched' = [dispatched EXCEPT ![k] = @ + 1]
  /\ call' = [NoCall EXCEPT !.phase = "dispatching", !.key = k]
  /\ writing' = TRUE
  /\ UNCHANGED <<session, turnKey, backend, runtime, crashes, provider, emitted>>

-----------------------------------------------------------------------------
(* The provider's standard input is a pipe, and the thread of run_turn     *)
(* writes to it itself, without a deadline (write_codex_message): while a  *)
(* write has not returned, it takes no message and reads no clock.         *)
Loops == runtime = "up" /\ ~writing

(* turn/interrupt, turn/steer, or the answer to a request of the provider. *)
WriteBegins ==
  /\ Loops /\ call.phase \in {"dispatching", "streaming"}
  /\ writing' = TRUE
  /\ UNCHANGED <<session, Ledger, backend, runtime, crashes, call, provider,
                 dispatched, emitted>>

(* The write has succeeded or failed; a failure ends run_turn.             *)
WriteReturns ==
  /\ runtime = "up" /\ writing
  /\ writing' = FALSE
  /\ UNCHANGED <<session, Ledger, backend, runtime, crashes, call, provider,
                 dispatched, emitted>>

-----------------------------------------------------------------------------
(* run_turn calls back.  Once an error is set the callback ignores every   *)
(* event; the adapter, asked to interrupt the Turn, loops until it ends.   *)

(* TurnStarted: the Turn, its event and the binding of the operation are   *)
(* one transaction (persist_turn_with_timeline).                           *)
CanCreate(t, prepared) ==
  /\ prepared.outcome = "ok"
  /\ turnKey[t] = NoKey
  /\ \A other \in Turns : turnKey[other] # call.key
  /\ prepared.envelope.timestamp >= operations[call.key].updated

Greeting(t) == [call EXCEPT !.phase = "greeting", !.turn = t, !.providerTurn = t, !.trace = TRUE]

TurnStarted(t, now) ==
  LET prepared == NextEvent(t, "turn.started", NoItem, now)
  IN  /\ Loops /\ call.phase = "dispatching"
      /\ session.turns[t].phase = "absent" /\ t \notin provider
      /\ provider' = provider \cup {t}
      /\ \/ /\ CanCreate(t, prepared)
            /\ session' = prepared.session
            /\ turnKey' = [turnKey EXCEPT ![t] = call.key]
            /\ operations' = [operations EXCEPT ![call.key].turn = t,
                                ![call.key].updated = prepared.envelope.timestamp]
            /\ call' = Greeting(t)
         \/ /\ call' = [call EXCEPT !.phase = "streaming", !.providerTurn = t,
                                    !.error = "persistence"]
            /\ UNCHANGED <<session, Ledger>>
      /\ UNCHANGED <<Process, dispatched, emitted>>

(* The user's message, and only then the answer and the start of the Turn: *)
(* the answer can fail after the message is durable.                       *)
Greet(now) ==
  LET prepared == NextEvent(call.turn, "item.completed",
                        Item(UserItem, "message-user", "completed"), now)
  IN  /\ runtime = "up" /\ call.phase = "greeting"
      /\ \/ /\ prepared.outcome = "ok"
            /\ session' = prepared.session
            /\ call' = [call EXCEPT !.phase = "streaming", !.answer = "started"]
            /\ Emit({Sent(session.lastEvent, call.turn), Sent(prepared.envelope, call.turn)})
         \/ /\ prepared.outcome = "ok"
            /\ session' = prepared.session
            /\ call' = [call EXCEPT !.phase = "streaming", !.error = "persistence"]
            /\ UNCHANGED emitted
         \/ /\ call' = [call EXCEPT !.phase = "streaming", !.error = "persistence"]
            /\ UNCHANGED <<session, emitted>>
      /\ UNCHANGED <<Ledger, Process, provider, dispatched>>

Listening == Loops /\ call.phase = "streaming" /\ call.error = "none"

(* Why an event was not taken.  The outcome of prepare tells a refusal of  *)
(* the sequencer; an event it accepts can still fail in the store, which   *)
(* Runtime::event reports as a rejection, persist_item_* as persistence.   *)
StreamingError(prepared) == IF prepared.outcome = "violation" THEN "violation" ELSE "fatal"
PersistingError(prepared) == "persistence"
CommandError(prepared) ==
  IF prepared.outcome = "ok" THEN "persistence" ELSE StreamingError(prepared)

(* One event of the provider: taken and sent, or refused.                  *)
Deliver(prepared, origin, items, error) ==
  /\ \/ /\ prepared.outcome = "ok"
        /\ session' = prepared.session
        /\ call' = [call EXCEPT !.items = items]
        /\ Emit({Sent(prepared.envelope, origin)})
     \/ /\ call' = [call EXCEPT !.items = items, !.error = error]
        /\ UNCHANGED <<session, emitted>>
  /\ UNCHANGED <<Ledger, Process, provider, dispatched>>

(* run_turn keeps the Items of each shape in a map of its own, and returns *)
(* an error when the provider departs from their order (AdapterFails).     *)
(* Command notifications name their Turn; those of agent messages are only *)
(* matched by thread, and origin is the Turn they really belong to.        *)
Origins(shape) == IF shape = "message-agent" THEN provider ELSE provider \cap {call.turn}
Moved(shape, i, phase) == [call.items EXCEPT ![shape][i] = phase]

ItemStarted(shape, i, origin, now) ==
  LET prepared == NextEvent(call.turn, "item.started", Item(i, shape, "started"), now)
  IN  /\ Listening /\ origin \in Origins(shape)
      /\ call.items[shape][i] = "absent"
      /\ Deliver(prepared, origin, Moved(shape, i, "open"), StreamingError(prepared))

ItemDelta(shape, i, origin, now) ==
  LET prepared == NextEvent(call.turn, "item.delta", Item(i, shape, "delta"), now)
  IN  /\ Listening /\ origin \in Origins(shape)
      /\ call.items[shape][i] = "open"
      /\ Deliver(prepared, origin, call.items, StreamingError(prepared))

ItemCompleted(shape, i, origin, now) ==
  LET prepared == NextEvent(call.turn, "item.completed", Item(i, shape, "completed"), now)
  IN  /\ Listening /\ origin \in Origins(shape)
      /\ call.items[shape][i] = "open"
      /\ Deliver(prepared, origin, Moved(shape, i, "done"),
                 IF shape = "command-tool" THEN CommandError(prepared)
                 ELSE PersistingError(prepared))

(* Usage, diff, plan, diagnostics, file change proposals, steering and     *)
(* cancellation: each Item has an identifier of its own, if it has one.    *)
Observe(o, i, now) ==
  LET item == IF o.item = NoItem THEN NoItem ELSE [o.item EXCEPT !.id = i]
      prepared == NextEvent(call.turn, o.event, item, now)
  IN  /\ Listening /\ call.turn \in provider
      /\ session.turns[call.turn].items[i].phase = "absent"
      /\ Deliver(prepared, call.turn, call.items,
                 IF o.persisted THEN PersistingError(prepared) ELSE StreamingError(prepared))

-----------------------------------------------------------------------------
(* The end of the Turn.                                                    *)

TerminalItem(event) ==
  IF event = "turn.failed" THEN Item(ErrorItem, "error-system", "completed") ELSE NoItem

(* persist_turn_state_with_trace_and_timeline: the Turn, its event and the *)
(* operation end in one transaction.                                       *)
Persist(prepared) ==
  /\ prepared.outcome = "ok"
  /\ session' = prepared.session
  /\ operations' = [operations EXCEPT ![call.key].state = "terminal",
                                      ![call.key].updated = prepared.envelope.timestamp]
  /\ Emit({Sent(prepared.envelope, call.turn)})
  /\ UNCHANGED turnKey
NotPersisted == UNCHANGED <<session, Ledger, emitted>>

ItemsAreDone(items) ==
  \A s \in StreamedShapes : \A i \in ProviderItems : items[s][i] # "open"

(* turn/completed, with its status.  Only a completed or interrupted Turn  *)
(* is preflighted.  The trace is taken before the attempt to persist, and  *)
(* the attempt is kept until it succeeds; a trace that cannot be finalized *)
(* leaves no attempt behind.                                               *)
Ended == [call EXCEPT !.phase = "settling"]
Pending(event, now) == [Ended EXCEPT !.trace = FALSE, !.pending = [event |-> event, now |-> now]]

TurnEnds(event, now) ==
  LET prepared == NextEvent(call.turn, event, TerminalItem(event), now)
      preflightFails == event # "turn.failed" /\ prepared.outcome # "ok"
  IN  /\ Listening /\ call.turn \in provider /\ ItemsAreDone(call.items)
      /\ provider' = provider \ {call.turn}
      /\ \/ /\ preflightFails
            /\ call' = [Ended EXCEPT !.error = StreamingError(prepared)]
            /\ NotPersisted
         \/ /\ ~preflightFails
            /\ Persist(prepared)
            /\ call' = [Ended EXCEPT !.trace = FALSE]
         \/ /\ ~preflightFails
            /\ call' = [Pending(event, now) EXCEPT !.error = "persistence"]
            /\ NotPersisted
         \/ /\ ~preflightFails
            /\ call' = [Ended EXCEPT !.error = "persistence"]
            /\ NotPersisted
      /\ UNCHANGED <<Process, dispatched>>

(* The same notification when the callback no longer listens.              *)
TurnEndsUnheard ==
  /\ Loops /\ call.phase = "streaming" /\ call.error # "none"
  /\ call.providerTurn \in provider
  /\ provider' = provider \ {call.providerTurn}
  /\ call' = Ended
  /\ UNCHANGED <<session, Ledger, Process, dispatched, emitted>>

(* turn/completed of a Turn that an earlier call gave up is an error.      *)
AnotherTurnEnds(other) ==
  /\ Loops /\ call.phase = "streaming"
  /\ other \in provider \ {call.providerTurn}
  /\ provider' = provider \ {other}
  /\ call' = [Ended EXCEPT !.result = "failed"]
  /\ UNCHANGED <<session, Ledger, Process, dispatched, emitted>>

(* run_turn returns an error: REQUEST_TIMEOUT, TURN_TIMEOUT, the transport, *)
(* a refusal, a notification out of order.  The provider may work on, on a *)
(* Turn this side never heard of if turn/start was not answered.  A failed *)
(* response channel requires a restart, and the adapter is dropped.        *)
(* Faulty variant: no deadline while the interruption of a Turn is awaited. *)
AdapterFailsUnlessInterrupting(restart, unheard) ==
  /\ Loops /\ call.phase \in {"dispatching", "streaming"} /\ call.error = "none"
  /\ call' = [Ended EXCEPT !.result = "failed"]
  /\ backend' = IF restart THEN "unavailable" ELSE backend
  /\ provider' = IF restart THEN {} ELSE provider \cup unheard
  /\ UNCHANGED <<session, Ledger, runtime, writing, crashes, dispatched, emitted>>
AdapterFails(restart, unheard) ==
  /\ Loops /\ call.phase \in {"dispatching", "streaming"}
  /\ call' = [Ended EXCEPT !.result = "failed"]
  /\ backend' = IF restart THEN "unavailable" ELSE backend
  /\ provider' = IF restart THEN {} ELSE provider \cup unheard
  /\ UNCHANGED <<session, Ledger, runtime, writing, crashes, dispatched, emitted>>

Unheard == {{}} \cup {{t} : t \in {t \in Turns : /\ call.phase = "dispatching"
                                                 /\ session.turns[t].phase = "absent"}}

-----------------------------------------------------------------------------
(* turn_start_stream after run_turn.                                       *)

Settling == runtime = "up" /\ call.phase = "settling"
Started == call.turn # NoTurn

(* mark_turn_mutation_reconciliation_required.  Faulty variant: the key is *)
(* released, for the client to try again.                                  *)
Release(now) ==
  /\ now >= operations[call.key].updated
  /\ operations' = [operations EXCEPT ![call.key] = NoOperation]
Mark(now) ==
  /\ now >= operations[call.key].updated
  /\ operations' = [operations EXCEPT ![call.key].state = "reconciliation-required",
                                      ![call.key].updated = now]

(* The sequencer or its journal cannot be trusted: the runtime gives up.   *)
(* Whether the mark succeeds is ignored.                                   *)
GiveUp(now) ==
  /\ Settling /\ call.error = "fatal"
  /\ Mark(now) \/ UNCHANGED operations
  /\ Stop
  /\ UNCHANGED <<session, turnKey, emitted>>

(* The one retry of a terminal event that was not persisted.               *)
RetryTerminal ==
  LET event == call.pending.event
      prepared == NextEvent(call.turn, event, TerminalItem(event), call.pending.now)
  IN  /\ Settling /\ call.pending # NoTerminal
      /\ \/ /\ Persist(prepared)
            /\ call' = [Answered(call.answer) EXCEPT !.error = "none", !.pending = NoTerminal]
            /\ UNCHANGED <<Process, provider, dispatched>>
         \/ NotPersisted /\ Stop

(* A Turn that did not end is failed by the runtime, whose error Item may  *)
(* leave other Items open, or the runtime stops.                           *)
NeedsFailure ==
  /\ Started /\ call.pending = NoTerminal
  /\ call.error # "fatal"
  /\ call.error # "none" \/ call.result = "failed"

CloseTurn(now) ==
  LET prepared == NextEvent(call.turn, "turn.failed", TerminalItem("turn.failed"), now)
  IN  /\ Settling /\ NeedsFailure
      /\ \/ /\ call.trace
            /\ Persist(prepared)
            /\ call' = [Answered(call.answer) EXCEPT !.trace = FALSE]
            /\ UNCHANGED <<Process, provider, dispatched>>
         \/ NotPersisted /\ Stop

(* No Turn started: whether the provider did anything is not known.        *)
Abandon(now) ==
  /\ Settling /\ ~Started
  /\ \/ /\ Mark(now)
        /\ call' = Answered("error")
        /\ UNCHANGED <<Process, provider, dispatched>>
     \/ UNCHANGED operations /\ Stop
  /\ UNCHANGED <<session, turnKey, emitted>>

(* Faulty variant: what the sequencer refused does not fail the Turn.      *)
SucceededByProvider == Started /\ call.result = "ok"
Succeeded == Started /\ call.error = "none" /\ call.result = "ok"

Finish ==
  /\ Settling /\ Succeeded
  /\ call' = Answered(call.answer)
  /\ UNCHANGED <<session, Ledger, Process, provider, dispatched, emitted>>

-----------------------------------------------------------------------------
(* The process.                                                            *)

Crash ==
  /\ runtime = "up" /\ crashes < MaxCrashes
  /\ crashes' = crashes + 1
  /\ runtime' = "down"
  /\ call' = NoCall
  /\ provider' = {} /\ writing' = FALSE
  /\ UNCHANGED <<session, Ledger, backend, dispatched, emitted>>

(* The store is opened: acceptances of the former process are uncertain    *)
(* (mark_open_accepted_mutations_reconciliation_required).                 *)
(* Faulty variant: they are left as they are.                              *)
RestartUnmarked ==
  /\ runtime = "down"
  /\ runtime' = "up" /\ backend' = "codex"
  /\ UNCHANGED <<session, Ledger, call, provider, writing, dispatched, emitted, crashes>>
Restart ==
  /\ runtime = "down"
  /\ runtime' = "up" /\ backend' = "codex"
  /\ operations' = [k \in Keys |->
       IF operations[k].state = "accepted"
       THEN [operations[k] EXCEPT !.state = "reconciliation-required"] ELSE operations[k]]
  /\ UNCHANGED <<session, turnKey, call, provider, writing, dispatched, emitted, crashes>>

Request == \E k \in Keys : Refused(k) \/ Repeat(k) \/ \E now \in Clock : Reserve(k, now)

Stream ==
  \E now \in Clock :
     \/ \E t \in Turns : TurnStarted(t, now)
     \/ Greet(now)
     \/ \E s \in StreamedShapes, i \in ProviderItems, origin \in Turns :
           \/ ItemStarted(s, i, origin, now)
           \/ ItemDelta(s, i, origin, now)
           \/ ItemCompleted(s, i, origin, now)
     \/ \E o \in Observations, i \in ProviderItems : Observe(o, i, now)
     \/ \E event \in DOMAIN TerminalPhase : TurnEnds(event, now)

Settle ==
  \/ \E now \in Clock : GiveUp(now) \/ CloseTurn(now) \/ Abandon(now)
  \/ RetryTerminal
  \/ Finish

Next ==
  \/ Request
  \/ WriteBegins
  \/ WriteReturns
  \/ Stream
  \/ TurnEndsUnheard
  \/ \E other \in Turns : AnotherTurnEnds(other)
  \/ \E restart \in BOOLEAN, unheard \in Unheard : AdapterFails(restart, unheard)
  \/ Settle
  \/ Crash
  \/ Restart

Spec == Init /\ [][Next]_vars

(* The handler runs on until it returns: the answer to the start and the   *)
(* settlement are its own steps.  run_turn reads its deadline once in each *)
(* round of its loop, between writes, and so again and again as long as    *)
(* its writes return: a step that other steps may interrupt for a while.   *)
(* Nothing is asked of the provider (so a write may never return), of the  *)
(* store or of the client.                                                 *)
HandlerSteps == Settle \/ \E now \in Clock : Greet(now)
Deadline == \E restart \in BOOLEAN, unheard \in Unheard : AdapterFails(restart, unheard)

FairSpec == Spec /\ WF_vars(HandlerSteps) /\ SF_vars(Deadline)
=============================================================================
