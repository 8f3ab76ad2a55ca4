------------------------ MODULE TurnExecution_proofs ------------------------
(***************************************************************************)
(* The safety properties of a turn/start call, for any number of Turns,    *)
(* keys, Items, observations and crashes.                                  *)
(*                                                                         *)
(* One fact carries them: while a call is under way its key is the only    *)
(* one that is accepted, and unless its end is durable already its Turn is *)
(* running.  The Turn of every other key stands still.                     *)
(*                                                                         *)
(* At the end: the identities a call allocates (IdentityAllocation).       *)
(***************************************************************************)
EXTENDS TurnExecutionProps, EventSequencer_proofs, IdentityAllocation, FiniteSetTheorems

HasEnded(t) == session.turns[t].phase \in TerminalPhases

(* The end of a Turn is durable, and a client has seen it.                 *)
IsOver(t) == HasEnded(t) /\ \E e \in emitted : e.turn = t /\ IsTerminal(e.event)

(* run_turn has returned, and nothing is left to do.                       *)
Settled ==
  /\ call.phase = "settling" /\ call.turn # NoTurn
  /\ call.error = "none" /\ call.result = "ok"

LedgerFits ==
  /\ turnKey \in [Turns -> Keys \cup {NoKey}] /\ operations \in [Keys -> Operation]
  /\ dispatched \in [Keys -> Nat]
  /\ \A k \in Keys :
       /\ operations[k].turn # NoTurn => turnKey[operations[k].turn] = k
       /\ operations[k].state = "terminal" <=>
            operations[k].turn # NoTurn /\ HasEnded(operations[k].turn)
       /\ operations[k].state = "none" => operations[k].turn = NoTurn /\ dispatched[k] = 0
       /\ dispatched[k] <= 1

OnlyCallIsAccepted ==
  runtime = "up" =>
    \A k \in Keys : operations[k].state = "accepted" => call.phase # "returned" /\ call.key = k

EmittedFits ==
  /\ \A e \in emitted : e.turn \in Turns /\ e.origin \in Turns /\ e.event \in SentEvents
  /\ \A e \in emitted : IsTerminal(e.event) =>
       session.turns[e.turn].phase = TerminalPhase[e.event]

(* A call that is under way.                                               *)
Underway ==
  /\ runtime = "up" /\ call.key \in Keys
  /\ operations[call.key].turn = call.turn
  /\ call.answer \in {"none", "started"}
  /\ call.answer = "started" => call.turn # NoTurn
  /\ IF Settled THEN IsOver(call.turn)
     ELSE /\ operations[call.key].state = "accepted"
          /\ call.turn # NoTurn => session.turns[call.turn].phase = "running"

Stages ==
  /\ call.phase = "dispatching" => call.turn = NoTurn /\ call.error = "none"
  /\ call.phase = "greeting" =>
       /\ call.turn # NoTurn /\ call.error = "none"
       /\ session.lastEvent.turn = call.turn /\ session.lastEvent.event = "turn.started"
  /\ call.phase = "streaming" /\ call.error = "none" => call.turn # NoTurn
  /\ call.phase \in {"dispatching", "greeting", "streaming"} =>
       call.result = "ok" /\ call.pending = NoTerminal
  /\ call.pending # NoTerminal =>
       /\ call.phase = "settling" /\ call.turn # NoTurn /\ call.error = "persistence"
       /\ IsTerminal(call.pending.event)

(* A call that has returned, with its answer.                              *)
Returned ==
  /\ call.turn # NoTurn => IsOver(call.turn)
  /\ call.answer \in {"started", "terminal"} =>
       call.key \in Keys /\ operations[call.key].turn # NoTurn
  /\ call.answer = "terminal" => ~Running(session.turns[operations[call.key].turn])

CallFits ==
  /\ call \in Call
  /\ IF call.phase = "returned" THEN Returned ELSE Underway
  /\ Stages

ProcessFits ==
  /\ backend \in {"codex", "unavailable"} /\ runtime \in {"up", "down"}
  /\ provider \subseteq Turns /\ writing \in BOOLEAN /\ crashes \in 0..MaxCrashes

IInv ==
  /\ SessionFits(session) /\ LedgerFits /\ OnlyCallIsAccepted
  /\ EmittedFits /\ CallFits /\ ProcessFits

-----------------------------------------------------------------------------
(* Facts about the values *)

LEMMA ConstantsFit ==
  /\ NoTurn \notin Turns /\ NoKey \notin Keys /\ ThisSession \in Sessions
  /\ ProviderItems \subseteq Items /\ Clock \subseteq 1..MaxSafe
  /\ \A o \in Observations : o.event \in SentEvents /\ ~IsTerminal(o.event)
  /\ MaxCrashes \in Nat /\ MaxSafe \in Nat \ {0}
BY ExecutionAssumption, SequencerAssumption DEF SentEvents

LEMMA NoCallFits ==
  /\ NoCall \in Call /\ NoCall.phase = "returned" /\ NoCall.turn = NoTurn
  /\ NoCall.key = NoKey /\ NoCall.answer = "none" /\ NoCall.pending = NoTerminal
  /\ NoCall.error = "none" /\ NoCall.result = "ok"
<1> DEFINE items == [s \in StreamedShapes |-> [i \in ProviderItems |-> "absent"]]
<1>1. items \in [StreamedShapes -> [ProviderItems -> {"absent", "open", "done"}]]
  OBVIOUS
<1>2. NoTerminal \in [event : {"none"} \cup DOMAIN TerminalPhase, now : 0..MaxSafe]
  BY ConstantsFit DEF NoTerminal
<1> HIDE DEF items
<1>3. NoCall = [phase |-> "returned", key |-> NoKey, turn |-> NoTurn, providerTurn |-> NoTurn,
                items |-> items, error |-> "none", trace |-> FALSE, pending |-> NoTerminal,
                result |-> "ok", answer |-> "none"]
  BY DEF NoCall, items
<1> QED
  BY <1>1, <1>2, <1>3 DEF Call

LEMMA CallIsTyped ==
  ASSUME call \in Call
  PROVE  /\ call.phase \in {"returned", "dispatching", "greeting", "streaming", "settling"}
         /\ call.key \in Keys \cup {NoKey} /\ call.turn \in Turns \cup {NoTurn}
         /\ call.providerTurn \in Turns \cup {NoTurn}
         /\ call.items \in [StreamedShapes -> [ProviderItems -> {"absent", "open", "done"}]]
         /\ call.error \in {"none", "persistence", "violation", "fatal"}
         /\ call.trace \in BOOLEAN
         /\ call.pending \in [event : {"none"} \cup DOMAIN TerminalPhase, now : 0..MaxSafe]
         /\ call.result \in {"ok", "failed"}
         /\ call.answer \in {"none", "started", "terminal", "error"}
BY DEF Call

(* A call that is under way, its Turn and its operation.                   *)
LEMMA UnderwayFits ==
  ASSUME IInv, call.phase # "returned"
  PROVE  /\ call \in Call /\ Underway /\ runtime = "up" /\ call.key \in Keys
         /\ operations[call.key] \in Operation /\ operations[call.key].turn = call.turn
         /\ call.turn \in Turns \cup {NoTurn}
         /\ call.turn # NoTurn => turnKey[call.turn] = call.key /\ call.turn \in Turns
         /\ \A k \in Keys : operations[k].state = "accepted" => k = call.key
BY CallIsTyped DEF IInv, CallFits, Underway, LedgerFits, OnlyCallIsAccepted

(* Between calls nothing is accepted.                                      *)
LEMMA IdleFits ==
  ASSUME IInv, runtime = "up", call.phase = "returned", NEW k \in Keys
  PROVE  operations[k] \in Operation /\ operations[k].state # "accepted"
BY DEF IInv, OnlyCallIsAccepted, LedgerFits

-----------------------------------------------------------------------------
(* Writes of one operation *)

LEMMA StateOfOperation ==
  ASSUME operations \in [Keys -> Operation], NEW k \in Keys,
         NEW state \in {"none", "accepted", "terminal", "reconciliation-required"},
         NEW updated \in 0..MaxSafe,
         operations' = [operations EXCEPT ![k].state = state, ![k].updated = updated]
  PROVE  /\ operations' \in [Keys -> Operation]
         /\ operations'[k].state = state /\ operations'[k].turn = operations[k].turn
         /\ \A other \in Keys : other # k => operations'[other] = operations[other]
<1> DEFINE operation == operations[k]
           turn == operation.turn
           moved == [state |-> state, turn |-> turn, updated |-> operation.updated]
           next == [state |-> state, turn |-> turn, updated |-> updated]
<1>1. /\ operation = [state |-> operation.state, turn |-> turn, updated |-> operation.updated]
      /\ turn \in Turns \cup {NoTurn}
  BY DEF Operation
<1> HIDE DEF turn
<1>2. [operation EXCEPT !.state = state] = moved
  BY <1>1
<1>3. [moved EXCEPT !.updated = updated] = next
  OBVIOUS
<1>4. [operation EXCEPT !.state = state, !.updated = updated] = next
  BY <1>2, <1>3
<1>5. next \in Operation /\ next.state = state /\ next.turn = turn
  BY <1>1 DEF Operation
<1> HIDE DEF next
<1>6. operations' = [operations EXCEPT ![k] = next]
  BY <1>1, <1>4
<1> QED
  BY <1>5, <1>6 DEF turn

LEMMA TurnOfOperation ==
  ASSUME operations \in [Keys -> Operation], NEW k \in Keys,
         NEW t \in Turns, NEW updated \in 0..MaxSafe,
         operations' = [operations EXCEPT ![k].turn = t, ![k].updated = updated]
  PROVE  /\ operations' \in [Keys -> Operation]
         /\ operations'[k].state = operations[k].state /\ operations'[k].turn = t
         /\ \A other \in Keys : other # k => operations'[other] = operations[other]
<1> DEFINE operation == operations[k]
           state == operation.state
           moved == [state |-> state, turn |-> t, updated |-> operation.updated]
           next == [state |-> state, turn |-> t, updated |-> updated]
<1>1. /\ operation = [state |-> state, turn |-> operation.turn, updated |-> operation.updated]
      /\ state \in {"none", "accepted", "terminal", "reconciliation-required"}
  BY DEF Operation
<1> HIDE DEF state
<1>2. [operation EXCEPT !.turn = t] = moved
  BY <1>1
<1>3. [moved EXCEPT !.updated = updated] = next
  OBVIOUS
<1>4. [operation EXCEPT !.turn = t, !.updated = updated] = next
  BY <1>2, <1>3
<1>5. next \in Operation /\ next.state = state /\ next.turn = t
  BY <1>1 DEF Operation
<1> HIDE DEF next
<1>6. operations' = [operations EXCEPT ![k] = next]
  BY <1>1, <1>4
<1> QED
  BY <1>5, <1>6 DEF state

-----------------------------------------------------------------------------
(* Steps that move no Turn *)

SamePhases == \A t \in Turns : session'.turns[t].phase = session.turns[t].phase

LEMMA LedgerHolds ==
  ASSUME LedgerFits, SamePhases, UNCHANGED <<Ledger, dispatched>>
  PROVE  LedgerFits'
<1>1. \A k \in Keys : operations[k].turn # NoTurn => operations[k].turn \in Turns
  BY DEF LedgerFits, Operation
<1>2. \A t \in Turns : HasEnded(t)' <=> HasEnded(t)
  BY DEF SamePhases, HasEnded
<1> QED
  BY <1>1, <1>2 DEF LedgerFits, Ledger

LEMMA EmittedHolds ==
  ASSUME EmittedFits, SamePhases,
         \A e \in emitted' \ emitted :
           /\ e.turn \in Turns /\ e.origin \in Turns
           /\ e.event \in SentEvents /\ ~IsTerminal(e.event)
  PROVE  EmittedFits'
BY DEF EmittedFits, SamePhases

LEMMA OverStays ==
  ASSUME SamePhases, emitted \subseteq emitted', NEW t \in Turns, IsOver(t)
  PROVE  IsOver(t)'
BY DEF SamePhases, IsOver, HasEnded

(* An event that neither starts nor ends its Turn.                         *)
LEMMA EventMovesNoTurn ==
  ASSUME IInv, NEW t \in Turns, session.turns[t].phase = "running",
         NEW event, ~IsTerminal(event),
         NEW item, NEW now, NextEvent(t, event, item, now).outcome = "ok",
         session' = NextEvent(t, event, item, now).session
  PROVE  /\ SessionFits(session)' /\ SamePhases
         /\ NextEvent(t, event, item, now).envelope.turn = t
         /\ NextEvent(t, event, item, now).envelope.event = event
<1>1. SessionFits(session)
  BY DEF IInv
<1>2. /\ SessionFits(NextEvent(t, event, item, now).session)
      /\ NextEvent(t, event, item, now).envelope.turn = t
      /\ NextEvent(t, event, item, now).envelope.event = event
      /\ NextEvent(t, event, item, now).session.turns[t].phase = "running"
      /\ \A other \in Turns \ {t} :
           NextEvent(t, event, item, now).session.turns[other] = session.turns[other]
  BY <1>1, PreparedMoves DEF NextEvent
<1> QED
  BY <1>2 DEF SamePhases

(* A step of a call that moves no Turn and writes no ledger.               *)
LEMMA CallGoesOn ==
  ASSUME IInv, call.phase # "returned", runtime' = "up", SamePhases, emitted \subseteq emitted',
         UNCHANGED <<operations, turnKey>>,
         call' \in Call, call'.phase # "returned", call'.key = call.key, call'.turn = call.turn,
         call'.answer \in {"none", "started"}, call'.answer = "started" => call.turn # NoTurn,
         Settled' <=> Settled
  PROVE  Underway' /\ OnlyCallIsAccepted'
<1>1. /\ Underway /\ call.turn \in Turns \cup {NoTurn}
      /\ \A k \in Keys : operations[k].state = "accepted" => k = call.key
  BY UnderwayFits
<1>2. OnlyCallIsAccepted'
  BY <1>1 DEF OnlyCallIsAccepted
<1>3. CASE Settled
  <2>1. call.turn \in Turns /\ IsOver(call.turn)
    BY <1>1, <1>3 DEF Underway, Settled
  <2>2. PICK t \in Turns : t = call.turn
    BY <2>1
  <2>3. IsOver(t)'
    BY <2>1, <2>2, OverStays
  <2>4. IsOver(call.turn)'
    BY <2>2, <2>3
  <2> QED
    BY <1>1, <1>2, <1>3, <2>4 DEF Underway
<1>4. CASE ~Settled
  <2>1. call.turn # NoTurn => session'.turns[call.turn].phase = session.turns[call.turn].phase
    BY <1>1 DEF SamePhases
  <2> QED
    BY <1>1, <1>2, <1>4, <2>1 DEF Underway
<1> QED
  BY <1>3, <1>4

-----------------------------------------------------------------------------
(* The reservation *)

LEMMA RefusedKeepsIInv ==
  ASSUME IInv, NEW k \in Keys, Refused(k)
  PROVE  IInv'
<1>1. /\ runtime = "up" /\ call.phase = "returned"
      /\ call' = [NoCall EXCEPT !.key = k, !.answer = "error"]
      /\ UNCHANGED <<session, Ledger, Process, provider, dispatched, emitted>>
  BY DEF Refused
<1>2. /\ call' \in Call /\ call'.phase = "returned" /\ call'.turn = NoTurn
      /\ call'.answer = "error" /\ call'.pending = NoTerminal
  BY <1>1, NoCallFits DEF Call
<1>3. LedgerFits' /\ EmittedFits' /\ SessionFits(session)'
  BY <1>1, LedgerHolds, EmittedHolds DEF IInv, SamePhases
<1>4. OnlyCallIsAccepted'
  BY <1>1, IdleFits DEF OnlyCallIsAccepted, Ledger
<1>5. CallFits'
  BY <1>2 DEF CallFits, Returned, Stages
<1>6. ProcessFits'
  BY <1>1 DEF IInv, ProcessFits, Process
<1> QED
  BY <1>3, <1>4, <1>5, <1>6 DEF IInv

LEMMA RepeatKeepsIInv ==
  ASSUME IInv, NEW k \in Keys, Repeat(k)
  PROVE  IInv'
<1>1. /\ runtime = "up" /\ call.phase = "returned"
      /\ operations' = [operations EXCEPT ![k] = Marked(operations[k])]
      /\ call' = [NoCall EXCEPT !.key = k, !.answer = AnswerOf(operations[k])]
      /\ UNCHANGED <<session, turnKey, Process, provider, dispatched, emitted>>
  BY DEF Repeat
<1>2. /\ operations \in [Keys -> Operation] /\ operations[k] \in Operation
      /\ operations[k].state # "accepted"
  BY <1>1, IdleFits DEF IInv, LedgerFits
<1>3. UNCHANGED operations
  BY <1>1, <1>2 DEF Marked
<1>4. /\ AnswerOf(operations[k]) \in {"terminal", "error"}
      /\ AnswerOf(operations[k]) = "terminal" => operations[k].state = "terminal"
  BY <1>2 DEF AnswerOf
<1>5. /\ call' \in Call /\ call'.phase = "returned" /\ call'.turn = NoTurn
      /\ call'.answer = AnswerOf(operations[k]) /\ call'.pending = NoTerminal /\ call'.key = k
  BY <1>1, <1>4, NoCallFits DEF Call
<1>6. LedgerFits' /\ EmittedFits' /\ SessionFits(session)'
  BY <1>1, <1>3, LedgerHolds, EmittedHolds DEF IInv, SamePhases, Ledger
<1>7. OnlyCallIsAccepted'
  BY <1>1, <1>3, IdleFits DEF OnlyCallIsAccepted
<1>8. operations[k].state = "terminal" =>
        operations[k].turn # NoTurn /\ ~Running(session.turns[operations[k].turn])
  BY DEF IInv, LedgerFits, HasEnded, Running, TerminalPhases
<1>9. CallFits'
  BY <1>1, <1>3, <1>4, <1>5, <1>8 DEF CallFits, Returned, Stages
<1>10. ProcessFits'
  BY <1>1 DEF IInv, ProcessFits, Process
<1> QED
  BY <1>6, <1>7, <1>9, <1>10 DEF IInv

(* A key is reserved once, and its request is sent once.                   *)
LEMMA ReserveKeepsIInv ==
  ASSUME IInv, NEW k \in Keys, NEW now \in Clock, Reserve(k, now)
  PROVE  IInv'
<1>1. /\ runtime = "up" /\ call.phase = "returned" /\ operations[k].state = "none"
      /\ operations' = [operations EXCEPT ![k].state = "accepted", ![k].updated = now]
      /\ dispatched' = [dispatched EXCEPT ![k] = @ + 1]
      /\ call' = [NoCall EXCEPT !.phase = "dispatching", !.key = k]
      /\ writing' = TRUE
      /\ UNCHANGED <<session, turnKey, backend, runtime, crashes, provider, emitted>>
  BY DEF Reserve
<1>2. /\ operations \in [Keys -> Operation] /\ dispatched \in [Keys -> Nat]
      /\ operations[k] \in Operation /\ operations[k].turn = NoTurn /\ dispatched[k] = 0
  BY <1>1 DEF IInv, LedgerFits
<1>3. now \in 0..MaxSafe
  BY ConstantsFit
<1>4. /\ operations' \in [Keys -> Operation]
      /\ operations'[k].state = "accepted" /\ operations'[k].turn = operations[k].turn
      /\ \A other \in Keys : other # k => operations'[other] = operations[other]
  BY <1>1, <1>2, <1>3, StateOfOperation
<1>5. /\ dispatched' \in [Keys -> Nat] /\ dispatched'[k] = 1
      /\ \A other \in Keys : other # k => dispatched'[other] = dispatched[other]
  BY <1>1, <1>2
<1>6. operations'[k].turn = NoTurn
  BY <1>2, <1>4
<1>7. /\ call' \in Call /\ call'.phase = "dispatching" /\ call'.turn = NoTurn
      /\ call'.answer = "none" /\ call'.pending = NoTerminal /\ call'.key = k
      /\ call'.error = "none" /\ call'.result = "ok"
  BY <1>1, NoCallFits DEF Call
<1>8. LedgerFits'
  BY <1>1, <1>4, <1>5, <1>6 DEF IInv, LedgerFits, HasEnded
<1>9. EmittedFits' /\ SessionFits(session)'
  BY <1>1, EmittedHolds DEF IInv, SamePhases
<1>10. OnlyCallIsAccepted'
  BY <1>1, <1>4, <1>7, IdleFits DEF OnlyCallIsAccepted
<1>11. CallFits'
  BY <1>1, <1>4, <1>6, <1>7 DEF CallFits, Underway, Settled, Stages
<1>12. ProcessFits'
  BY <1>1 DEF IInv, ProcessFits
<1> QED
  BY <1>8, <1>9, <1>10, <1>11, <1>12 DEF IInv

-----------------------------------------------------------------------------
(* The stream *)

(* A step that only begins or ends a write to the provider, or none.       *)
LEMMA WriteKeepsIInv ==
  ASSUME IInv, writing' \in BOOLEAN,
         UNCHANGED <<session, turnKey, operations, backend, runtime, call, provider,
                     dispatched, emitted, crashes>>
  PROVE  IInv'
<1>1. SamePhases
  BY DEF SamePhases
<1>2. LedgerFits' /\ EmittedFits' /\ SessionFits(session)'
  BY <1>1, LedgerHolds, EmittedHolds DEF IInv, Ledger
<1>3. OnlyCallIsAccepted' /\ ProcessFits'
  BY DEF IInv, OnlyCallIsAccepted, ProcessFits
<1>4. CallFits'
  BY DEF IInv, CallFits, Settled, Stages, Returned, Underway, IsOver, HasEnded
<1> QED
  BY <1>2, <1>3, <1>4 DEF IInv

(* What a step changes in the call, when it moves no Turn.                 *)
LEMMA StreamStep ==
  ASSUME IInv, call.phase # "returned", UNCHANGED runtime, SamePhases, SessionFits(session)',
         UNCHANGED <<turnKey, operations, dispatched>>, ProcessFits',
         emitted \subseteq emitted',
         \A e \in emitted' \ emitted :
           /\ e.turn \in Turns /\ e.origin \in Turns
           /\ e.event \in SentEvents /\ ~IsTerminal(e.event),
         call' \in Call, call'.phase # "returned", call'.key = call.key, call'.turn = call.turn,
         call'.answer \in {"none", "started"}, call'.answer = "started" => call.turn # NoTurn,
         ~Settled, ~Settled', Stages'
  PROVE  IInv'
<1>1. Underway' /\ OnlyCallIsAccepted'
  BY CallGoesOn, UnderwayFits
<1>2. LedgerFits' /\ EmittedFits'
  BY LedgerHolds, EmittedHolds DEF IInv, Ledger
<1>3. CallFits'
  BY <1>1 DEF CallFits
<1> QED
  BY <1>1, <1>2, <1>3 DEF IInv

LEMMA TurnStartedKeepsIInv ==
  ASSUME IInv, NEW t \in Turns, NEW now \in Clock, TurnStarted(t, now)
  PROVE  IInv'
<1> DEFINE prepared == NextEvent(t, "turn.started", NoItem, now)
<1>1. /\ runtime = "up" /\ call.phase = "dispatching" /\ session.turns[t].phase = "absent"
      /\ provider' = provider \cup {t}
      /\ UNCHANGED <<Process, dispatched, emitted>>
      /\ \/ /\ CanCreate(t, prepared)
            /\ session' = prepared.session
            /\ turnKey' = [turnKey EXCEPT ![t] = call.key]
            /\ operations' = [operations EXCEPT ![call.key].turn = t,
                                ![call.key].updated = prepared.envelope.timestamp]
            /\ call' = Greeting(t)
         \/ /\ call' = [call EXCEPT !.phase = "streaming", !.providerTurn = t,
                                    !.error = "persistence"]
            /\ UNCHANGED <<session, Ledger>>
  BY DEF TurnStarted, Loops
<1>2. /\ call \in Call /\ call.key \in Keys /\ call.turn = NoTurn /\ call.error = "none"
      /\ call.result = "ok" /\ call.pending = NoTerminal /\ call.answer = "none"
      /\ operations[call.key].state = "accepted" /\ ~Settled
      /\ \A k \in Keys : operations[k].state = "accepted" => k = call.key
  BY <1>1, UnderwayFits DEF Underway, Settled, Stages, IInv, CallFits
<1>3. ProcessFits'
  BY <1>1 DEF IInv, ProcessFits, Process
<1>4. CASE /\ CanCreate(t, prepared)
           /\ session' = prepared.session
           /\ turnKey' = [turnKey EXCEPT ![t] = call.key]
           /\ operations' = [operations EXCEPT ![call.key].turn = t,
                               ![call.key].updated = prepared.envelope.timestamp]
           /\ call' = Greeting(t)
  <2>1. prepared.outcome = "ok" /\ turnKey[t] = NoKey
    BY <1>4 DEF CanCreate
  <2>2. SessionFits(session)
    BY DEF IInv
  <2>3. /\ SessionFits(prepared.session) /\ prepared.session.lastEvent = prepared.envelope
        /\ prepared.envelope.turn = t /\ prepared.envelope.event = "turn.started"
        /\ prepared.envelope.timestamp \in 1..MaxSafe
        /\ prepared.session.turns[t].phase = "running"
        /\ \A other \in Turns \ {t} : prepared.session.turns[other] = session.turns[other]
    BY <2>1, <2>2, PreparedMoves, TerminalEvents DEF NextEvent
  <2>4. PICK time \in 0..MaxSafe : time = prepared.envelope.timestamp
    BY <2>3, ConstantsFit
  <2> HIDE DEF prepared
  <2>5. PICK key \in Keys : key = call.key
    BY <1>2
  <2>6. operations' = [operations EXCEPT ![key].turn = t, ![key].updated = time]
    BY <1>4, <2>4, <2>5
  <2>7. operations \in [Keys -> Operation] /\ turnKey \in [Turns -> Keys \cup {NoKey}]
    BY DEF IInv, LedgerFits
  <2>8. /\ operations' \in [Keys -> Operation]
        /\ operations'[key].state = "accepted" /\ operations'[key].turn = t
        /\ \A other \in Keys : other # key => operations'[other] = operations[other]
    BY <1>2, <2>5, <2>6, <2>7, TurnOfOperation
  <2>9. /\ turnKey' \in [Turns -> Keys \cup {NoKey}] /\ turnKey'[t] = key
        /\ \A other \in Turns : other # t => turnKey'[other] = turnKey[other]
    BY <1>4, <2>5, <2>7
  <2>10. \A other \in Turns : other # t => session'.turns[other] = session.turns[other]
    BY <1>4, <2>3
  <2>11. session'.turns[t].phase = "running"
    BY <1>4, <2>3
  <2>12. \A k \in Keys : k # key =>
           /\ operations[k].turn # t /\ operations[k].turn \in Turns \cup {NoTurn}
           /\ operations'[k] = operations[k]
    BY <2>1, <2>7, <2>8, ConstantsFit DEF IInv, LedgerFits, Operation
  <2>13. LedgerFits'
    <3>1. ASSUME NEW k \in Keys
          PROVE  /\ operations'[k].turn # NoTurn => turnKey'[operations'[k].turn] = k
                 /\ operations'[k].state = "terminal" <=>
                      operations'[k].turn # NoTurn /\ HasEnded(operations[k].turn)'
                 /\ operations'[k].state = "none" =>
                      operations'[k].turn = NoTurn /\ dispatched'[k] = 0
                 /\ dispatched'[k] <= 1
      <4>1. CASE k = key
        BY <1>1, <2>8, <2>9, <2>11, <4>1, ConstantsFit
           DEF IInv, LedgerFits, HasEnded, TerminalPhases
      <4>2. CASE k # key
        BY <1>1, <2>9, <2>10, <2>12, <4>2 DEF IInv, LedgerFits, HasEnded
      <4> QED
        BY <4>1, <4>2
    <3>2. dispatched' \in [Keys -> Nat]
      BY <1>1 DEF IInv, LedgerFits
    <3> QED
      BY <2>8, <2>9, <3>1, <3>2 DEF LedgerFits
  <2>14. EmittedFits'
    <3>1. ASSUME NEW e \in emitted, IsTerminal(e.event) PROVE e.turn # t
      BY <1>1, <3>1, TerminalEvents DEF IInv, EmittedFits, IsTerminal, TerminalPhases
    <3> QED
      BY <1>1, <2>10, <3>1 DEF IInv, EmittedFits
  <2>15. OnlyCallIsAccepted'
    BY <1>2, <1>4, <2>5, <2>8 DEF OnlyCallIsAccepted, Greeting, Call
  <2>16. /\ call' \in Call /\ call'.phase = "greeting" /\ call'.turn = t /\ call'.key = key
         /\ call'.error = "none" /\ call'.result = "ok" /\ call'.pending = NoTerminal
         /\ call'.answer = "none"
    BY <1>2, <1>4, <2>5 DEF Greeting, Call
  <2>17. session'.lastEvent.turn = t /\ session'.lastEvent.event = "turn.started"
    BY <1>4, <2>3
  <2>18. CallFits'
    BY <1>1, <2>8, <2>11, <2>16, <2>17, ConstantsFit
       DEF CallFits, Underway, Settled, Stages, Process
  <2>19. SessionFits(session)'
    BY <1>4, <2>3
  <2> QED
    BY <1>3, <2>13, <2>14, <2>15, <2>18, <2>19 DEF IInv
<1>5. CASE /\ call' = [call EXCEPT !.phase = "streaming", !.providerTurn = t,
                                   !.error = "persistence"]
           /\ UNCHANGED <<session, Ledger>>
  <2>1. /\ call' \in Call /\ call'.phase = "streaming" /\ call'.turn = NoTurn
        /\ call'.key = call.key /\ call'.error = "persistence" /\ call'.result = "ok"
        /\ call'.pending = NoTerminal /\ call'.answer = "none"
    BY <1>2, <1>5 DEF Call
  <2>2. Stages' /\ ~Settled'
    BY <2>1 DEF Stages, Settled
  <2>3. SamePhases /\ SessionFits(session)'
    BY <1>5 DEF IInv, SamePhases
  <2> QED
    BY <1>1, <1>2, <1>3, <1>5, <2>1, <2>2, <2>3, StreamStep DEF Ledger, Process
<1> QED
  BY <1>1, <1>4, <1>5

(* The user's message is durable, then the client is told of both.         *)
LEMMA GreetKeepsIInv ==
  ASSUME IInv, NEW now \in Clock, Greet(now)
  PROVE  IInv'
<1> DEFINE item == Item(UserItem, "message-user", "completed")
           prepared == NextEvent(call.turn, "item.completed", item, now)
<1>1. /\ runtime = "up" /\ call.phase = "greeting"
      /\ UNCHANGED <<Ledger, Process, provider, dispatched>>
      /\ \/ /\ prepared.outcome = "ok"
            /\ session' = prepared.session
            /\ call' = [call EXCEPT !.phase = "streaming", !.answer = "started"]
            /\ Emit({Sent(session.lastEvent, call.turn), Sent(prepared.envelope, call.turn)})
         \/ /\ prepared.outcome = "ok"
            /\ session' = prepared.session
            /\ call' = [call EXCEPT !.phase = "streaming", !.error = "persistence"]
            /\ UNCHANGED emitted
         \/ /\ call' = [call EXCEPT !.phase = "streaming", !.error = "persistence"]
            /\ UNCHANGED <<session, emitted>>
  BY DEF Greet
<1>2. /\ call \in Call /\ call.turn \in Turns /\ call.error = "none"
      /\ call.result = "ok" /\ call.pending = NoTerminal /\ call.answer \in {"none", "started"}
      /\ session.turns[call.turn].phase = "running" /\ ~Settled
      /\ session.lastEvent.turn = call.turn /\ session.lastEvent.event = "turn.started"
  BY <1>1, UnderwayFits DEF Underway, Settled, Stages, IInv, CallFits
<1>3. ProcessFits'
  BY <1>1 DEF IInv, ProcessFits, Process
<1>4. ~IsTerminal("item.completed") /\ ~IsTerminal("turn.started")
  BY TerminalEvents DEF IsTerminal
<1>5. CASE /\ prepared.outcome = "ok"
           /\ session' = prepared.session
           /\ call' = [call EXCEPT !.phase = "streaming", !.answer = "started"]
           /\ Emit({Sent(session.lastEvent, call.turn), Sent(prepared.envelope, call.turn)})
  <2>1. /\ SessionFits(session)' /\ SamePhases
        /\ prepared.envelope.turn = call.turn /\ prepared.envelope.event = "item.completed"
    BY <1>2, <1>4, <1>5, EventMovesNoTurn
  <2> HIDE DEF prepared
  <2>2. /\ emitted \subseteq emitted'
        /\ \A e \in emitted' \ emitted :
             /\ e.turn \in Turns /\ e.origin \in Turns
             /\ e.event \in SentEvents /\ ~IsTerminal(e.event)
    BY <1>2, <1>4, <1>5, <2>1 DEF Emit, Sent, SentEvents
  <2>3. /\ call' \in Call /\ call'.phase = "streaming" /\ call'.turn = call.turn
        /\ call'.key = call.key /\ call'.error = "none" /\ call'.result = "ok"
        /\ call'.pending = NoTerminal /\ call'.answer = "started"
    BY <1>2, <1>5 DEF Call
  <2>4. Stages' /\ ~Settled'
    BY <1>2, <2>3, ConstantsFit DEF Stages, Settled
  <2> QED
    BY <1>1, <1>2, <1>3, <2>1, <2>2, <2>3, <2>4, StreamStep, ConstantsFit DEF Ledger, Process
<1>6. CASE /\ call' = [call EXCEPT !.phase = "streaming", !.error = "persistence"]
           /\ UNCHANGED emitted
           /\ \/ prepared.outcome = "ok" /\ session' = prepared.session
              \/ UNCHANGED session
  <2>1. /\ call' \in Call /\ call'.phase = "streaming" /\ call'.turn = call.turn
        /\ call'.key = call.key /\ call'.error = "persistence" /\ call'.result = "ok"
        /\ call'.pending = NoTerminal /\ call'.answer = call.answer
    BY <1>2, <1>6 DEF Call
  <2>2. Stages' /\ ~Settled'
    BY <2>1 DEF Stages, Settled
  <2>3. SamePhases /\ SessionFits(session)'
    <3>1. CASE prepared.outcome = "ok" /\ session' = prepared.session
      BY <1>2, <1>4, <3>1, EventMovesNoTurn
    <3>2. CASE UNCHANGED session
      BY <3>2 DEF IInv, SamePhases
    <3> QED
      BY <1>6, <3>1, <3>2
  <2> QED
    BY <1>1, <1>2, <1>3, <1>6, <2>1, <2>2, <2>3, StreamStep, ConstantsFit DEF Ledger, Process
<1> QED
  BY <1>1, <1>5, <1>6

(* While the callback listens, the Turn runs.                              *)
LEMMA ListeningFits ==
  ASSUME IInv, Listening
  PROVE  /\ call \in Call /\ call.turn \in Turns /\ call.error = "none" /\ call.result = "ok"
         /\ call.phase = "streaming" /\ call.pending = NoTerminal
         /\ call.answer \in {"none", "started"} /\ runtime = "up"
         /\ session.turns[call.turn].phase = "running" /\ ~Settled
BY UnderwayFits DEF Listening, Loops, Underway, Settled, Stages, IInv, CallFits

(* One event of the provider, whichever it is.                             *)
LEMMA DeliverKeepsIInv ==
  ASSUME IInv, Listening, NEW event \in SentEvents, ~IsTerminal(event), NEW item, NEW now,
         NEW origin \in provider,
         NEW items \in [StreamedShapes -> [ProviderItems -> {"absent", "open", "done"}]],
         NEW error \in {"persistence", "violation", "fatal"},
         Deliver(NextEvent(call.turn, event, item, now), origin, items, error)
  PROVE  IInv'
<1> DEFINE prepared == NextEvent(call.turn, event, item, now)
<1>1. /\ UNCHANGED <<Ledger, Process, provider, dispatched>>
      /\ \/ /\ prepared.outcome = "ok"
            /\ session' = prepared.session
            /\ call' = [call EXCEPT !.items = items]
            /\ Emit({Sent(prepared.envelope, origin)})
         \/ /\ call' = [call EXCEPT !.items = items, !.error = error]
            /\ UNCHANGED <<session, emitted>>
  BY DEF Deliver
<1>2. /\ call \in Call /\ call.turn \in Turns /\ call.error = "none" /\ call.result = "ok"
      /\ call.phase = "streaming" /\ call.pending = NoTerminal
      /\ call.answer \in {"none", "started"} /\ runtime = "up"
      /\ session.turns[call.turn].phase = "running" /\ ~Settled
  BY ListeningFits
<1>3. ProcessFits' /\ origin \in Turns
  BY <1>1 DEF IInv, ProcessFits, Process
<1>4. CASE /\ prepared.outcome = "ok"
           /\ session' = prepared.session
           /\ call' = [call EXCEPT !.items = items]
           /\ Emit({Sent(prepared.envelope, origin)})
  <2>1. /\ SessionFits(session)' /\ SamePhases
        /\ prepared.envelope.turn = call.turn /\ prepared.envelope.event = event
    BY <1>2, <1>4, EventMovesNoTurn
  <2> HIDE DEF prepared
  <2>2. /\ emitted \subseteq emitted'
        /\ \A e \in emitted' \ emitted :
             /\ e.turn \in Turns /\ e.origin \in Turns
             /\ e.event \in SentEvents /\ ~IsTerminal(e.event)
    BY <1>2, <1>3, <1>4, <2>1 DEF Emit, Sent
  <2>3. /\ call' \in Call /\ call'.phase = "streaming" /\ call'.turn = call.turn
        /\ call'.key = call.key /\ call'.error = "none" /\ call'.result = "ok"
        /\ call'.pending = NoTerminal /\ call'.answer = call.answer
    BY <1>2, <1>4 DEF Call
  <2>4. Stages' /\ ~Settled'
    BY <1>2, <2>3, ConstantsFit DEF Stages, Settled
  <2> QED
    BY <1>1, <1>2, <1>3, <2>1, <2>2, <2>3, <2>4, StreamStep, ConstantsFit DEF Ledger, Process
<1>5. CASE /\ call' = [call EXCEPT !.items = items, !.error = error]
           /\ UNCHANGED <<session, emitted>>
  <2>1. /\ call' \in Call /\ call'.phase = "streaming" /\ call'.turn = call.turn
        /\ call'.key = call.key /\ call'.error = error /\ call'.result = "ok"
        /\ call'.pending = NoTerminal /\ call'.answer = call.answer
    BY <1>2, <1>5 DEF Call
  <2>2. Stages' /\ ~Settled'
    BY <2>1 DEF Stages, Settled
  <2>3. SamePhases /\ SessionFits(session)'
    BY <1>5 DEF IInv, SamePhases
  <2> QED
    BY <1>1, <1>2, <1>3, <1>5, <2>1, <2>2, <2>3, StreamStep, ConstantsFit DEF Ledger, Process
<1> QED
  BY <1>1, <1>4, <1>5

LEMMA ErrorsFit ==
  ASSUME NEW prepared
  PROVE  /\ StreamingError(prepared) \in {"persistence", "violation", "fatal"}
         /\ PersistingError(prepared) \in {"persistence", "violation", "fatal"}
         /\ CommandError(prepared) \in {"persistence", "violation", "fatal"}
BY DEF StreamingError, PersistingError, CommandError

LEMMA MovedFits ==
  ASSUME call \in Call, NEW shape \in StreamedShapes, NEW i \in ProviderItems,
         NEW phase \in {"absent", "open", "done"}
  PROVE  Moved(shape, i, phase)
           \in [StreamedShapes -> [ProviderItems -> {"absent", "open", "done"}]]
BY CallIsTyped DEF Moved

LEMMA ItemsKeepIInv ==
  ASSUME IInv, NEW shape \in StreamedShapes, NEW i \in ProviderItems, NEW origin \in Turns,
         NEW now \in Clock,
         \/ ItemStarted(shape, i, origin, now)
         \/ ItemDelta(shape, i, origin, now)
         \/ ItemCompleted(shape, i, origin, now)
  PROVE  IInv'
<1>1. Listening /\ origin \in provider
  BY DEF ItemStarted, ItemDelta, ItemCompleted, Origins
<1>2. call \in Call
  BY <1>1, ListeningFits
<1>3. /\ ~IsTerminal("item.started") /\ ~IsTerminal("item.delta") /\ ~IsTerminal("item.completed")
  BY TerminalEvents DEF IsTerminal
<1>4. /\ "item.started" \in SentEvents /\ "item.delta" \in SentEvents
      /\ "item.completed" \in SentEvents
  BY DEF SentEvents
<1>5. CASE ItemStarted(shape, i, origin, now)
  <2> DEFINE item == Item(i, shape, "started")
             error == StreamingError(NextEvent(call.turn, "item.started", item, now))
             items == Moved(shape, i, "open")
  <2>1. Deliver(NextEvent(call.turn, "item.started", item, now), origin, items, error)
    BY <1>5 DEF ItemStarted
  <2>2. error \in {"persistence", "violation", "fatal"}
    BY ErrorsFit
  <2>3. items \in [StreamedShapes -> [ProviderItems -> {"absent", "open", "done"}]]
    BY <1>2, MovedFits
  <2> HIDE DEF item, error, items
  <2> QED
    BY <1>1, <1>3, <1>4, <2>1, <2>2, <2>3, DeliverKeepsIInv
<1>6. CASE ItemDelta(shape, i, origin, now)
  <2> DEFINE item == Item(i, shape, "delta")
             error == StreamingError(NextEvent(call.turn, "item.delta", item, now))
  <2>1. Deliver(NextEvent(call.turn, "item.delta", item, now), origin, call.items, error)
    BY <1>6 DEF ItemDelta
  <2>2. error \in {"persistence", "violation", "fatal"}
    BY ErrorsFit
  <2>3. call.items \in [StreamedShapes -> [ProviderItems -> {"absent", "open", "done"}]]
    BY <1>2, CallIsTyped
  <2> HIDE DEF item, error
  <2> QED
    BY <1>1, <1>3, <1>4, <2>1, <2>2, <2>3, DeliverKeepsIInv
<1>7. CASE ItemCompleted(shape, i, origin, now)
  <2> DEFINE item == Item(i, shape, "completed")
             prepared == NextEvent(call.turn, "item.completed", item, now)
             error == IF shape = "command-tool" THEN CommandError(prepared)
                      ELSE PersistingError(prepared)
             items == Moved(shape, i, "done")
  <2>1. Deliver(NextEvent(call.turn, "item.completed", item, now), origin, items, error)
    BY <1>7 DEF ItemCompleted
  <2>2. error \in {"persistence", "violation", "fatal"}
    BY ErrorsFit
  <2>3. items \in [StreamedShapes -> [ProviderItems -> {"absent", "open", "done"}]]
    BY <1>2, MovedFits
  <2> HIDE DEF item, error, items
  <2> QED
    BY <1>1, <1>3, <1>4, <2>1, <2>2, <2>3, DeliverKeepsIInv
<1> QED
  BY <1>5, <1>6, <1>7

LEMMA ObserveKeepsIInv ==
  ASSUME IInv, NEW o \in Observations, NEW i \in ProviderItems, NEW now \in Clock,
         Observe(o, i, now)
  PROVE  IInv'
<1> DEFINE item == IF o.item = NoItem THEN NoItem ELSE [o.item EXCEPT !.id = i]
           prepared == NextEvent(call.turn, o.event, item, now)
           error == IF o.persisted THEN PersistingError(prepared) ELSE StreamingError(prepared)
<1>1. /\ Listening /\ call.turn \in provider
      /\ Deliver(NextEvent(call.turn, o.event, item, now), call.turn, call.items, error)
  BY DEF Observe
<1>2. error \in {"persistence", "violation", "fatal"}
  BY ErrorsFit
<1>3. call.items \in [StreamedShapes -> [ProviderItems -> {"absent", "open", "done"}]]
  BY <1>1, ListeningFits, CallIsTyped
<1>4. o.event \in SentEvents /\ ~IsTerminal(o.event)
  BY ConstantsFit
<1> HIDE DEF item, error
<1> QED
  BY <1>1, <1>2, <1>3, <1>4, DeliverKeepsIInv

-----------------------------------------------------------------------------
(* The end of the Turn *)

(* A running Turn ends once: its event, its phase and its operation agree. *)
LEMMA PersistEnds ==
  ASSUME IInv, call.phase # "returned", ~Settled, NEW t \in Turns, t = call.turn,
         NEW event \in DOMAIN TerminalPhase, NEW item, NEW now,
         Persist(NextEvent(call.turn, event, item, now)), UNCHANGED dispatched
  PROVE  /\ SessionFits(session)' /\ LedgerFits' /\ EmittedFits' /\ IsOver(t)'
         /\ operations'[call.key].turn = t /\ operations'[call.key].state = "terminal"
         /\ \A k \in Keys : operations'[k].state # "accepted"
<1> DEFINE prepared == NextEvent(call.turn, event, item, now)
<1>1. /\ prepared.outcome = "ok" /\ session' = prepared.session
      /\ operations' = [operations EXCEPT ![call.key].state = "terminal",
                                          ![call.key].updated = prepared.envelope.timestamp]
      /\ Emit({Sent(prepared.envelope, call.turn)}) /\ UNCHANGED turnKey
  BY DEF Persist
<1>2. /\ call.key \in Keys /\ t # NoTurn /\ operations[call.key].turn = t
      /\ turnKey[t] = call.key /\ session.turns[t].phase = "running"
      /\ \A k \in Keys : operations[k].state = "accepted" => k = call.key
  BY UnderwayFits, ConstantsFit DEF Underway
<1>3. IsTerminal(event) /\ event \in SentEvents /\ TerminalPhase[event] \in TerminalPhases
  BY TerminalEvents DEF IsTerminal, SentEvents
<1>4. SessionFits(session)
  BY DEF IInv
<1>5. /\ SessionFits(prepared.session)
      /\ prepared.envelope.turn = t /\ prepared.envelope.event = event
      /\ prepared.envelope.timestamp \in 1..MaxSafe
      /\ prepared.session.turns[t].phase = TerminalPhase[event]
      /\ \A other \in Turns \ {t} : prepared.session.turns[other] = session.turns[other]
  BY <1>1, <1>3, <1>4, PreparedMoves DEF NextEvent
<1>6. PICK time \in 0..MaxSafe : time = prepared.envelope.timestamp
  BY <1>5, ConstantsFit
<1> HIDE DEF prepared
<1>7. PICK key \in Keys : key = call.key
  BY <1>2
<1>8. operations' = [operations EXCEPT ![key].state = "terminal", ![key].updated = time]
  BY <1>1, <1>6, <1>7
<1>9. operations \in [Keys -> Operation] /\ turnKey \in [Turns -> Keys \cup {NoKey}]
  BY DEF IInv, LedgerFits
<1>10. /\ operations' \in [Keys -> Operation]
       /\ operations'[key].state = "terminal" /\ operations'[key].turn = operations[key].turn
       /\ \A other \in Keys : other # key => operations'[other] = operations[other]
  BY <1>8, <1>9, StateOfOperation
<1>11. /\ session'.turns[t].phase = TerminalPhase[event]
       /\ \A other \in Turns : other # t => session'.turns[other] = session.turns[other]
  BY <1>1, <1>5
<1>12. \A k \in Keys : k # key =>
         /\ operations[k].turn # t /\ operations[k].turn \in Turns \cup {NoTurn}
         /\ operations'[k] = operations[k] /\ operations[k].state # "accepted"
  BY <1>2, <1>7, <1>9, <1>10 DEF IInv, LedgerFits, Operation
<1>13. LedgerFits'
  <2>1. ASSUME NEW k \in Keys
        PROVE  /\ operations'[k].turn # NoTurn => turnKey'[operations'[k].turn] = k
               /\ operations'[k].state = "terminal" <=>
                    operations'[k].turn # NoTurn /\ HasEnded(operations[k].turn)'
               /\ operations'[k].state = "none" =>
                    operations'[k].turn = NoTurn /\ dispatched'[k] = 0
               /\ dispatched'[k] <= 1
    <3>1. CASE k = key
      BY <1>1, <1>2, <1>3, <1>7, <1>10, <1>11, <3>1 DEF IInv, LedgerFits, HasEnded
    <3>2. CASE k # key
      <4>1. UNCHANGED turnKey /\ operations'[k] = operations[k]
        BY <1>1, <1>12, <3>2
      <4>2. operations[k].turn # NoTurn =>
              session'.turns[operations[k].turn] = session.turns[operations[k].turn]
        BY <1>11, <1>12, <3>2
      <4> QED
        BY <4>1, <4>2 DEF IInv, LedgerFits, HasEnded
    <3> QED
      BY <3>1, <3>2
  <2>2. dispatched' \in [Keys -> Nat]
    BY DEF IInv, LedgerFits
  <2> QED
    BY <1>1, <1>9, <1>10, <2>1, <2>2 DEF LedgerFits
<1>14. /\ emitted \subseteq emitted'
       /\ \A e \in emitted' \ emitted :
            e.turn = t /\ e.origin = t /\ e.event = event
       /\ \E e \in emitted' : e.turn = t /\ e.event = event
  <2>1. PICK sent : sent = Sent(prepared.envelope, call.turn)
    OBVIOUS
  <2>2. emitted' = emitted \cup {sent}
    BY <1>1, <2>1 DEF Emit
  <2>3. sent.turn = t /\ sent.origin = t /\ sent.event = event
    BY <1>5, <2>1 DEF Sent
  <2> QED
    BY <2>2, <2>3
<1>15. EmittedFits'
  <2>1. ASSUME NEW e \in emitted, IsTerminal(e.event) PROVE e.turn # t
    BY <1>2, <2>1, TerminalEvents DEF IInv, EmittedFits, IsTerminal, TerminalPhases
  <2>2. ASSUME NEW e \in emitted'
        PROVE  e.turn \in Turns /\ e.origin \in Turns /\ e.event \in SentEvents
    BY <1>3, <1>14, <2>2 DEF IInv, EmittedFits
  <2>3. ASSUME NEW e \in emitted', IsTerminal(e.event)
        PROVE  session'.turns[e.turn].phase = TerminalPhase[e.event]
    BY <1>11, <1>14, <2>1, <2>3 DEF IInv, EmittedFits
  <2> QED
    BY <2>2, <2>3 DEF EmittedFits
<1>16. IsOver(t)'
  BY <1>3, <1>11, <1>14 DEF IsOver, HasEnded
<1> QED
  BY <1>1, <1>2, <1>5, <1>7, <1>10, <1>12, <1>13, <1>15, <1>16

LEMMA TurnEndsKeepsIInv ==
  ASSUME IInv, NEW event \in DOMAIN TerminalPhase, NEW now \in Clock, TurnEnds(event, now)
  PROVE  IInv'
<1> DEFINE item == TerminalItem(event)
           prepared == NextEvent(call.turn, event, item, now)
<1>1. /\ Listening /\ provider' = provider \ {call.turn}
      /\ UNCHANGED <<Process, dispatched>>
      /\ \/ /\ Persist(prepared)
            /\ call' = [Ended EXCEPT !.trace = FALSE]
         \/ /\ NotPersisted
            /\ \/ call' = [Ended EXCEPT !.error = StreamingError(prepared)]
               \/ call' = [Pending(event, now) EXCEPT !.error = "persistence"]
               \/ call' = [Ended EXCEPT !.error = "persistence"]
  BY DEF TurnEnds
<1>2. /\ call \in Call /\ call.turn \in Turns /\ call.error = "none" /\ call.result = "ok"
      /\ call.phase = "streaming" /\ call.pending = NoTerminal
      /\ call.answer \in {"none", "started"} /\ runtime = "up"
      /\ session.turns[call.turn].phase = "running" /\ ~Settled
      /\ call.key \in Keys
  BY <1>1, ListeningFits, UnderwayFits
<1>3. ProcessFits'
  BY <1>1 DEF IInv, ProcessFits, Process
<1>4. CASE /\ Persist(prepared)
           /\ call' = [Ended EXCEPT !.trace = FALSE]
  <2>1. PICK t \in Turns : t = call.turn
    BY <1>2
  <2> HIDE DEF item
  <2>2. /\ SessionFits(session)' /\ LedgerFits' /\ EmittedFits' /\ IsOver(t)'
        /\ operations'[call.key].turn = t /\ operations'[call.key].state = "terminal"
        /\ \A k \in Keys : operations'[k].state # "accepted"
    BY <1>1, <1>2, <1>4, <2>1, PersistEnds
  <2>3. /\ call' \in Call /\ call'.phase = "settling" /\ call'.turn = t
        /\ call'.key = call.key /\ call'.error = "none" /\ call'.result = "ok"
        /\ call'.pending = NoTerminal /\ call'.answer = call.answer
    BY <1>2, <1>4, <2>1 DEF Call, Ended
  <2>4. Stages'
    BY <2>3 DEF Stages
  <2>5. Underway'
    BY <1>1, <1>2, <2>2, <2>3, ConstantsFit DEF Underway, Settled, Process
  <2>6. OnlyCallIsAccepted'
    BY <2>2 DEF OnlyCallIsAccepted
  <2>7. CallFits'
    BY <2>3, <2>4, <2>5 DEF CallFits
  <2> QED
    BY <1>3, <2>2, <2>6, <2>7 DEF IInv
<1>5. CASE /\ NotPersisted
           /\ \/ call' = [Ended EXCEPT !.error = StreamingError(prepared)]
              \/ call' = [Pending(event, now) EXCEPT !.error = "persistence"]
              \/ call' = [Ended EXCEPT !.error = "persistence"]
  <2>1. PICK error \in {"persistence", "violation", "fatal"} : error = StreamingError(prepared)
    BY ErrorsFit
  <2> HIDE DEF prepared
  <2>2. /\ call' \in Call /\ call'.phase = "settling" /\ call'.turn = call.turn
        /\ call'.key = call.key /\ call'.error # "none" /\ call'.result = "ok"
        /\ call'.answer = call.answer
        /\ call'.pending # NoTerminal =>
             call'.error = "persistence" /\ call'.pending = [event |-> event, now |-> now]
    <3>1. CASE call' = [Ended EXCEPT !.error = error]
      BY <1>2, <3>1 DEF Call, Ended
    <3>2. CASE call' = [Ended EXCEPT !.error = "persistence"]
      BY <1>2, <3>2 DEF Call, Ended
    <3>3. CASE call' = [Pending(event, now) EXCEPT !.error = "persistence"]
      <4> DEFINE pending == [event |-> event, now |-> now]
      <4>1. pending \in [event : {"none"} \cup DOMAIN TerminalPhase, now : 0..MaxSafe]
        BY ConstantsFit
      <4>2. call' = [[Ended EXCEPT !.trace = FALSE, !.pending = pending]
                       EXCEPT !.error = "persistence"]
        BY <3>3 DEF Pending
      <4> HIDE DEF pending
      <4>3. /\ call' \in Call /\ call'.phase = "settling" /\ call'.turn = call.turn
            /\ call'.key = call.key /\ call'.error = "persistence" /\ call'.result = "ok"
            /\ call'.answer = call.answer /\ call'.pending = pending
        BY <1>2, <4>1, <4>2 DEF Call, Ended
      <4> QED
        BY <4>3 DEF pending
    <3> QED
      BY <1>5, <2>1, <3>1, <3>2, <3>3
  <2>3. Stages' /\ ~Settled'
    BY <1>2, <2>2, ConstantsFit DEF Stages, Settled, IsTerminal
  <2>4. SamePhases /\ SessionFits(session)' /\ UNCHANGED <<turnKey, operations, emitted>>
    BY <1>5 DEF IInv, SamePhases, NotPersisted, Ledger
  <2> QED
    BY <1>1, <1>2, <1>3, <2>2, <2>3, <2>4, StreamStep, ConstantsFit DEF Process
<1> QED
  BY <1>1, <1>4, <1>5

(* run_turn returns without a durable end of the Turn.                     *)
LEMMA ReturnKeepsIInv ==
  ASSUME IInv, runtime = "up", call.phase \in {"dispatching", "streaming"},
         call'.result = "failed" \/ call.error # "none",
         call' \in Call, call'.phase = "settling", call'.key = call.key,
         call'.turn = call.turn, call'.error = call.error, call'.pending = call.pending,
         call'.answer = call.answer, ProcessFits',
         UNCHANGED <<session, Ledger, runtime, dispatched, emitted>>
  PROVE  IInv'
<1>1. /\ call.pending = NoTerminal /\ call.answer \in {"none", "started"}
      /\ call.answer = "started" => call.turn # NoTurn
      /\ ~Settled
  BY UnderwayFits DEF IInv, CallFits, Underway, Settled, Stages
<1>2. Stages' /\ ~Settled'
  BY <1>1 DEF Stages, Settled
<1>3. SamePhases /\ SessionFits(session)'
  BY DEF IInv, SamePhases
<1> QED
  BY <1>1, <1>2, <1>3, StreamStep DEF Ledger

LEMMA TurnEndsUnheardKeepsIInv ==
  ASSUME IInv, TurnEndsUnheard
  PROVE  IInv'
<1>1. /\ runtime = "up" /\ call.phase = "streaming" /\ call.error # "none"
      /\ provider' = provider \ {call.providerTurn} /\ call' = Ended
      /\ UNCHANGED <<session, Ledger, Process, dispatched, emitted>>
  BY DEF TurnEndsUnheard, Loops
<1>2. call \in Call
  BY DEF IInv, CallFits
<1>3. /\ call' \in Call /\ call'.phase = "settling" /\ call'.key = call.key
      /\ call'.turn = call.turn /\ call'.error = call.error /\ call'.pending = call.pending
      /\ call'.answer = call.answer
  BY <1>1, <1>2 DEF Ended, Call
<1>4. ProcessFits' /\ UNCHANGED runtime
  BY <1>1 DEF IInv, ProcessFits, Process
<1> QED
  BY <1>1, <1>3, <1>4, ReturnKeepsIInv

LEMMA AnotherTurnEndsKeepsIInv ==
  ASSUME IInv, NEW other \in Turns, AnotherTurnEnds(other)
  PROVE  IInv'
<1>1. /\ runtime = "up" /\ call.phase = "streaming"
      /\ provider' = provider \ {other} /\ call' = [Ended EXCEPT !.result = "failed"]
      /\ UNCHANGED <<session, Ledger, Process, dispatched, emitted>>
  BY DEF AnotherTurnEnds, Loops
<1>2. call \in Call
  BY DEF IInv, CallFits
<1>3. /\ call' \in Call /\ call'.phase = "settling" /\ call'.key = call.key
      /\ call'.turn = call.turn /\ call'.error = call.error /\ call'.pending = call.pending
      /\ call'.answer = call.answer /\ call'.result = "failed"
  BY <1>1, <1>2 DEF Ended, Call
<1>4. ProcessFits' /\ UNCHANGED runtime
  BY <1>1 DEF IInv, ProcessFits, Process
<1> QED
  BY <1>1, <1>3, <1>4, ReturnKeepsIInv

LEMMA AdapterFailsKeepsIInv ==
  ASSUME IInv, NEW restart \in BOOLEAN, NEW unheard \in Unheard, AdapterFails(restart, unheard)
  PROVE  IInv'
<1>1. /\ runtime = "up" /\ call.phase \in {"dispatching", "streaming"}
      /\ call' = [Ended EXCEPT !.result = "failed"]
      /\ backend' = IF restart THEN "unavailable" ELSE backend
      /\ provider' = IF restart THEN {} ELSE provider \cup unheard
      /\ UNCHANGED <<session, Ledger, runtime, writing, crashes, dispatched, emitted>>
  BY DEF AdapterFails, Loops
<1>2. call \in Call
  BY DEF IInv, CallFits
<1>3. /\ call' \in Call /\ call'.phase = "settling" /\ call'.key = call.key
      /\ call'.turn = call.turn /\ call'.error = call.error /\ call'.pending = call.pending
      /\ call'.answer = call.answer /\ call'.result = "failed"
  BY <1>1, <1>2 DEF Ended, Call
<1>4. unheard \subseteq Turns
  BY DEF Unheard
<1>5. ProcessFits'
  BY <1>1, <1>4 DEF IInv, ProcessFits
<1> QED
  BY <1>1, <1>3, <1>5, ReturnKeepsIInv

-----------------------------------------------------------------------------
(* The settlement *)

(* The runtime stops: what is durable stays, the call is gone.             *)
LEMMA StopKeepsIInv ==
  ASSUME IInv, runtime' = "down", call' = NoCall, provider' = {}, writing' = FALSE,
         UNCHANGED <<backend, dispatched>>,
         crashes' \in 0..MaxCrashes, SessionFits(session)', LedgerFits', EmittedFits'
  PROVE  IInv'
<1>1. OnlyCallIsAccepted'
  BY DEF OnlyCallIsAccepted
<1>2. CallFits'
  BY NoCallFits DEF CallFits, Returned, Stages
<1>3. ProcessFits'
  BY DEF IInv, ProcessFits
<1> QED
  BY <1>1, <1>2, <1>3 DEF IInv

LEMMA MarkFits ==
  ASSUME IInv, call.phase # "returned", ~Settled, NEW now \in Clock, Mark(now),
         UNCHANGED <<session, turnKey, dispatched>>
  PROVE  /\ LedgerFits' /\ operations'[call.key].turn = operations[call.key].turn
         /\ \A k \in Keys : operations'[k].state # "accepted"
<1>1. /\ call.key \in Keys /\ operations[call.key].turn = call.turn
      /\ operations[call.key].state = "accepted"
      /\ call.turn # NoTurn => session.turns[call.turn].phase = "running"
      /\ \A k \in Keys : operations[k].state = "accepted" => k = call.key
  BY UnderwayFits DEF Underway
<1>2. now \in 0..MaxSafe /\ operations \in [Keys -> Operation]
  BY ConstantsFit DEF IInv, LedgerFits
<1>3. PICK key \in Keys : key = call.key
  BY <1>1
<1>4. operations' = [operations EXCEPT ![key].state = "reconciliation-required",
                                       ![key].updated = now]
  BY <1>3 DEF Mark
<1>5. /\ operations' \in [Keys -> Operation]
      /\ operations'[key].state = "reconciliation-required"
      /\ operations'[key].turn = operations[key].turn
      /\ \A other \in Keys : other # key => operations'[other] = operations[other]
  BY <1>2, <1>4, StateOfOperation
<1>6. LedgerFits'
  <2>1. ASSUME NEW k \in Keys
        PROVE  /\ operations'[k].turn # NoTurn => turnKey'[operations'[k].turn] = k
               /\ operations'[k].state = "terminal" <=>
                    operations'[k].turn # NoTurn /\ HasEnded(operations[k].turn)'
               /\ operations'[k].state = "none" =>
                    operations'[k].turn = NoTurn /\ dispatched'[k] = 0
               /\ dispatched'[k] <= 1
    <3>1. CASE k = key
      BY <1>1, <1>3, <1>5, <3>1 DEF IInv, LedgerFits, HasEnded, TerminalPhases
    <3>2. CASE k # key
      BY <1>5, <3>2 DEF IInv, LedgerFits, HasEnded
    <3> QED
      BY <3>1, <3>2
  <2> QED
    BY <1>5, <2>1 DEF IInv, LedgerFits
<1> QED
  BY <1>1, <1>3, <1>5, <1>6

LEMMA GiveUpKeepsIInv ==
  ASSUME IInv, NEW now \in Clock, GiveUp(now)
  PROVE  IInv'
<1>1. /\ runtime = "up" /\ call.phase = "settling" /\ call.error = "fatal"
      /\ Mark(now) \/ UNCHANGED operations
      /\ runtime' = "down" /\ call' = NoCall /\ provider' = {} /\ writing' = FALSE
      /\ UNCHANGED <<backend, crashes, dispatched, session, turnKey, emitted>>
  BY DEF GiveUp, Settling, Stop
<1>2. ~Settled
  BY <1>1 DEF Settled
<1>3. LedgerFits'
  <2>1. CASE Mark(now)
    BY <1>1, <1>2, <2>1, MarkFits
  <2>2. CASE UNCHANGED operations
    BY <1>1, <2>2, LedgerHolds DEF IInv, SamePhases, Ledger
  <2> QED
    BY <1>1, <2>1, <2>2
<1>4. SessionFits(session)' /\ EmittedFits' /\ crashes' \in 0..MaxCrashes
  BY <1>1, EmittedHolds DEF IInv, SamePhases, ProcessFits
<1> QED
  BY <1>1, <1>3, <1>4, StopKeepsIInv

(* The Turn has ended and its call returns.                                *)
LEMMA EndedCallReturns ==
  ASSUME IInv, call.phase = "settling", NEW t \in Turns, t = call.turn,
         SessionFits(session)', LedgerFits', EmittedFits', IsOver(t)',
         operations'[call.key].turn = t, \A k \in Keys : operations'[k].state # "accepted",
         call' \in Call, call'.phase = "returned", call'.key = call.key, call'.turn = call.turn,
         call'.answer = call.answer, call'.pending = NoTerminal,
         UNCHANGED <<Process, provider, dispatched>>
  PROVE  IInv'
<1>1. call.answer \in {"none", "started"} /\ call.key \in Keys
  BY UnderwayFits DEF Underway
<1>2. OnlyCallIsAccepted'
  BY DEF OnlyCallIsAccepted
<1>3. Stages'
  BY DEF Stages
<1>4. Returned'
  BY <1>1, ConstantsFit DEF Returned
<1>5. CallFits' /\ ProcessFits'
  BY <1>3, <1>4 DEF IInv, CallFits, ProcessFits, Process
<1> QED
  BY <1>2, <1>5 DEF IInv

LEMMA RetryTerminalKeepsIInv ==
  ASSUME IInv, RetryTerminal
  PROVE  IInv'
<1> DEFINE event == call.pending.event
           item == TerminalItem(event)
           prepared == NextEvent(call.turn, event, item, call.pending.now)
<1>1. /\ runtime = "up" /\ call.phase = "settling" /\ call.pending # NoTerminal
      /\ \/ /\ Persist(prepared)
            /\ call' = [Answered(call.answer) EXCEPT !.error = "none", !.pending = NoTerminal]
            /\ UNCHANGED <<Process, provider, dispatched>>
         \/ NotPersisted /\ Stop
  BY DEF RetryTerminal, Settling
<1>2. /\ call \in Call /\ call.turn \in Turns /\ event \in DOMAIN TerminalPhase /\ ~Settled
  BY <1>1, UnderwayFits DEF IInv, CallFits, Stages, Settled, IsTerminal
<1>3. CASE /\ Persist(prepared)
           /\ call' = [Answered(call.answer) EXCEPT !.error = "none", !.pending = NoTerminal]
           /\ UNCHANGED <<Process, provider, dispatched>>
  <2>1. PICK t \in Turns : t = call.turn
    BY <1>2
  <2> HIDE DEF item, event
  <2>2. /\ SessionFits(session)' /\ LedgerFits' /\ EmittedFits' /\ IsOver(t)'
        /\ operations'[call.key].turn = t
        /\ \A k \in Keys : operations'[k].state # "accepted"
    BY <1>1, <1>2, <1>3, <2>1, PersistEnds
  <2>3. /\ call' \in Call /\ call'.phase = "returned" /\ call'.key = call.key
        /\ call'.turn = call.turn /\ call'.answer = call.answer /\ call'.pending = NoTerminal
    BY <1>2, <1>3, NoCallFits DEF Call, Answered
  <2> QED
    BY <1>1, <1>3, <2>1, <2>2, <2>3, EndedCallReturns
<1>4. CASE NotPersisted /\ Stop
  <2>1. LedgerFits' /\ SessionFits(session)' /\ EmittedFits' /\ crashes' \in 0..MaxCrashes
    BY <1>4, LedgerHolds, EmittedHolds DEF IInv, SamePhases, ProcessFits, NotPersisted, Stop
  <2> QED
    BY <1>4, <2>1, StopKeepsIInv DEF Stop
<1> QED
  BY <1>1, <1>3, <1>4

LEMMA CloseTurnKeepsIInv ==
  ASSUME IInv, NEW now \in Clock, CloseTurn(now)
  PROVE  IInv'
<1> DEFINE item == TerminalItem("turn.failed")
           prepared == NextEvent(call.turn, "turn.failed", item, now)
<1>1. /\ runtime = "up" /\ call.phase = "settling" /\ NeedsFailure
      /\ \/ /\ Persist(prepared)
            /\ call' = [Answered(call.answer) EXCEPT !.trace = FALSE]
            /\ UNCHANGED <<Process, provider, dispatched>>
         \/ NotPersisted /\ Stop
  BY DEF CloseTurn, Settling
<1>2. /\ call \in Call /\ call.turn \in Turns /\ call.pending = NoTerminal /\ ~Settled
      /\ "turn.failed" \in DOMAIN TerminalPhase
  BY <1>1, UnderwayFits, TerminalEvents
     DEF IInv, CallFits, Stages, Settled, NeedsFailure, Started
<1>3. CASE /\ Persist(prepared)
           /\ call' = [Answered(call.answer) EXCEPT !.trace = FALSE]
           /\ UNCHANGED <<Process, provider, dispatched>>
  <2>1. PICK t \in Turns : t = call.turn
    BY <1>2
  <2> HIDE DEF item
  <2>2. /\ SessionFits(session)' /\ LedgerFits' /\ EmittedFits' /\ IsOver(t)'
        /\ operations'[call.key].turn = t
        /\ \A k \in Keys : operations'[k].state # "accepted"
    BY <1>1, <1>2, <1>3, <2>1, PersistEnds
  <2>3. /\ call' \in Call /\ call'.phase = "returned" /\ call'.key = call.key
        /\ call'.turn = call.turn /\ call'.answer = call.answer /\ call'.pending = NoTerminal
    BY <1>2, <1>3 DEF Call, Answered
  <2> QED
    BY <1>1, <1>3, <2>1, <2>2, <2>3, EndedCallReturns
<1>4. CASE NotPersisted /\ Stop
  <2>1. LedgerFits' /\ SessionFits(session)' /\ EmittedFits' /\ crashes' \in 0..MaxCrashes
    BY <1>4, LedgerHolds, EmittedHolds DEF IInv, SamePhases, ProcessFits, NotPersisted, Stop
  <2> QED
    BY <1>4, <2>1, StopKeepsIInv DEF Stop
<1> QED
  BY <1>1, <1>3, <1>4

(* No Turn started: the operation is uncertain, and stays so.              *)
LEMMA AbandonKeepsIInv ==
  ASSUME IInv, NEW now \in Clock, Abandon(now)
  PROVE  IInv'
<1>1. /\ runtime = "up" /\ call.phase = "settling" /\ call.turn = NoTurn
      /\ UNCHANGED <<session, turnKey, emitted>>
      /\ \/ /\ Mark(now)
            /\ call' = Answered("error")
            /\ UNCHANGED <<Process, provider, dispatched>>
         \/ UNCHANGED operations /\ Stop
  BY DEF Abandon, Settling, Started
<1>2. call \in Call /\ call.pending = NoTerminal /\ ~Settled
  BY <1>1 DEF IInv, CallFits, Stages, Settled
<1>3. SessionFits(session)' /\ EmittedFits'
  BY <1>1, EmittedHolds DEF IInv, SamePhases
<1>4. CASE /\ Mark(now)
           /\ call' = Answered("error")
           /\ UNCHANGED <<Process, provider, dispatched>>
  <2>1. LedgerFits' /\ \A k \in Keys : operations'[k].state # "accepted"
    BY <1>1, <1>2, <1>4, MarkFits
  <2>2. /\ call' \in Call /\ call'.phase = "returned" /\ call'.turn = NoTurn
        /\ call'.answer = "error" /\ call'.pending = NoTerminal
    BY <1>1, <1>2, <1>4 DEF Call, Answered
  <2>3. CallFits'
    BY <2>2 DEF CallFits, Returned, Stages
  <2>4. OnlyCallIsAccepted' /\ ProcessFits'
    BY <1>4, <2>1 DEF OnlyCallIsAccepted, IInv, ProcessFits, Process
  <2> QED
    BY <1>3, <2>1, <2>3, <2>4 DEF IInv
<1>5. CASE UNCHANGED operations /\ Stop
  <2>1. LedgerFits' /\ crashes' \in 0..MaxCrashes
    BY <1>1, <1>5, LedgerHolds DEF IInv, SamePhases, ProcessFits, Ledger, Stop
  <2> QED
    BY <1>3, <1>5, <2>1, StopKeepsIInv DEF Stop
<1> QED
  BY <1>1, <1>4, <1>5

LEMMA FinishKeepsIInv ==
  ASSUME IInv, Finish
  PROVE  IInv'
<1>1. /\ runtime = "up" /\ call.phase = "settling" /\ Succeeded
      /\ call' = Answered(call.answer)
      /\ UNCHANGED <<session, Ledger, Process, provider, dispatched, emitted>>
  BY DEF Finish, Settling
<1>2. Settled /\ call.turn \in Turns /\ IsOver(call.turn)
  BY <1>1, UnderwayFits DEF Settled, Succeeded, Started, Underway
<1>3. call \in Call /\ call.pending = NoTerminal
  BY <1>2 DEF IInv, CallFits, Stages, Settled
<1>4. /\ operations[call.key].turn = call.turn /\ call.key \in Keys
      /\ \A k \in Keys : operations[k].state = "accepted" => k = call.key
  BY <1>1, UnderwayFits
<1>5. operations[call.key].state = "terminal"
  BY <1>2, <1>4, ConstantsFit DEF IInv, LedgerFits, IsOver
<1>6. LedgerFits' /\ SessionFits(session)' /\ EmittedFits'
  BY <1>1, LedgerHolds, EmittedHolds DEF IInv, SamePhases
<1>7. PICK t \in Turns : t = call.turn
  BY <1>2
<1>8. IsOver(t)'
  BY <1>1, <1>2, <1>7 DEF IsOver, HasEnded
<1>9. /\ operations'[call.key].turn = t /\ \A k \in Keys : operations'[k].state # "accepted"
  BY <1>1, <1>4, <1>5, <1>7 DEF Ledger
<1>10. /\ call' \in Call /\ call'.phase = "returned" /\ call'.key = call.key
       /\ call'.turn = call.turn /\ call'.answer = call.answer /\ call'.pending = NoTerminal
  BY <1>1, <1>3 DEF Call, Answered
<1> QED
  BY <1>1, <1>6, <1>7, <1>8, <1>9, <1>10, EndedCallReturns

-----------------------------------------------------------------------------
(* The process *)

LEMMA CrashKeepsIInv ==
  ASSUME IInv, Crash
  PROVE  IInv'
<1>1. /\ crashes < MaxCrashes /\ crashes' = crashes + 1
      /\ runtime' = "down" /\ call' = NoCall /\ provider' = {} /\ writing' = FALSE
      /\ UNCHANGED <<session, Ledger, backend, dispatched, emitted>>
  BY DEF Crash
<1>2. crashes' \in 0..MaxCrashes
  BY <1>1, ConstantsFit DEF IInv, ProcessFits
<1>3. LedgerFits' /\ SessionFits(session)' /\ EmittedFits'
  BY <1>1, LedgerHolds, EmittedHolds DEF IInv, SamePhases
<1> QED
  BY <1>1, <1>2, <1>3, StopKeepsIInv

(* Nothing is left accepted by the former process.                         *)
LEMMA RestartKeepsIInv ==
  ASSUME IInv, Restart
  PROVE  IInv'
<1> DEFINE Uncertain(operation) == [operation EXCEPT !.state = "reconciliation-required"]
<1>1. /\ runtime = "down" /\ runtime' = "up" /\ backend' = "codex"
      /\ operations' = [k \in Keys |-> IF operations[k].state = "accepted"
                                       THEN Uncertain(operations[k]) ELSE operations[k]]
      /\ UNCHANGED <<session, turnKey, call, provider, writing, dispatched, emitted, crashes>>
  BY DEF Restart
<1>2. operations \in [Keys -> Operation]
  BY DEF IInv, LedgerFits
<1>3. ASSUME NEW k \in Keys
      PROVE  /\ operations'[k] \in Operation /\ operations'[k].turn = operations[k].turn
             /\ operations'[k].state =
                  IF operations[k].state = "accepted" THEN "reconciliation-required"
                  ELSE operations[k].state
  <2>1. operations[k] \in Operation
    BY <1>2
  <2>2. /\ Uncertain(operations[k]) \in Operation
        /\ Uncertain(operations[k]).turn = operations[k].turn
        /\ Uncertain(operations[k]).state = "reconciliation-required"
    BY <2>1 DEF Operation
  <2> QED
    BY <1>1, <2>1, <2>2
<1>4. operations' \in [Keys -> Operation]
  BY <1>1, <1>3
<1> HIDE DEF Uncertain
<1>5. LedgerFits'
  BY <1>1, <1>3, <1>4 DEF IInv, LedgerFits, HasEnded
<1>6. OnlyCallIsAccepted'
  BY <1>3 DEF OnlyCallIsAccepted
<1>7. call.phase = "returned" /\ Returned /\ Stages /\ call \in Call
  BY <1>1 DEF IInv, CallFits, Underway
<1>8. \A t \in Turns : IsOver(t) => IsOver(t)'
  BY <1>1 DEF IsOver, HasEnded
<1>9. Returned'
  <2>1. call.turn \in Turns \cup {NoTurn}
    BY <1>7, CallIsTyped
  <2>2. call.turn # NoTurn => IsOver(call.turn)'
    BY <1>1, <1>7 DEF Returned, IsOver, HasEnded
  <2>3. call.answer \in {"started", "terminal"} =>
          call.key \in Keys /\ operations'[call.key].turn = operations[call.key].turn
    BY <1>3, <1>7 DEF Returned
  <2> QED
    BY <1>1, <1>7, <2>2, <2>3 DEF Returned
<1>10. Stages'
  BY <1>1, <1>7 DEF Stages
<1>11. CallFits' /\ ProcessFits'
  BY <1>1, <1>7, <1>9, <1>10 DEF IInv, CallFits, ProcessFits
<1>12. SessionFits(session)' /\ EmittedFits'
  BY <1>1, EmittedHolds DEF IInv, SamePhases
<1> QED
  BY <1>5, <1>6, <1>11, <1>12 DEF IInv

-----------------------------------------------------------------------------
(* The invariant *)

LEMMA InitEstablishesIInv == Init => IInv
<1> SUFFICES ASSUME Init PROVE IInv
  OBVIOUS
<1>1. SessionFits(session)
  BY EmptySessionFits DEF Init
<1>2. LedgerFits
  <2>1. NoOperation \in Operation /\ NoOperation.state = "none" /\ NoOperation.turn = NoTurn
    BY ConstantsFit DEF NoOperation, Operation
  <2> HIDE DEF NoOperation
  <2> QED
    BY <2>1 DEF Init, LedgerFits
<1>3. OnlyCallIsAccepted
  BY DEF Init, OnlyCallIsAccepted, NoOperation
<1>4. EmittedFits
  BY DEF Init, EmittedFits
<1>5. CallFits
  BY NoCallFits DEF Init, CallFits, Returned, Stages
<1>6. ProcessFits
  <2>1. writing \in BOOLEAN
    BY DEF Init
  <2>2. 0 \in 0..MaxCrashes
    BY ConstantsFit
  <2> QED
    BY <2>1, <2>2 DEF Init, ProcessFits
<1> QED
  BY <1>1, <1>2, <1>3, <1>4, <1>5, <1>6 DEF IInv

LEMMA NextKeepsIInv == IInv /\ [Next]_vars => IInv'
<1> SUFFICES ASSUME IInv, [Next]_vars PROVE IInv'
  OBVIOUS
<1>1. CASE Request
  BY <1>1, RefusedKeepsIInv, RepeatKeepsIInv, ReserveKeepsIInv DEF Request
<1>2. CASE Stream
  BY <1>2, TurnStartedKeepsIInv, GreetKeepsIInv, ItemsKeepIInv, ObserveKeepsIInv,
     TurnEndsKeepsIInv DEF Stream
<1>3. CASE TurnEndsUnheard
  BY <1>3, TurnEndsUnheardKeepsIInv
<1>4. CASE \E other \in Turns : AnotherTurnEnds(other)
  BY <1>4, AnotherTurnEndsKeepsIInv
<1>5. CASE \E restart \in BOOLEAN, unheard \in Unheard : AdapterFails(restart, unheard)
  BY <1>5, AdapterFailsKeepsIInv
<1>6. CASE Settle
  BY <1>6, GiveUpKeepsIInv, CloseTurnKeepsIInv, AbandonKeepsIInv, RetryTerminalKeepsIInv,
     FinishKeepsIInv DEF Settle
<1>7. CASE Crash
  BY <1>7, CrashKeepsIInv
<1>8. CASE Restart
  BY <1>8, RestartKeepsIInv
<1>9. CASE WriteBegins \/ WriteReturns \/ UNCHANGED vars
  <2>1. writing \in BOOLEAN
    BY DEF IInv, ProcessFits
  <2>2. /\ writing' \in BOOLEAN
        /\ UNCHANGED <<session, turnKey, operations, backend, runtime, call, provider,
                       dispatched, emitted, crashes>>
    BY <1>9, <2>1 DEF WriteBegins, WriteReturns, Ledger, vars
  <2> QED
    BY <2>2, WriteKeepsIInv
<1> QED
  BY <1>1, <1>2, <1>3, <1>4, <1>5, <1>6, <1>7, <1>8, <1>9 DEF Next

LEMMA IInvHolds == Spec => []IInv
BY InitEstablishesIInv, NextKeepsIInv, PTL DEF Spec

-----------------------------------------------------------------------------
(* The theorems *)

(* The ledger of mutation acknowledgements stays true to the Turns through *)
(* refusals, failures of the store and restarts: an operation is terminal  *)
(* exactly when its Turn has ended, it names the Turn created under its    *)
(* key, and between calls none is left accepted (turn_start_stream,        *)
(* persist_turn_state_with_trace_and_timeline, the marks at startup).      *)
THEOREM LedgerStaysSound == Spec => []LedgerIsSound
<1>1. IInv => LedgerIsSound
  <2> SUFFICES ASSUME IInv PROVE LedgerIsSound
    OBVIOUS
  <2>1. TypeOK
    <3>1. \A t \in Turns : session.turns[t].phase \in TurnPhases
      BY DEF IInv, SessionFits, TurnSequence
    <3> QED
      BY <3>1 DEF IInv, TypeOK, SessionFits, LedgerFits, EmittedFits, CallFits, ProcessFits
  <2>2. OperationsFollowTurns
    BY DEF IInv, OperationsFollowTurns, LedgerFits, OnlyCallIsAccepted, Idle, HasEnded
  <2> QED
    BY <2>1, <2>2 DEF LedgerIsSound
<1> QED
  BY <1>1, IInvHolds, PTL

(* However a call went - a provider that fell silent, a store that failed, *)
(* a sequencer that refused - its Turn has ended, durably and once, when   *)
(* it returns (the settlement after run_turn in turn_start_stream).        *)
THEOREM TurnsAlwaysEndOnce == Spec => []TurnsEndOnce
<1>1. IInv => TurnsEndOnce
  BY DEF IInv, TurnsEndOnce, TurnsAreSettled, OneEnding, Idle, CallFits, Returned, IsOver,
         HasEnded, EmittedFits
<1> QED
  BY <1>1, IInvHolds, PTL

(* A key is sent to the provider at most once, over all repeats, crashes   *)
(* and restarts (the reservation of turn/start).                           *)
THEOREM KeysAreDispatchedOnce == Spec => []AtMostOneDispatch
<1>1. IInv => AtMostOneDispatch
  BY DEF IInv, AtMostOneDispatch, LedgerFits
<1> QED
  BY <1>1, IInvHolds, PTL

(* What a call answers is backed by what is durable when it returns, and   *)
(* stays so across a restart.                                              *)
THEOREM AnswersStayTrue == Spec => []AnswersAreTrue
<1>1. IInv => AnswersAreTrue
  BY DEF IInv, AnswersAreTrue, CallFits, Returned
<1> QED
  BY <1>1, IInvHolds, PTL

-----------------------------------------------------------------------------
(* Turns and Items take their identities from a counter of the process,    *)
(* for which only identities of former processes can stand in the way.     *)
(* The invariant behind it: what this process stored lies below its        *)
(* counter, and everything else was there when it started.                 *)
IdentitiesFit ==
  /\ AllocationTypeOK
  /\ atStart \subseteq stored
  /\ \A id \in stored \ atStart : id[2] <= nextId

(* Every insertion takes identities above the counter and below the        *)
(* counter's next value.                                                   *)
AreAbove(identities, n) ==
  /\ identities \subseteq Identities
  /\ \A id \in identities : id[2] > nextId /\ id[2] <= nextId + n

(* A step is refused by identities between the counter's two values.       *)
Blocked(n) == \E id \in atStart : id[2] > nextId /\ id[2] <= n
FairRefusal == \/ refused' = refused /\ nextId' >= nextId
               \/ refused' = refused + 1 /\ nextId' > nextId /\ Blocked(nextId')
               \/ refused' = 0

LEMMA InsertKeepsIdentities ==
  ASSUME IdentitiesFit, NEW n \in 1..3, Available(n),
         NEW identities, AreAbove(identities, n), Insert(identities),
         Allocate(n), UNCHANGED <<process, atStart, restarts>>
  PROVE  IdentitiesFit' /\ FairRefusal
<1> USE AllocationAssumption DEF IdentitiesFit, AllocationTypeOK,
     Identities, AreAbove, Available, Allocate, FairRefusal, Blocked
<1>1. CASE identities \cap stored = {} /\ stored' = stored \cup identities /\ UNCHANGED refused
  BY <1>1
<1>2. CASE identities \cap stored # {} /\ refused' = refused + 1 /\ UNCHANGED stored
  BY <1>2
<1> QED  BY <1>1, <1>2 DEF Insert

(* One step keeps the invariant, and refuses only because of the past.     *)
LEMMA StepKeepsIdentities ==
  ASSUME IdentitiesFit, [AllocationNext]_allocation
  PROVE  /\ IdentitiesFit' /\ FairRefusal
         /\ atStart' = atStart \/ refused' = 0
<1> USE AllocationAssumption DEF IdentitiesFit, AllocationTypeOK,
     Identities, Prefixes, FairRefusal, Blocked
<1>1. CASE OpenProject
  <2>1. AreAbove({Allocated("project", 1)}, 1)
    BY <1>1 DEF AreAbove, Allocated, OpenProject, Available
  <2> QED  BY <1>1, <2>1, InsertKeepsIdentities DEF OpenProject
<1>2. CASE StartSession
  <2>1. AreAbove({Allocated("session", 1)}, 1)
    BY <1>2 DEF AreAbove, Allocated, StartSession, Available
  <2> QED  BY <1>2, <2>1, InsertKeepsIdentities DEF StartSession
<1>3. CASE ForkSession
  <2>1. AreAbove({Allocated("session", 1), Allocated("fork", 2)}, 2)
    BY <1>3 DEF AreAbove, Allocated, ForkSession, Available
  <2> QED  BY <1>3, <2>1, InsertKeepsIdentities DEF ForkSession
<1>4. CASE PreviewTurn
  <2>1. AreAbove({Allocated("item", 1), Allocated("turn", 2), Allocated("item", 3)}, 3)
    BY <1>4 DEF AreAbove, Allocated, PreviewTurn, Available
  <2> QED  BY <1>4, <2>1, InsertKeepsIdentities DEF PreviewTurn
<1>5. CASE Ephemeral
  BY <1>5 DEF Ephemeral, Available, Allocate
<1>6. CASE ProviderTurn
  <2> USE DEF Available, Allocate, Allocated
  <2>1. CASE Allocated("item", 1) \notin stored
    BY <1>6, <2>1 DEF ProviderTurn
  <2>2. CASE /\ Allocated("item", 1) \in stored
             /\ Allocated("error", 2) \notin stored
    BY <1>6, <2>2 DEF ProviderTurn
  <2>3. CASE /\ Allocated("item", 1) \in stored
             /\ Allocated("error", 2) \in stored
    BY <1>6, <2>3 DEF ProviderTurn
  <2> QED  BY <2>1, <2>2, <2>3
<1>7. CASE NewProcess
  BY <1>7 DEF NewProcess
<1>8. CASE UNCHANGED allocation
  BY <1>8 DEF allocation
<1> QED  BY <1>1, <1>2, <1>3, <1>4, <1>5, <1>6, <1>7, <1>8 DEF AllocationNext

LEMMA IdentitiesFitHolds ==
  AllocationSpec => []IdentitiesFit
<1>1. AllocationInit => IdentitiesFit
  BY AllocationAssumption DEF AllocationInit, IdentitiesFit, AllocationTypeOK, Identities
<1>2. IdentitiesFit /\ [AllocationNext]_allocation => IdentitiesFit'
  BY StepKeepsIdentities
<1> QED  BY <1>1, <1>2, PTL DEF AllocationSpec

(* The variables keep their types: no operation leaves the counter or the  *)
(* tables outside of what Runtime::allocate_id can produce.                *)
THEOREM IdentityTypes ==
  AllocationSpec => []AllocationTypeOK
<1>1. IdentitiesFit => AllocationTypeOK  BY DEF IdentitiesFit
<1> QED  BY <1>1, IdentitiesFitHolds, PTL

(* An operation is refused only while an identity beyond the counter is    *)
(* left from a former process (Runtime::allocate_id, append_item_tx).      *)
THEOREM OnlyFormerProcessesRefuse ==
  AllocationSpec => OnlyThePastRefuses
<1>1. IdentitiesFit /\ [AllocationNext]_allocation
        => [refused' > refused => \E id \in atStart : id[2] > nextId]_allocation
  BY StepKeepsIdentities DEF FairRefusal, Blocked, IdentitiesFit, AllocationTypeOK
<1> QED  BY <1>1, IdentitiesFitHolds, PTL DEF AllocationSpec, OnlyThePastRefuses

(* The identities of former processes the counter has passed: each refusal *)
(* passed one more.                                                        *)
Passed == {id \in atStart : id[2] <= nextId}
RefusalsFit == refused <= Cardinality(Passed)

LEMMA IdentitiesAreFinite ==
  ASSUME NEW S \in SUBSET Identities
  PROVE  IsFiniteSet(S) /\ Cardinality(S) \in Nat
<1>1. IsFiniteSet(1..MaxId)
  BY AllocationAssumption, FS_Interval
<1>2. IsFiniteSet(Prefixes)
  <2>1. \A S1, S2 : IsFiniteSet(S1) /\ IsFiniteSet(S2) => IsFiniteSet(S1 \cup S2)
    BY FS_Union
  <2>2. \A a, b : IsFiniteSet({a, b})
    <3> TAKE a, b
    <3>1. IsFiniteSet({a}) /\ IsFiniteSet({b})
      BY FS_Singleton
    <3>2. {a, b} = {a} \cup {b}
      OBVIOUS
    <3> QED  BY <2>1, <3>1, <3>2
  <2>3. Prefixes = ({"project", "session"} \cup {"fork", "turn"})
                            \cup {"item", "error"}
    BY DEF Prefixes
  <2> QED  BY <2>1, <2>2, <2>3, Zenon
<1>3. IsFiniteSet(Identities)
  BY <1>1, <1>2, FS_Product DEF Identities
<1> QED  BY <1>3, FS_Subset, FS_CardinalityType

LEMMA StepKeepsRefusals ==
  ASSUME IdentitiesFit, RefusalsFit,
       [AllocationNext]_allocation
  PROVE  RefusalsFit'
<1>1. IdentitiesFit' /\ FairRefusal /\ (atStart' = atStart \/ refused' = 0)
  BY StepKeepsIdentities
<1>2. /\ IsFiniteSet(Passed) /\ Cardinality(Passed) \in Nat
      /\ IsFiniteSet(Passed') /\ Cardinality(Passed') \in Nat
  BY <1>1, IdentitiesAreFinite DEF Passed, IdentitiesFit, AllocationTypeOK
<1>3. CASE refused' = 0
  BY <1>2, <1>3 DEF RefusalsFit
<1>4. CASE refused' = refused /\ nextId' >= nextId /\ atStart' = atStart
  <2>1. Passed \subseteq Passed'
    BY <1>1, <1>4 DEF Passed, IdentitiesFit, AllocationTypeOK, Identities
  <2> QED  BY <1>2, <1>4, <2>1, FS_Subset DEF RefusalsFit, IdentitiesFit, AllocationTypeOK
<1>5. CASE refused' = refused + 1 /\ nextId' > nextId /\ Blocked(nextId') /\ atStart' = atStart
  <2>1. PICK id \in atStart : id[2] > nextId /\ id[2] <= nextId'
    BY <1>5 DEF Blocked
  <2>2. Passed \cup {id} \subseteq Passed' /\ id \notin Passed
    BY <1>1, <1>5, <2>1 DEF Passed, IdentitiesFit, AllocationTypeOK, Identities
  <2>3. /\ IsFiniteSet(Passed \cup {id})
        /\ Cardinality(Passed \cup {id}) = Cardinality(Passed) + 1
    BY <1>2, <2>2, FS_AddElement
  <2>4. Cardinality(Passed \cup {id}) <= Cardinality(Passed')
    BY <1>2, <2>2, FS_Subset
  <2> QED  BY <1>2, <1>5, <2>3, <2>4 DEF RefusalsFit, IdentitiesFit, AllocationTypeOK
<1> QED  BY <1>1, <1>3, <1>4, <1>5 DEF FairRefusal

(* A process refuses no more operations than identities were stored when   *)
(* it started: a client that repeats a refused operation gets through.     *)
THEOREM RefusalsEnd ==
  AllocationSpec => []RefusalsAreBounded
<1>1. AllocationInit => IdentitiesFit /\ RefusalsFit
  <2> SUFFICES ASSUME AllocationInit  PROVE IdentitiesFit /\ RefusalsFit
    OBVIOUS
  <2>1. Passed = {}
    BY DEF AllocationInit, Passed
  <2> QED  BY <2>1, FS_EmptySet, AllocationAssumption
     DEF AllocationInit, IdentitiesFit, AllocationTypeOK, Identities, RefusalsFit
<1>2. (IdentitiesFit /\ RefusalsFit) /\ [AllocationNext]_allocation
     => (IdentitiesFit /\ RefusalsFit)'
  BY StepKeepsIdentities, StepKeepsRefusals
<1>3. IdentitiesFit /\ RefusalsFit => RefusalsAreBounded
  <2> SUFFICES ASSUME IdentitiesFit, RefusalsFit  PROVE RefusalsAreBounded
    OBVIOUS
  <2>1. Passed \subseteq atStart
    BY DEF Passed
  <2>2. /\ IsFiniteSet(atStart) /\ Cardinality(atStart) \in Nat
        /\ Cardinality(Passed) \in Nat
    BY <2>1, IdentitiesAreFinite DEF IdentitiesFit, AllocationTypeOK
  <2> QED  BY <2>1, <2>2, FS_Subset
     DEF RefusalsFit, RefusalsAreBounded, IdentitiesFit, AllocationTypeOK
<1> QED  BY <1>1, <1>2, <1>3, PTL DEF AllocationSpec
=============================================================================
