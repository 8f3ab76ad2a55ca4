------------------------- MODULE TurnExecutionProps -------------------------
(***************************************************************************)
(* What a turn/start call promises to the client that made it, and what    *)
(* the ledger of acknowledgements promises to the one that repeats it.     *)
(***************************************************************************)
EXTENDS TurnExecution, TLC

(* The events a call can send.                                             *)
SentEvents == {"turn.started", "item.started", "item.delta", "item.completed"}
                \cup {o.event : o \in Observations} \cup DOMAIN TerminalPhase

(* Every variable has its type.                                            *)
TypeOK ==
  /\ session.sequence \in 0..MaxSafe /\ session.timestamp \in 0..MaxSafe
  /\ \A t \in Turns : session.turns[t].phase \in TurnPhases
  /\ turnKey \in [Turns -> Keys \cup {NoKey}]
  /\ operations \in [Keys -> Operation]
  /\ backend \in {"codex", "unavailable"} /\ runtime \in {"up", "down"}
  /\ call \in Call
  /\ provider \subseteq Turns /\ writing \in BOOLEAN
  /\ dispatched \in [Keys -> Nat]
  /\ \A e \in emitted : e.turn \in Turns /\ e.origin \in Turns /\ e.event \in SentEvents
  /\ crashes \in 0..MaxCrashes

Idle == runtime = "up" /\ call.phase = "returned"

(* When a call has returned and the runtime lives, the Turn it started has *)
(* ended, durably and before the client's eyes: whatever the provider, the *)
(* store, the clock and the sequencer did (the settlement after run_turn). *)
TurnsAreSettled ==
  Idle /\ call.turn # NoTurn =>
    LET phase == session.turns[call.turn].phase
    IN  /\ phase \in TerminalPhases
        /\ \E e \in emitted : e.turn = call.turn /\ IsTerminal(e.event)

(* An acknowledgement and its Turn stay together through every failure: it *)
(* is terminal exactly when its Turn has ended, the Turn it names is the   *)
(* one created under its key, and between calls none is left accepted: the *)
(* answer to a repeated call is final (bind_*_in_transaction, Restart).    *)
OperationsFollowTurns ==
  \A k \in Keys :
    LET operation == operations[k]
    IN  /\ operation.turn # NoTurn => turnKey[operation.turn] = k
        /\ operation.state = "terminal" <=>
             operation.turn # NoTurn /\ session.turns[operation.turn].phase \in TerminalPhases
        /\ Idle => operation.state # "accepted"

(* The ledger of acknowledgements is sound: every variable has its type,   *)
(* and every operation follows its Turn.                                   *)
LedgerIsSound == TypeOK /\ OperationsFollowTurns

(* However often a client repeats a call, and wherever the process stopped *)
(* in between, the provider is asked at most once per idempotency key.     *)
AtMostOneDispatch == \A k \in Keys : dispatched[k] <= 1

(* What the runtime answers is durable: "started" names a Turn the store   *)
(* holds and "terminal" one that has ended there, also for a key that is   *)
(* repeated after a crash (turn_start_stream, AnswerOf).                   *)
AnswersAreTrue ==
  call.phase = "returned" =>
    CASE call.answer = "started"  -> operations[call.key].turn # NoTurn
      [] call.answer = "terminal" -> /\ operations[call.key].turn # NoTurn
                                     /\ ~Running(session.turns[operations[call.key].turn])
      [] OTHER -> TRUE

(* A client sees one ending per Turn, the one the journal holds, even when *)
(* its first attempt to persist failed and was retried.                    *)
OneEnding ==
  \A e \in emitted : IsTerminal(e.event) =>
    session.turns[e.turn].phase = TerminalPhase[e.event]

(* A Turn ends exactly once: it has ended when its call returns, and every *)
(* ending a client saw is the one that is durable.                         *)
TurnsEndOnce == TurnsAreSettled /\ OneEnding

(* Every call returns, or the runtime stops, if no write to the provider   *)
(* blocks for ever: neither a provider that says nothing nor one that will *)
(* not be interrupted nor a failing store holds the one handler for ever.  *)
(* A provider that stops reading does (write_codex_message).               *)
WritesReturn == []<>~writing
CallsEnd == WritesReturn => (call.phase # "returned" ~> call.phase = "returned")

(* The protocol's exact Turn correlation: what one Turn of the provider    *)
(* says is never shown as part of another.                                 *)
ExactTurnCorrelation == \A e \in emitted : e.origin = e.turn
=============================================================================
