--------------------------- MODULE EventSequencer ---------------------------
(***************************************************************************)
(* The Timeline event sequencer of the agent runtime (event_sequencer.rs): *)
(* the lifecycle of the Turns of one Session and of the Items of a Turn,   *)
(* the total order given to their events, the two-step prepare/commit that *)
(* lets a caller persist an event before it takes effect, and the          *)
(* checkpoint from which the lifecycle is rebuilt.                         *)
(*                                                                         *)
(* The module has no variables: a Session is a record, and each operation  *)
(* an operator on it.  TimelineJournal gives them state and durability.    *)
(*                                                                         *)
(* Abstractions.  A (kind, role) pair is one "shape".  A missing Turn has  *)
(* the phase "absent" and a missing Item the phase "absent" and revision   *)
(* 0, so that the maps of the code become total functions.  An event       *)
(* identifier is a SHA-256 of the envelope's other fields: the envelope    *)
(* stands for its own identifier.  The content of an Item is left out.     *)
(***************************************************************************)
EXTENDS Integers, FiniteSets, Functions

CONSTANTS
  Sessions,   \* Session identifiers
  Turns,      \* Turn identifiers
  Items,      \* Item identifiers
  Reserved,   \* Item identifiers that apply_item refuses
  MaxSafe,    \* MAX_SAFE_JSON_INTEGER: the largest sequence, revision, time
  MaxCheckpointTurns, MaxCheckpointItems   \* MAX_CHECKPOINT_TURNS, _ITEMS

ASSUME SequencerAssumption ==
  /\ IsFiniteSet(Sessions) /\ IsFiniteSet(Turns) /\ IsFiniteSet(Items)
  /\ Reserved \subseteq Items
  /\ MaxSafe \in Nat \ {0}
  /\ MaxCheckpointTurns \in Nat /\ MaxCheckpointItems \in Nat

-----------------------------------------------------------------------------
(* The state of a Session.                                                 *)

TerminalPhases == {"completed", "failed", "interrupted"}
TurnPhases == {"absent", "running"} \cup TerminalPhases
ItemPhases == {"absent", "streaming", "updating", "terminal"}

Shapes == {"message-user", "message-agent", "error-system", "diagnostic-tool",
           "usage-system", "diff-tool", "plan-agent", "command-tool"}
NoShape == "none"
ItemStates == {"started", "delta", "completed", "updated", "truncated"}

ItemSequence == [revision : 0..MaxSafe, phase : ItemPhases,
                 shape : Shapes \cup {NoShape}]
AbsentItem == [revision |-> 0, phase |-> "absent", shape |-> NoShape]

TurnSequence == [phase : TurnPhases, items : [Items -> ItemSequence]]
AbsentTurn == [phase |-> "absent", items |-> [i \in Items |-> AbsentItem]]

NoEvent == [sequence |-> 0, timestamp |-> 0]

(* SessionSequence::default().                                             *)
EmptySession == [sequence |-> 0, timestamp |-> 0, lastEvent |-> NoEvent,
                 turns |-> [t \in Turns |-> AbsentTurn]]

Running(turn) == turn.phase = "running"
RunningTurns(session) == {t \in Turns : Running(session.turns[t])}

-----------------------------------------------------------------------------
(* What an event may carry.                                                *)

NoItem == [id |-> "none", shape |-> NoShape, state |-> "none"]
ItemRequests == [id : Items, shape : Shapes, state : ItemStates]

TerminalPhase ==
  [e \in {"turn.completed", "turn.failed", "turn.interrupted"} |->
     CASE e = "turn.completed"   -> "completed"
       [] e = "turn.failed"      -> "failed"
       [] e = "turn.interrupted" -> "interrupted"]
IsTerminal(event) == event \in DOMAIN TerminalPhase

(* The events that carry an Item, with the state and the shapes it must    *)
(* have.  Every other event, known or not, carries none.                   *)
Carries(event, state, shapes) == [event |-> event, state |-> state, shapes |-> shapes]
EventShapes ==
  { Carries("turn.failed",              "completed", {"error-system"}),
    Carries("item.started",             "started",   Shapes),
    Carries("item.delta",               "delta",     Shapes),
    Carries("item.completed",           "completed", Shapes),
    Carries("diagnostics.observed",     "completed", {"diagnostic-tool"}),
    Carries("usage.updated",            "updated",   {"usage-system"}),
    Carries("usage.truncated",          "truncated", {"usage-system"}),
    Carries("turn.diff.updated",        "updated",   {"diff-tool"}),
    Carries("turn.diff.truncated",      "truncated", {"diff-tool"}),
    Carries("turn.plan.updated",        "updated",   {"plan-agent"}),
    Carries("turn.plan.truncated",      "truncated", {"plan-agent"}),
    Carries("turn.error-observed",      "updated",   {"error-system"}),
    Carries("turn.steering-requested",  "completed", {"message-user"}),
    Carries("turn.steering-failed",     "completed", {"error-system"}),
    Carries("turn.cancellation-failed", "completed", {"error-system"}) }

ShapeIsValid(event, item) ==
  IF \E c \in EventShapes : c.event = event
  THEN \E c \in EventShapes : /\ c.event = event
                              /\ c.state = item.state
                              /\ item.shape \in c.shapes
  ELSE item = NoItem

-----------------------------------------------------------------------------
(* Outcomes.  A "violation" closes the Turn (SequenceError::TurnViolation, *)
(* closes_turn), "rejected" and "bounds" do not.                           *)

Outcomes == {"ok", "violation", "rejected", "bounds"}
Refusal(turn) == IF Running(turn) THEN "violation" ELSE "rejected"

(* apply_item: the state an Item takes, or why it may not.                 *)
ItemOk(revision, phase, shape) ==
  IF revision <= MaxSafe
  THEN [outcome |-> "ok", item |-> [revision |-> revision, phase |-> phase, shape |-> shape]]
  ELSE [outcome |-> "bounds", item |-> AbsentItem]
ItemRefused == [outcome |-> "violation", item |-> AbsentItem]

(* The phase after the event, "absent" when there is no such transition:   *)
(* the arms of the match, the first that fits.                             *)
NextItemPhase(phase, event, state) ==
  CASE phase = "absent" /\ event = "item.started" /\ state = "started"   -> "streaming"
    [] phase = "absent" /\ state \in {"completed", "truncated"}          -> "terminal"
    [] phase = "absent" /\ state = "updated"                             -> "updating"
    [] phase = "streaming" /\ event = "item.delta" /\ state = "delta"    -> "streaming"
    [] phase = "streaming" /\ event = "item.completed" /\ state = "completed"
                                                                         -> "terminal"
    [] phase = "updating" /\ state = "updated"                           -> "updating"
    [] phase = "updating" /\ state \in {"truncated", "completed"}        -> "terminal"
    [] OTHER                                                             -> "absent"

ApplyItem(turn, event, item) ==
  LET current == turn.items[item.id]
      next == NextItemPhase(current.phase, event, item.state)
  IN  IF \/ item.id \in Reserved
         \/ next = "absent"
         \/ current.phase # "absent" /\ current.shape # item.shape
      THEN ItemRefused
      ELSE ItemOk(current.revision + 1, next, item.shape)

(* apply: the Turns after an event, the Turn state and Item revision the   *)
(* envelope reports.                                                       *)
Refuse(outcome) == [outcome |-> outcome, turns |-> [t \in Turns |-> AbsentTurn],
                    state |-> "absent", revision |-> 0]
Accept(turns, state, revision) ==
  [outcome |-> "ok", turns |-> turns, state |-> state, revision |-> revision]

(* Faulty variant: a Turn may start while another one runs.                *)
StartTurnBesideAnother(session, t) ==
  IF session.turns[t].phase # "absent" THEN Refuse(Refusal(session.turns[t]))
  ELSE Accept([session.turns EXCEPT ![t].phase = "running"], "running", 0)

StartTurn(session, t) ==
  IF session.turns[t].phase # "absent" THEN Refuse(Refusal(session.turns[t]))
  ELSE IF RunningTurns(session) # {} THEN Refuse("rejected")
  ELSE Accept([session.turns EXCEPT ![t].phase = "running"], "running", 0)

OpenItems(turn) == {i \in Items : turn.items[i].phase = "streaming"}

AdvanceTurn(session, t, event, item) ==
  LET turn == session.turns[t]
      phase == IF IsTerminal(event) THEN TerminalPhase[event] ELSE "running"
      applied == ApplyItem(turn, IF IsTerminal(event) THEN "item.completed" ELSE event, item)
  IN  IF ~Running(turn) THEN Refuse("rejected")
      ELSE IF phase \in {"completed", "interrupted"} /\ OpenItems(turn) # {}
      THEN Refuse("violation")
      ELSE IF item = NoItem
      THEN Accept([session.turns EXCEPT ![t].phase = phase], phase, 0)
      ELSE IF applied.outcome # "ok" THEN Refuse(applied.outcome)
      ELSE Accept([session.turns EXCEPT ![t].phase = phase,
                                        ![t].items[item.id] = applied.item],
                  phase, applied.item.revision)

Apply(session, t, event, item) ==
  IF ~ShapeIsValid(event, item) THEN Refuse(Refusal(session.turns[t]))
  ELSE IF event = "turn.started" THEN StartTurn(session, t)
  ELSE AdvanceTurn(session, t, event, item)

-----------------------------------------------------------------------------
(* The envelope, and prepare.                                              *)

LargerOf(a, b) == IF a >= b THEN a ELSE b

(* normalized_timestamp: an event is never earlier than its predecessor.   *)
ClockIsValid(now) == now \in 1..MaxSafe
(* Faulty variant: the clock is believed when it goes back.                *)
TimestampOfClock(session, now) == now
NormalizedTimestamp(session, now) == LargerOf(now, session.timestamp)

Envelope(s, session, t, event, item, applied, now) ==
  [session |-> s, turn |-> t, event |-> event, item |-> item,
   state |-> applied.state, revision |-> applied.revision,
   sequence |-> session.sequence + 1,
   timestamp |-> NormalizedTimestamp(session, now)]

(* prepare: the Session as it would be after the event, and the envelope;  *)
(* the sequencer itself does not change (apply, then finish's bounds).     *)
Prepare(s, session, t, event, item, now) ==
  LET applied == Apply(session, t, event, item)
      envelope == Envelope(s, session, t, event, item, applied, now)
      outcome == IF applied.outcome # "ok" THEN applied.outcome
                 ELSE IF session.sequence + 1 > MaxSafe \/ ~ClockIsValid(now)
                 THEN "bounds" ELSE "ok"
  IN  [outcome |-> outcome,
       expected |-> session.lastEvent,
       envelope |-> IF outcome = "ok" THEN envelope ELSE NoEvent,
       session |-> IF outcome = "ok"
                   THEN [sequence |-> envelope.sequence, timestamp |-> envelope.timestamp,
                         lastEvent |-> envelope, turns |-> applied.turns]
                   ELSE session]

(* EventEnvelope::validate (protocol crate), also run when an envelope is  *)
(* read back from the journal.                                             *)
Envelopes == [session : Sessions, turn : Turns, event : STRING,
              item : ItemRequests \cup {NoItem}, state : TurnPhases \ {"absent"},
              revision : 0..MaxSafe, sequence : 1..MaxSafe, timestamp : 1..MaxSafe]
ValidEnvelope(e) ==
  /\ e \in Envelopes
  /\ ShapeIsValid(e.event, e.item)
  /\ (e.item = NoItem) <=> (e.revision = 0)
  /\ e.state = IF IsTerminal(e.event) THEN TerminalPhase[e.event] ELSE "running"

(* PreparedEvent::commit refuses an event prepared from an older Session.  *)
IsStale(session, prepared) == session.lastEvent # prepared.expected

-----------------------------------------------------------------------------
(* Checkpoint and replay.                                                  *)

(* from_session: the Items of a finished Turn are not kept.                *)
CheckpointOf(session) ==
  [session EXCEPT !.turns =
     [t \in Turns |-> IF Running(session.turns[t]) THEN session.turns[t]
                      ELSE [AbsentTurn EXCEPT !.phase = session.turns[t].phase]]]

(* The least sequence number that could have produced a Turn: its start,   *)
(* its end, and one event per Item revision.                               *)
LeastEvents(turn) ==
  IF turn.phase = "absent" THEN 0
  ELSE IF Running(turn)
  THEN 1 + SumFunction([i \in Items |-> turn.items[i].revision])
  ELSE 2
MinimumSequence(checkpoint) ==
  SumFunction([t \in Turns |-> LeastEvents(checkpoint.turns[t])])

(* validate_for_session: how much a checkpoint may hold (its size in bytes *)
(* is left out), and what must be true of it.                              *)
CheckpointTurns(checkpoint) == {t \in Turns : checkpoint.turns[t].phase # "absent"}
CheckpointItems(checkpoint) ==
  {x \in Turns \X Items : checkpoint.turns[x[1]].items[x[2]].revision > 0}
CheckpointFits(checkpoint) ==
  /\ Cardinality(CheckpointTurns(checkpoint)) <= MaxCheckpointTurns
  /\ Cardinality(CheckpointItems(checkpoint)) <= MaxCheckpointItems

CheckpointIsSound(checkpoint) ==
  /\ \/ checkpoint.sequence = 0 /\ checkpoint.timestamp = 0 /\ checkpoint.lastEvent = NoEvent
     \/ checkpoint.sequence > 0 /\ checkpoint.timestamp > 0 /\ checkpoint.lastEvent # NoEvent
  /\ (checkpoint.sequence = 0) <=> \A t \in Turns : checkpoint.turns[t].phase = "absent"
  /\ \A t \in Turns : ~Running(checkpoint.turns[t]) =>
        \A i \in Items : checkpoint.turns[t].items[i] = AbsentItem
  /\ \A t \in Turns : \A i \in Items : checkpoint.turns[t].items[i].revision <= MaxSafe
  /\ Cardinality(RunningTurns(checkpoint)) <= 1
  /\ MinimumSequence(checkpoint) <= checkpoint.sequence

ValidCheckpoint(checkpoint) == CheckpointFits(checkpoint) /\ CheckpointIsSound(checkpoint)

(* replay_event: the event is prepared again and must come out the same.   *)
CanReplay(session, e) ==
  LET again == Prepare(e.session, session, e.turn, e.event, e.item, e.timestamp)
  IN  again.outcome = "ok" /\ again.envelope = e
Replay(session, e) ==
  Prepare(e.session, session, e.turn, e.event, e.item, e.timestamp).session
=============================================================================
