------------------------- MODULE TimelineProjection -------------------------
(***************************************************************************)
(* What a reader sees of a Session's Timeline (public_timeline_projection  *)
(* .rs): the visible state obtained by applying public events one by one,  *)
(* written out as the floor snapshot that replaces the pruned events.      *)
(*                                                                         *)
(* It is a second, independent reading of the rules of EventSequencer: the *)
(* projection derives from the Item states what the sequencer derives from *)
(* its own phases.  An anchor (sequence, time, identifier of an event) is  *)
(* the event itself; NoEvent is the anchor of the empty Timeline.          *)
(***************************************************************************)
EXTENDS EventSequencer

CONSTANTS
  NoTurn,                      \* "no Turn is running"
  MaxFloorTurns, MaxFloorItems \* MAX_VISIBLE_FLOOR_TURNS, _ITEMS

ASSUME ProjectionAssumption ==
  NoTurn \notin Turns /\ MaxFloorTurns \in Nat /\ MaxFloorItems \in Nat

HiddenTurn == [state |-> "absent", started |-> NoEvent, latest |-> NoEvent]
HiddenItem == [revision |-> 0, shape |-> NoShape, state |-> "none",
               first |-> NoEvent, latest |-> NoEvent]

(* PublicTimelineProjection::empty.                                        *)
EmptyProjection ==
  [anchor |-> NoEvent, turns |-> [t \in Turns |-> HiddenTurn],
   items |-> [t \in Turns |-> [i \in Items |-> HiddenItem]],
   running |-> NoTurn, open |-> {}]

IsOpenState(state) == state \in {"started", "delta"}

(* valid_item_transition.                                                  *)
ItemTransition(previous, next) ==
  CASE previous = "none"                 -> next # "delta"
    [] IsOpenState(previous)             -> next \in {"delta", "completed"}
    [] previous = "updated"              -> next \in {"updated", "truncated", "completed"}
    [] OTHER                             -> FALSE

(* apply_item: the guards.                                                 *)
ItemIsVisible(projection, e) ==
  LET previous == projection.items[e.turn][e.item.id]
  IN  /\ e.revision = previous.revision + 1 /\ e.revision <= MaxSafe
      /\ previous.revision > 0 => previous.shape = e.item.shape
      /\ ItemTransition(previous.state, e.item.state)

ItemAfter(projection, e) ==
  LET previous == projection.items[e.turn][e.item.id]
  IN  [revision |-> e.revision, shape |-> e.item.shape, state |-> e.item.state,
       first |-> IF previous.revision = 0 THEN e ELSE previous.first, latest |-> e]

OpenAfter(projection, e) ==
  IF e.item = NoItem THEN projection.open
  ELSE IF IsOpenState(e.item.state) THEN projection.open \cup {<<e.turn, e.item.id>>}
  ELSE projection.open \ {<<e.turn, e.item.id>>}

OpenOf(open, t) == {o \in open : o[1] = t}

(* apply_inner: whether the event fits the visible state.                  *)
Applies(projection, e) ==
  /\ e.sequence = projection.anchor.sequence + 1 /\ e.sequence <= MaxSafe
  /\ e.timestamp >= projection.anchor.timestamp
  /\ IF e.event = "turn.started"
     THEN /\ projection.turns[e.turn].state = "absent"
          /\ projection.running = NoTurn
          /\ \A t \in Turns : projection.turns[t].state # "running"
     ELSE /\ projection.turns[e.turn].state = "running"
          /\ projection.running = e.turn
  /\ e.item # NoItem => ItemIsVisible(projection, e)
  /\ e.state = IF IsTerminal(e.event) THEN TerminalPhase[e.event] ELSE "running"
  /\ e.event \in {"turn.completed", "turn.interrupted"} =>
        OpenOf(OpenAfter(projection, e), e.turn) = {}

(* apply_inner: the visible state after the event.                         *)
Project(projection, e) ==
  [anchor |-> e,
   turns |-> [projection.turns EXCEPT
                ![e.turn] = [state |-> e.state, latest |-> e,
                             started |-> IF e.event = "turn.started" THEN e ELSE @.started]],
   items |-> IF e.item = NoItem THEN projection.items
             ELSE [projection.items EXCEPT ![e.turn][e.item.id] = ItemAfter(projection, e)],
   running |-> IF IsTerminal(e.event) THEN NoTurn ELSE e.turn,
   open |-> OpenAfter(projection, e)]

-----------------------------------------------------------------------------
(* validate_floor_snapshot: what a snapshot must satisfy before it may be  *)
(* stored in place of events, and when it is read back: how much it may    *)
(* hold, and what must be true of it.                                      *)

VisibleTurns(projection) == {t \in Turns : projection.turns[t].state # "absent"}
VisibleItems(projection) ==
  {x \in Turns \X Items : projection.items[x[1]][x[2]].revision > 0}

FloorFits(projection) ==
  /\ Cardinality(VisibleTurns(projection)) <= MaxFloorTurns
  /\ Cardinality(VisibleItems(projection)) <= MaxFloorItems

NotAfter(a, b) == a.sequence <= b.sequence /\ a.timestamp <= b.timestamp
Before(a, b) == a.sequence < b.sequence /\ a.timestamp <= b.timestamp

TurnsAreOrdered(projection) ==
  /\ \A t \in VisibleTurns(projection) :
        LET turn == projection.turns[t]
        IN  /\ turn.started.sequence > 0
            /\ NotAfter(turn.started, turn.latest)
            /\ NotAfter(turn.latest, projection.anchor)
  /\ \A t, u \in VisibleTurns(projection) : t # u =>
        \/ Before(projection.turns[t].latest, projection.turns[u].started)
        \/ Before(projection.turns[u].latest, projection.turns[t].started)

RunningTurnIsLast(projection) ==
  /\ {t \in Turns : projection.turns[t].state = "running"}
       = (IF projection.running = NoTurn THEN {} ELSE {projection.running})
  /\ VisibleTurns(projection) # {} =>
        \E last \in VisibleTurns(projection) :
           /\ projection.turns[last].latest = projection.anchor
           /\ projection.running \in {NoTurn, last}

ItemsAreOrdered(projection) ==
  /\ \A x \in VisibleItems(projection) :
        LET item == projection.items[x[1]][x[2]]
            turn == projection.turns[x[1]]
        IN  /\ turn.state # "absent"
            /\ item.revision <= MaxSafe
            /\ Before(turn.started, item.first)
            /\ NotAfter(item.first, item.latest)
            /\ NotAfter(item.latest, turn.latest)
            /\ (item.revision = 1) <=> (item.first.sequence = item.latest.sequence)
            /\ item.revision <= item.latest.sequence - item.first.sequence + 1
  /\ \A x, y \in VisibleItems(projection) : x # y =>
        \A a \in {projection.items[x[1]][x[2]].first, projection.items[x[1]][x[2]].latest},
           b \in {projection.items[y[1]][y[2]].first, projection.items[y[1]][y[2]].latest} :
              a.sequence # b.sequence

OpenItemsAreRecorded(projection) ==
  /\ projection.open = {x \in VisibleItems(projection) :
                          IsOpenState(projection.items[x[1]][x[2]].state)}
  /\ \A x \in projection.open :
        projection.turns[x[1]].state \notin {"completed", "interrupted"}

SnapshotIsSound(projection) ==
  /\ TurnsAreOrdered(projection)
  /\ RunningTurnIsLast(projection)
  /\ ItemsAreOrdered(projection)
  /\ OpenItemsAreRecorded(projection)
  /\ projection.anchor = NoEvent <=> VisibleTurns(projection) = {}

ValidSnapshot(projection) == FloorFits(projection) /\ SnapshotIsSound(projection)
=============================================================================
