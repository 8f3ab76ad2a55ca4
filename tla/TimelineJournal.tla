--------------------------- MODULE TimelineJournal ---------------------------
(***************************************************************************)
(* The durable public Timeline of the agent runtime.                       *)
(*                                                                         *)
(* An event of a Session goes through four steps: the in-memory sequencer  *)
(* prepares it (prepare), the store appends it to the journal in one       *)
(* transaction (append_event_tx), the sequencer takes it over (commit),    *)
(* and the runtime writes it to the client (emit).  The process may stop   *)
(* between any two of them, and a restart rebuilds the sequencer from the  *)
(* journal (restore_all).  The journal is cut from below by checkpointing  *)
(* (checkpoint_and_prune_tx) and emptied when a deleted Session is purged  *)
(* (reset_session_tx).                                                     *)
(*                                                                         *)
(* The runtime thread serves one call at a time, so at most one event (or  *)
(* the six events of a preview Turn, a batch) is under way.                *)
(***************************************************************************)
EXTENDS TimelineProjection, SequencesExt

CONSTANTS
  Requests,         \* the [event, item] pairs a caller may ask for
  PreviewItems,     \* the <<user item, agent item>> pairs of preview Turns
  Clock,            \* readings of the system clock, in any order
  MaxSessionEvents, \* MAX_SESSION_EVENTS: rows one Session may keep
  MaxTotalEvents,   \* MAX_TOTAL_EVENTS: rows all Sessions may keep
  MaxCrashes        \* bound of the model: process stops

(* The events of a preview Turn (a STRING, like those of a request).       *)
PreviewNames == {"turn.started", "item.started", "item.delta", "item.completed", "turn.completed"}

(* The Items of a preview Turn are its own: it draws their identities.     *)
ASSUME JournalAssumption ==
  /\ Requests \subseteq [event : STRING, item : ItemRequests \cup {NoItem}]
  /\ PreviewItems \subseteq Items \X Items
  /\ \A r \in Requests, items \in PreviewItems :
        r.item = NoItem \/ r.item.id \notin {items[1], items[2]}
  /\ PreviewNames \subseteq STRING
  /\ Clock \subseteq Nat
  /\ MaxSessionEvents \in Nat /\ MaxTotalEvents \in Nat /\ MaxCrashes \in Nat

VARIABLES
  cursor,      \* durable: per Session, the head and floor anchors
  rows,        \* durable: per Session, the retained events
  checkpoint,  \* durable: per Session, the sequencer state at the floor
  snapshot,    \* durable: per Session, the visible state at the floor
  deletion,    \* durable: per Session, "none", "pending" or "purged"
  runtime,     \* "up", "down", or "unavailable" after a failed recovery
  sequencer,   \* volatile: per Session, its sequencer state
  call,        \* volatile: the call under way
  emitted,     \* history: per Session, the events written to clients
  log,         \* history: per Session, every event ever appended
  crashes      \* how often the process stopped

durable == <<cursor, rows, checkpoint, snapshot, deletion>>
vars == <<durable, runtime, sequencer, call, emitted, log, crashes>>

-----------------------------------------------------------------------------
(* A call: the Session, the events it appends in one transaction, the      *)
(* sequencer state that replaces the current one, the identifier of the    *)
(* event it was prepared after, and how far it has come.                   *)
NoCall == [stage |-> "none"]
Call(s, events, candidate, expected) ==
  [stage |-> "prepared", session |-> s, events |-> events,
   candidate |-> candidate, expected |-> expected]
Idle == runtime = "up" /\ call = NoCall

(* Faulty variant: only a pending deletion protects a Session.             *)
WritableUnlessPending(s) == deletion[s] # "pending"

(* ensure_session_writable.                                                *)
Writable(s) == deletion[s] = "none"

-----------------------------------------------------------------------------
(* Restoring a Session: its checkpoint, then every retained row.           *)
ReplayStep(restored, e) ==
  IF restored.ok /\ CanReplay(restored.session, e)
  THEN [ok |-> TRUE, session |-> Replay(restored.session, e)]
  ELSE [restored EXCEPT !.ok = FALSE]
ReplayFrom(session, events) ==
  FoldLeft(ReplayStep, [ok |-> ValidCheckpoint(session), session |-> session], events)
Restored(s) == ReplayFrom(checkpoint[s], rows[s])

(* SessionRestoreCandidate::complete: the replay ends at the head.         *)
RestoreCompletes(s) ==
  /\ Restored(s).ok
  /\ Restored(s).session.lastEvent = cursor[s].head
  /\ Restored(s).session.sequence = cursor[s].head.sequence

ProjectStep(projected, e) ==
  IF projected.ok /\ Applies(projected.view, e)
  THEN [ok |-> TRUE, view |-> Project(projected.view, e)]
  ELSE [projected EXCEPT !.ok = FALSE]
ProjectFrom(view, events) == FoldLeft(ProjectStep, [ok |-> TRUE, view |-> view], events)

(* validate_cursor_state, validate_cursor_anchor and validate_checkpoint:  *)
(* every operation on the journal of a Session starts with them.           *)
CursorIsValid(s) ==
  LET head == cursor[s].head
      floor == cursor[s].floor
  IN  /\ NotAfter(floor, head)
      /\ checkpoint[s].lastEvent = floor
      /\ checkpoint[s].sequence = floor.sequence /\ checkpoint[s].timestamp = floor.timestamp
      /\ ValidCheckpoint(checkpoint[s])
      /\ Len(rows[s]) = head.sequence - floor.sequence
      /\ IF rows[s] = <<>> THEN head = floor
         ELSE /\ rows[s][1].sequence = floor.sequence + 1
              /\ rows[s][Len(rows[s])] = head

(* restore_all: the limits on what is retained, and every Session whole.   *)
RetainedEvents(s) == cursor[s].head.sequence - cursor[s].floor.sequence
TotalEvents == SumFunction([s \in Sessions |-> Len(rows[s])])
JournalIsRestorable ==
  /\ TotalEvents <= MaxTotalEvents
  /\ \A s \in Sessions : /\ CursorIsValid(s) /\ RestoreCompletes(s)
                          /\ ValidSnapshot(snapshot[s])
                          /\ RetainedEvents(s) <= MaxSessionEvents

-----------------------------------------------------------------------------
Init ==
  /\ cursor = [s \in Sessions |-> [head |-> NoEvent, floor |-> NoEvent]]
  /\ rows = [s \in Sessions |-> <<>>]
  /\ checkpoint = [s \in Sessions |-> EmptySession]
  /\ snapshot = [s \in Sessions |-> EmptyProjection]
  /\ deletion = [s \in Sessions |-> "none"]
  /\ runtime = "up"
  /\ sequencer = [s \in Sessions |-> EmptySession]
  /\ call = NoCall
  /\ emitted = [s \in Sessions |-> <<>>]
  /\ log = [s \in Sessions |-> <<>>]
  /\ crashes = 0

(* Faulty variant: preparing an event already moves the sequencer.         *)
PrepareAndCommitEvent(s, t, r, now) ==
  LET prepared == Prepare(s, sequencer[s], t, r.event, r.item, now)
  IN  /\ Idle
      /\ prepared.outcome = "ok"
      /\ call' = Call(s, <<prepared.envelope>>, prepared.session, prepared.envelope)
      /\ sequencer' = [sequencer EXCEPT ![s] = prepared.session]
      /\ UNCHANGED <<durable, runtime, emitted, log, crashes>>

(* EventSequencer::prepare for one event.                                  *)
PrepareEvent(s, t, r, now) ==
  LET prepared == Prepare(s, sequencer[s], t, r.event, r.item, now)
  IN  /\ Idle
      /\ prepared.outcome = "ok"
      /\ call' = Call(s, <<prepared.envelope>>, prepared.session, prepared.expected)
      /\ UNCHANGED <<durable, runtime, sequencer, emitted, log, crashes>>

(* preview_turn: six events sequenced on a copy of the sequencer.          *)
PreviewEvents(user, agent) ==
  LET message(id, shape, state) == [id |-> id, shape |-> shape, state |-> state]
  IN  << [event |-> "turn.started",   item |-> NoItem],
         [event |-> "item.completed", item |-> message(user, "message-user", "completed")],
         [event |-> "item.started",   item |-> message(agent, "message-agent", "started")],
         [event |-> "item.delta",     item |-> message(agent, "message-agent", "delta")],
         [event |-> "item.completed", item |-> message(agent, "message-agent", "completed")],
         [event |-> "turn.completed", item |-> NoItem] >>

PreparePreview(s, t, items, now) ==
  LET requests == PreviewEvents(items[1], items[2])
      Sequence(session, n) == Prepare(s, session, t, requests[n].event, requests[n].item, now)
      p1 == Sequence(sequencer[s], 1)
      p2 == Sequence(p1.session, 2)
      p3 == Sequence(p2.session, 3)
      p4 == Sequence(p3.session, 4)
      p5 == Sequence(p4.session, 5)
      p6 == Sequence(p5.session, 6)
      staged == <<p1, p2, p3, p4, p5, p6>>
  IN  /\ Idle
      /\ \A n \in 1..6 : staged[n].outcome = "ok"
      /\ call' = Call(s, [n \in 1..6 |-> staged[n].envelope], p6.session, p1.expected)
      /\ UNCHANGED <<durable, runtime, sequencer, emitted, log, crashes>>

(* append_event_tx for each event of the call, in one transaction.         *)
FollowsHead(s, events) ==
  \A n \in 1..Len(events) :
    /\ events[n].sequence = cursor[s].head.sequence + n
    /\ events[n].timestamp >= (IF n = 1 THEN cursor[s].head ELSE events[n - 1]).timestamp
HasRoom(s, events) ==
  /\ RetainedEvents(s) + Len(events) <= MaxSessionEvents
  /\ TotalEvents + Len(events) <= MaxTotalEvents
(* CHECK(next_sequence <= 9007199254740991) of the cursor: it names the    *)
(* event after the last one, so the largest number of the protocol, which  *)
(* the sequencer still gives out, never enters the journal.                *)
CursorMayPass(events) == \A n \in 1..Len(events) : events[n].sequence + 1 <= MaxSafe
EventsFit(s, events) ==
  /\ \A n \in 1..Len(events) : ValidEnvelope(events[n])
  /\ CursorIsValid(s)
  /\ FollowsHead(s, events)
  /\ CursorMayPass(events)
AppendIsPermitted(s, events) == Writable(s) /\ HasRoom(s, events) /\ EventsFit(s, events)

(* Faulty variant: the events of a call are appended in one transaction    *)
(* each, and a stop between them leaves the first ones.                    *)
AppendOneByOne ==
  LET s == call.session
      rest == Tail(call.events)
  IN  /\ runtime = "up" /\ call.stage = "prepared"
      /\ AppendIsPermitted(s, <<call.events[1]>>)
      /\ rows' = [rows EXCEPT ![s] = Append(@, call.events[1])]
      /\ cursor' = [cursor EXCEPT ![s].head = call.events[1]]
      /\ log' = [log EXCEPT ![s] = Append(@, call.events[1])]
      /\ call' = IF rest = <<>> THEN [call EXCEPT !.stage = "appended"]
                 ELSE [call EXCEPT !.events = rest]
      /\ UNCHANGED <<checkpoint, snapshot, deletion, runtime, sequencer, emitted, crashes>>

AppendCall ==
  LET s == call.session
  IN  /\ runtime = "up" /\ call.stage = "prepared"
      /\ AppendIsPermitted(s, call.events)
      /\ rows' = [rows EXCEPT ![s] = @ \o call.events]
      /\ cursor' = [cursor EXCEPT ![s].head = call.events[Len(call.events)]]
      /\ log' = [log EXCEPT ![s] = @ \o call.events]
      /\ call' = [call EXCEPT !.stage = "appended"]
      /\ UNCHANGED <<checkpoint, snapshot, deletion, runtime, sequencer, emitted, crashes>>

(* The transaction is refused, or fails and is rolled back: the prepared   *)
(* events are dropped and the sequencer keeps its state.                   *)
AppendFails ==
  /\ runtime = "up" /\ call.stage = "prepared"
  /\ call' = NoCall
  /\ UNCHANGED <<durable, runtime, sequencer, emitted, log, crashes>>

(* PreparedEvent::commit, or the assignment of the staged sequencer.       *)
CommitCall ==
  /\ runtime = "up" /\ call.stage = "appended"
  /\ IF IsStale(sequencer[call.session], call)
     THEN call' = NoCall /\ UNCHANGED sequencer
     ELSE /\ sequencer' = [sequencer EXCEPT ![call.session] = call.candidate]
          /\ call' = [call EXCEPT !.stage = "committed"]
  /\ UNCHANGED <<durable, runtime, emitted, log, crashes>>

(* Faulty variant: an event is emitted again.                              *)
EmitAgain ==
  /\ runtime = "up" /\ call.stage = "committed"
  /\ Len(emitted[call.session]) < MaxSafe
  /\ emitted' = [emitted EXCEPT ![call.session] = Append(@, Head(call.events))]
  /\ UNCHANGED <<durable, runtime, sequencer, call, log, crashes>>

(* emit: the events reach the transport one by one.                        *)
EmitEvent ==
  LET rest == Tail(call.events)
  IN  /\ runtime = "up" /\ call.stage = "committed"
      /\ emitted' = [emitted EXCEPT ![call.session] = Append(@, Head(call.events))]
      /\ call' = IF rest = <<>> THEN NoCall ELSE [call EXCEPT !.events = rest]
      /\ UNCHANGED <<durable, runtime, sequencer, log, crashes>>

(* preview_turn returns without its events when the response of the        *)
(* durable mutation cannot be built.                                       *)
PreviewResponseFails ==
  /\ runtime = "up" /\ call.stage = "committed" /\ Len(call.events) = 6
  /\ call' = NoCall
  /\ UNCHANGED <<durable, runtime, sequencer, emitted, log, crashes>>

(* The process stops; what was not in a committed transaction is lost.     *)
Crash ==
  /\ runtime # "down" /\ crashes < MaxCrashes
  /\ runtime' = "down"
  /\ sequencer' = [s \in Sessions |-> EmptySession]
  /\ call' = NoCall
  /\ crashes' = crashes + 1
  /\ UNCHANGED <<durable, emitted, log>>

(* Faulty variant: the rows above the checkpoint are not replayed.         *)
RestartFromCheckpoint ==
  /\ runtime = "down"
  /\ IF JournalIsRestorable
     THEN runtime' = "up" /\ sequencer' = checkpoint
     ELSE runtime' = "unavailable" /\ UNCHANGED sequencer
  /\ UNCHANGED <<durable, call, emitted, log, crashes>>

(* restore_all: all Sessions or none.                                      *)
Restart ==
  /\ runtime = "down"
  /\ IF JournalIsRestorable
     THEN /\ runtime' = "up"
          /\ sequencer' = [s \in Sessions |-> Restored(s).session]
     ELSE runtime' = "unavailable" /\ UNCHANGED sequencer
  /\ UNCHANGED <<durable, call, emitted, log, crashes>>

-----------------------------------------------------------------------------
(* checkpoint_and_prune_tx through the k-th retained row.                  *)
PrunedView(s, k) == ProjectFrom(snapshot[s], SubSeq(rows[s], 1, k))
PrunedState(s, k) == ReplayFrom(checkpoint[s], SubSeq(rows[s], 1, k))
(* UNIQUE(session_id, item_id) of the stored snapshot's Items, although    *)
(* sequencer and projection tell the Items of different Turns apart.       *)
ItemsAreDistinct(view) ==
  \A x, y \in VisibleItems(view) : x[2] = y[2] => x = y
PruneIsPermitted(s, k) ==
  /\ CursorIsValid(s)
  /\ ValidSnapshot(snapshot[s]) /\ snapshot[s].anchor = cursor[s].floor
  /\ PrunedView(s, k).ok /\ ValidSnapshot(PrunedView(s, k).view)
  /\ ItemsAreDistinct(PrunedView(s, k).view)
  /\ PrunedView(s, k).view.anchor = rows[s][k]
  /\ RestoreCompletes(s)
  /\ ValidCheckpoint(CheckpointOf(PrunedState(s, k).session))
  /\ PrunedState(s, k).session.lastEvent = rows[s][k]

(* Faulty variants: the row at the boundary is kept; the floor snapshot is *)
(* not written.                                                            *)
PruneBelow(s, k) ==
  /\ Idle /\ Writable(s)
  /\ PruneIsPermitted(s, k)
  /\ snapshot' = [snapshot EXCEPT ![s] = PrunedView(s, k).view]
  /\ checkpoint' = [checkpoint EXCEPT ![s] = CheckpointOf(PrunedState(s, k).session)]
  /\ cursor' = [cursor EXCEPT ![s].floor = rows[s][k]]
  /\ rows' = [rows EXCEPT ![s] = SubSeq(@, k, Len(@))]
  /\ UNCHANGED <<deletion, runtime, sequencer, call, emitted, log, crashes>>
PruneWithoutSnapshot(s, k) ==
  /\ Idle /\ Writable(s)
  /\ PruneIsPermitted(s, k)
  /\ checkpoint' = [checkpoint EXCEPT ![s] = CheckpointOf(PrunedState(s, k).session)]
  /\ cursor' = [cursor EXCEPT ![s].floor = rows[s][k]]
  /\ rows' = [rows EXCEPT ![s] = SubSeq(@, k + 1, Len(@))]
  /\ UNCHANGED <<snapshot, deletion, runtime, sequencer, call, emitted, log, crashes>>

Prune(s, k) ==
  /\ Idle /\ Writable(s)
  /\ PruneIsPermitted(s, k)
  /\ snapshot' = [snapshot EXCEPT ![s] = PrunedView(s, k).view]
  /\ checkpoint' = [checkpoint EXCEPT ![s] = CheckpointOf(PrunedState(s, k).session)]
  /\ cursor' = [cursor EXCEPT ![s].floor = rows[s][k]]
  /\ rows' = [rows EXCEPT ![s] = SubSeq(@, k + 1, Len(@))]
  /\ UNCHANGED <<deletion, runtime, sequencer, call, emitted, log, crashes>>

-----------------------------------------------------------------------------
(* Deleting a Session: scheduled, undone, or purged after the undo window. *)
SetDeletion(s, from, to) ==
  /\ Idle /\ deletion[s] = from
  /\ deletion' = [deletion EXCEPT ![s] = to]

ScheduleDeletion(s) ==
  /\ SetDeletion(s, "none", "pending")
  /\ UNCHANGED <<cursor, rows, checkpoint, snapshot, runtime, sequencer, call, emitted, log, crashes>>
UndoDeletion(s) ==
  /\ SetDeletion(s, "pending", "none")
  /\ UNCHANGED <<cursor, rows, checkpoint, snapshot, runtime, sequencer, call, emitted, log, crashes>>

(* purge_session_deletion with reset_session_tx: the journal is emptied;   *)
(* the sequencer in memory is left as it is.                               *)
Purge(s) ==
  /\ SetDeletion(s, "pending", "purged")
  /\ CursorIsValid(s)
  /\ cursor' = [cursor EXCEPT ![s] = [head |-> NoEvent, floor |-> NoEvent]]
  /\ rows' = [rows EXCEPT ![s] = <<>>]
  /\ checkpoint' = [checkpoint EXCEPT ![s] = EmptySession]
  /\ snapshot' = [snapshot EXCEPT ![s] = EmptyProjection]
  /\ UNCHANGED <<runtime, sequencer, call, emitted, log, crashes>>

-----------------------------------------------------------------------------
Next ==
  \/ \E s \in Sessions, t \in Turns, now \in Clock :
        \/ \E r \in Requests : PrepareEvent(s, t, r, now)
        \/ \E items \in PreviewItems : PreparePreview(s, t, items, now)
  \/ AppendCall \/ AppendFails \/ CommitCall \/ EmitEvent \/ PreviewResponseFails
  \/ Crash \/ Restart
  \/ \E s \in Sessions :
        \/ \E k \in 1..Len(rows[s]) : Prune(s, k)
        \/ ScheduleDeletion(s) \/ UndoDeletion(s) \/ Purge(s)

Spec == Init /\ [][Next]_vars
=============================================================================
