------------------------ MODULE TimelineJournalProps ------------------------
(* The properties of TimelineJournal.                                      *)
EXTENDS TimelineJournal

Anchors == Envelopes \cup {NoEvent}

(* The variables keep their types; every durable or emitted event is one   *)
(* the protocol can carry, within MAX_SAFE_JSON_INTEGER.  What the         *)
(* sequencer holds is the subject of RestoreIsFaithful.                    *)
TypeOK ==
  /\ cursor \in [Sessions -> [head : Anchors, floor : Anchors]]
  /\ rows \in [Sessions -> Seq(Envelopes)]
  /\ deletion \in [Sessions -> {"none", "pending", "purged"}]
  /\ runtime \in {"up", "down", "unavailable"}
  /\ DOMAIN sequencer = Sessions /\ DOMAIN checkpoint = Sessions /\ DOMAIN snapshot = Sessions
  /\ call.stage \in {"none", "prepared", "appended", "committed"}
  /\ call.stage # "none" => call.session \in Sessions
  /\ call.stage \in {"appended", "committed"} => call.events \in Seq(Envelopes) \ {<<>>}
  /\ emitted \in [Sessions -> Seq(Envelopes)]
  /\ log \in [Sessions -> Seq(Envelopes)]
  /\ crashes \in 0..MaxCrashes

(* The journal's own checks refuse no event the sequencer prepared (an     *)
(* append fails only for a deleted Session, a full journal or a storage    *)
(* fault), with one exception at the edge of the safe integers: finish     *)
(* gives out MAX_SAFE_JSON_INTEGER itself, and the cursor's CHECK refuses  *)
(* the call that uses it, a preview Turn as a whole.                       *)
LastNumber(events) == events[Len(events)].sequence
PreparedEventsFit ==
  call.stage = "prepared" /\ Writable(call.session) =>
    (EventsFit(call.session, call.events) <=> LastNumber(call.events) # MaxSafe)

(* A process that stops at any moment, in the middle of any call, finds a  *)
(* journal that restore_all accepts: it is within its limits, the cursor,  *)
(* the checkpoint, the snapshot and the rows pass validation, and          *)
(* replaying the rows on the checkpoint reaches the head.                  *)
(* What it rebuilds is what the process held between two calls, except for *)
(* the Items of finished Turns, which a checkpoint forgets.                *)
RestoreIsFaithful ==
  /\ JournalIsRestorable
  /\ \A s \in Sessions : Idle /\ deletion[s] # "purged" =>
       CheckpointOf(Restored(s).session) = CheckpointOf(sequencer[s])

(* Maintenance may cut the journal after a retained event exactly when     *)
(* what must be kept of the events up to it fits: the floor's and the      *)
(* checkpoint's numbers of Turns and Items, and no Item identifier in two  *)
(* Turns, which the table of the stored snapshot cannot hold.  Nothing     *)
(* else refuses a cut: the projection accepts every history the sequencer  *)
(* produced, and the checkpoint and the floor snapshot of every prefix     *)
(* pass validation otherwise.                                              *)
CutFits(view, session) ==
  FloorFits(view) /\ ItemsAreDistinct(view) /\ CheckpointFits(CheckpointOf(session))
OnlyLimitsRefuseACut ==
  \A s \in Sessions : \A k \in 1..Len(rows[s]) :
    PruneIsPermitted(s, k) <=> CutFits(PrunedView(s, k).view, PrunedState(s, k).session)

(* Cutting the journal changes nothing a reader can see: the snapshot at   *)
(* the floor with the retained rows gives the view of the whole history.   *)
PruningKeepsTheView ==
  \A s \in Sessions : deletion[s] # "purged" =>
    /\ ProjectFrom(snapshot[s], rows[s]).ok
    /\ ProjectFrom(snapshot[s], rows[s]) = ProjectFrom(EmptyProjection, log[s])

(* Whatever happened before, maintenance can cut the journal wherever what *)
(* it must keep fits, and no reader can tell how often it did.             *)
PruneIsSafe == OnlyLimitsRefuseACut /\ PruningKeepsTheView

(* No event reaches a client before it is durable, and none out of order,  *)
(* twice, or under a sequence number that another event has in the log.    *)
EmittedIsDurable ==
  \A s \in Sessions :
    /\ \A n \in 1..Len(emitted[s]) : /\ emitted[s][n].sequence \in 1..Len(log[s])
                                     /\ log[s][emitted[s][n].sequence] = emitted[s][n]
    /\ \A m, n \in 1..Len(emitted[s]) : m < n => emitted[s][m].sequence < emitted[s][n].sequence

(* The history of a Session is numbered from one without a gap and its     *)
(* times never go back, whatever the clock did and however often the       *)
(* process restarted; the retained rows are its end.                       *)
LogIsContiguous ==
  \A s \in Sessions :
    /\ \A n \in 1..Len(log[s]) : log[s][n].sequence = n
    /\ \A n \in 2..Len(log[s]) : log[s][n - 1].timestamp <= log[s][n].timestamp
    /\ deletion[s] # "purged" =>
         rows[s] = SubSeq(log[s], cursor[s].floor.sequence + 1, Len(log[s]))

(* The journal is sound: events of the protocol within its limits, without *)
(* a gap, and what maintenance left of them is their end.                  *)
JournalIsSound == TypeOK /\ LogIsContiguous

(* The sequencer in memory is at the head of the journal, or one call      *)
(* behind it: an append that became durable always finds the sequencer it  *)
(* was prepared from, so its commit is never refused as stale.             *)
SequencerFollowsJournal ==
  runtime = "up" => \A s \in Sessions : deletion[s] # "purged" =>
    IF call.stage = "appended" /\ call.session = s
    THEN /\ ~IsStale(sequencer[s], call)
         /\ cursor[s].head = call.candidate.lastEvent
    ELSE cursor[s].head = sequencer[s].lastEvent

(* In the durable history every Turn starts once, before its other events, *)
(* ends at most once, and nothing of it comes after its end; two Turns of  *)
(* a Session never overlap.                                                *)
TurnsAreWellFormed ==
  \A s \in Sessions : \A m, n \in 1..Len(log[s]) : m < n =>
    LET a == log[s][m]
        b == log[s][n]
    IN  /\ b.turn = a.turn => ~IsTerminal(a.event) /\ b.event # "turn.started"
        /\ b.turn # a.turn => \E k \in m..(n - 1) : log[s][k].turn = a.turn /\ IsTerminal(log[s][k].event)

(* A purged Session leaves nothing in the journal and takes no new event,  *)
(* although the sequencer in memory still knows its last number.           *)
PurgeIsFinal ==
  [][\A s \in Sessions : deletion[s] = "purged" =>
       /\ deletion'[s] = "purged" /\ rows'[s] = <<>> /\ cursor'[s].head = NoEvent
       /\ emitted'[s] = emitted[s]]_vars

(* No preview Turn is ever half done in the durable history: a failed      *)
(* transaction or a stop of the process leaves all of its six events or    *)
(* none.  (Once the Item of its user's message is there, its end is too; a *)
(* Turn of the provider has no such promise.)                              *)
PreviewTurnsAreWhole ==
  \A s \in Sessions : \A m \in 1..Len(log[s]), items \in PreviewItems :
    log[s][m].item # NoItem /\ log[s][m].item.id = items[1] =>
      \E n \in (m + 1)..Len(log[s]) :
        log[s][n].turn = log[s][m].turn /\ IsTerminal(log[s][n].event)

(* A restart resumes every Session in a state to which a new Turn can be   *)
(* appended (specs/project-session-management/spec.md:42-44: "reconstruct  *)
(* its latest stable state, replay missing events, and append new turns to *)
(* the same session").                                                     *)
NewTurnsAfterRestart ==
  [][runtime = "down" /\ runtime' = "up" =>
       \A s \in Sessions : Writable(s) => RunningTurns(sequencer'[s]) = {}]_vars

(* The journal with its crashes, replays, pruning and deletion implements  *)
(* the append-only log its readers are promised.                           *)
Log == INSTANCE EventLog WITH published <- emitted,
                              closed <- {s \in Sessions : deletion[s] = "purged"}
ImplementsEventLog == Log!Spec
=============================================================================
