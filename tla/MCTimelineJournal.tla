------------------------- MODULE MCTimelineJournal -------------------------
(* Small instances of TimelineJournal for TLC.                             *)
EXTENDS TimelineJournal, TimelineJournalProps

CONSTANTS t1, t2, i1, i2, i3

Ask(event, id, shape, state) ==
  [event |-> event, item |-> [id |-> id, shape |-> shape, state |-> state]]
Bare(event) == [event |-> event, item |-> NoItem]

(* A Turn with a streamed message, an updated usage Item, and an error at  *)
(* its end, whose identifier may be that of the usage Item.                *)
LifecycleRequests ==
  { Bare("turn.started"), Bare("turn.completed"),
    Ask("turn.failed", i2, "error-system", "completed"),
    Ask("turn.failed", i3, "error-system", "completed"),
    Ask("item.started", i1, "message-agent", "started"),
    Ask("item.delta", i1, "message-agent", "delta"),
    Ask("item.completed", i1, "message-agent", "completed"),
    Ask("usage.updated", i2, "usage-system", "updated") }

(* The shortest Turns, for the run about what a stop leaves of them.       *)
ShortRequests ==
  { Bare("turn.started"), Bare("turn.interrupted"),
    Ask("item.started", i1, "message-agent", "started"),
    Ask("turn.failed", i2, "error-system", "completed") }

(* Turns without Items of their own, beside preview Turns that have some.  *)
CrashRequests ==
  { Bare("turn.started"), Bare("turn.interrupted"),
    Ask("turn.failed", i2, "error-system", "completed") }

(* The Turns are interchangeable: no request names one.                    *)
TurnSymmetry == Permutations({t1, t2})

NoPreview == {}
OnePreview == {<<i1, i3>>}
=============================================================================
