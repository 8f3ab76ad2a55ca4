-------------------------- MODULE MCTurnExecution --------------------------
(* Small instances of TurnExecution for TLC.                               *)
EXTENDS TurnExecution, TurnExecutionProps

CONSTANTS t1, t2, k1, k2

(* A report that is persisted, one that is only streamed, and one without  *)
(* an Item.                                                                *)
Observed(event, shape, state, persisted) ==
  [event |-> event, item |-> [id |-> "any", shape |-> shape, state |-> state],
   persisted |-> persisted]
SomeObservations ==
  { Observed("usage.updated", "usage-system", "updated", TRUE),
    [event |-> "turn.cancellation-acknowledged", item |-> NoItem, persisted |-> FALSE] }
NoObservations == {}

=============================================================================
