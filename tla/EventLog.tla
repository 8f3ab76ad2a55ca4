------------------------------- MODULE EventLog -------------------------------
(***************************************************************************)
(* What the Timeline promises to its readers, whatever happens to the      *)
(* process: per Session an append-only log numbered from one, from which   *)
(* events are published in order, never twice and never before they are    *)
(* in the log; once a Session is closed nothing is added or published.     *)
(*                                                                         *)
(* Publishing may skip events (those that were durable when the process    *)
(* stopped are found by reading the log), so a reader recognises a gap by  *)
(* the number of the next event.                                           *)
(***************************************************************************)
EXTENDS Integers, Sequences

CONSTANT Sessions

VARIABLES log, published, closed
logVars == <<log, published, closed>>

Init ==
  /\ log = [s \in Sessions |-> <<>>]
  /\ published = [s \in Sessions |-> <<>>]
  /\ closed = {}

LastPublished(s) ==
  IF published[s] = <<>> THEN 0 ELSE published[s][Len(published[s])].sequence

(* One transaction adds one or more events, numbered on from the last.     *)
AppendEvents(s) ==
  /\ s \notin closed
  /\ Len(log'[s]) > Len(log[s])
  /\ \A n \in 1..Len(log[s]) : log'[s][n] = log[s][n]
  /\ \A n \in Len(log[s]) + 1..Len(log'[s]) : log'[s][n].sequence = n
  /\ \A other \in Sessions \ {s} : log'[other] = log[other]
  /\ DOMAIN log' = Sessions
  /\ UNCHANGED <<published, closed>>

Publish(s) ==
  /\ s \notin closed
  /\ \E n \in LastPublished(s) + 1..Len(log[s]) :
        published' = [published EXCEPT ![s] = Append(@, log[s][n])]
  /\ UNCHANGED <<log, closed>>

Close(s) ==
  /\ closed' = closed \cup {s}
  /\ UNCHANGED <<log, published>>

Next == \E s \in Sessions : AppendEvents(s) \/ Publish(s) \/ Close(s)
Spec == Init /\ [][Next]_logVars
=============================================================================
