--------------------------- MODULE RuntimeControl ---------------------------
(***************************************************************************)
(* The two threads that serve a connection of the agent runtime            *)
(* (serve_connection in main.rs).  The reader takes frames off the wire,   *)
(* answers control requests itself (RuntimeControl in lib.rs) and queues   *)
(* the others; the dispatcher serves them one at a time, and a Turn keeps  *)
(* it busy in the loop of run_turn (codex_adapter.rs).  The threads share  *)
(* the request identities, the readiness of the protocol, the controls of  *)
(* the active Turn and the fault gate, whose lock the dispatcher holds     *)
(* while it serves.                                                        *)
(*                                                                         *)
(* A frame is known by its place on the wire, and a Turn by the frame that *)
(* asks for it: its place stands for the Session and for the identity the  *)
(* provider gives.  The connection has been initialized, with every        *)
(* capability.  Malformed and oversized frames, terminals and what else    *)
(* the dispatcher serves are left out; the client reads all it is sent.    *)
(* The process ends with its dispatcher.                                   *)
(***************************************************************************)
EXTENDS Integers, Sequences, FiniteSets, Functions

CONSTANTS
  QueueCapacity, \* REQUEST_QUEUE_CAPACITY
  SteerCapacity, \* TURN_STEER_QUEUE_CAPACITY
  MaxFrames,     \* bound: the frames of the connection
  MaxOf,         \* bound: the frames of each method
  MaxRepeats     \* bound: the frames that repeat an identity

ASSUME ControlAssumption ==
  /\ QueueCapacity \in Nat \ {0} /\ SteerCapacity \in Nat \ {0}
  /\ MaxFrames \in Nat /\ MaxRepeats \in Nat

VARIABLES
  wire,        \* the frames that were read
  answers,     \* the answer to each frame
  reader,      \* the reader thread
  main,        \* the dispatcher, with the locals of run_turn
  queue,       \* the channel between them
  gate,        \* TransportFaultGate.failed
  ready,       \* RuntimeControlState.protocol_ready
  claimed,     \* RuntimeControlState.request_ids
  active,      \* RuntimeControlState.active_turn
  drained,     \* a local of run_turn: the steers it took and has not written
  interrupted, \* history: the Turns the provider was told to interrupt
  steered,     \* history: the steers the provider was given for a Turn
  givenUp      \* history: the Turns the runtime itself has cancelled

vars == <<wire, answers, reader, main, queue, gate, ready, claimed, active,
          drained, interrupted, steered, givenUp>>

-----------------------------------------------------------------------------
ControlMethods == {"runtime/heartbeat", "turn/cancel", "turn/steer"}
Addressed == {"turn/cancel", "turn/steer"}
IsControl(f) == f.method \in ControlMethods

Numbers == 1..MaxFrames
NoFrame == 0

(* The identity of a request is the place of the first that carries it; a  *)
(* notification has none.                                                  *)
Request(id, method, turn) == [id |-> id, method |-> method, turn |-> turn]
Notification == Request(NoFrame, "initialized", NoFrame)

(* What the client may send after what it has sent: it can repeat an       *)
(* identity and name any Turn it asked for.                                *)
TurnsAskedFor(sent) == {t \in DOMAIN sent : sent[t].method = "turn/start"}
Identities(sent) ==
  {Len(sent) + 1} \cup
  IF Cardinality({n \in DOMAIN sent : sent[n].id \notin {NoFrame, n}}) < MaxRepeats
    THEN {sent[n].id : n \in {k \in DOMAIN sent : sent[k] # Notification}} ELSE {}
Frames(sent) ==
  {f \in {Request(id, method, NoFrame) :
            id \in Identities(sent), method \in {"runtime/heartbeat", "turn/start", "shutdown"}}
        \cup {Request(id, method, t) :
                id \in Identities(sent), method \in Addressed, t \in TurnsAskedFor(sent)}
        \cup {Notification} :
     Cardinality({n \in DOMAIN sent : sent[n].method = f.method}) < MaxOf[f.method]}

ActiveTurn == [on : BOOLEAN, turn : Numbers \cup {NoFrame}, cancelled : BOOLEAN,
               steering : Seq(Numbers)]
NoActive == [on |-> FALSE, turn |-> NoFrame, cancelled |-> FALSE, steering |-> <<>>]

(* Where run_turn is: "starting" until the provider has answered, then     *)
(* around its loop.  "over": it has returned.                              *)
(* Its thread writes to the provider's standard input itself, without a    *)
(* deadline (write_codex_message): turn/interrupt, turn/steer and the      *)
(* answers to what the provider asks.  It does nothing else meanwhile, and *)
(* if the provider stops reading the write never returns.                  *)
Writing == {"interrupting", "steering", "answering"}
InTurn == {"starting", "polling", "interrupting", "draining", "steering", "receiving",
           "answering", "over"}

Reading == [at |-> "reading", frame |-> NoFrame]
Idle == [at |-> "idle", frame |-> NoFrame]
Stopped == [Idle EXCEPT !.at = "stopped"]

Init ==
  /\ wire = <<>> /\ answers = [n \in Numbers |-> "none"]
  /\ reader = Reading /\ main = Idle
  /\ queue = <<>> /\ gate = "open"
  /\ ready = FALSE /\ claimed = {}
  /\ active = NoActive /\ drained = <<>>
  /\ interrupted = {} /\ givenUp = {}
  /\ steered = [t \in Numbers |-> <<>>]

Turn == <<drained, interrupted, steered, givenUp>>
Up == main.at # "stopped"

Answer(n, what) ==
  answers' = [answers EXCEPT ![n] = IF @ = "none" THEN what ELSE "twice"]

(* claim_request.  Faulty variant: what the reader serves is not claimed.  *)
ClaimIfQueued(f) ==
  claimed' = IF IsControl(f) THEN claimed ELSE claimed \cup {f.id}
Claim(f) == claimed' = claimed \cup {f.id}

-----------------------------------------------------------------------------
(* The control requests, served by either thread.                          *)

(* Faulty variant: any Turn of the Session is taken for the active one.    *)
NamesAnyTurn(f) == active.on
NamesActiveTurn(f) == active.on /\ active.turn = f.turn

Accepts(f) ==
  /\ ready
  /\ f.method \in Addressed => NamesActiveTurn(f)
  /\ f.method = "turn/steer" => Len(active.steering) < SteerCapacity

(* heartbeat_claimed, cancel_claimed, steer_claimed.                       *)
ServeControl(n) ==
  LET f == wire[n]
  IN  \/ /\ Accepts(f)
         /\ Answer(n, "ok")
         /\ active' = [active EXCEPT
              !.cancelled = @ \/ f.method = "turn/cancel",
              !.steering = IF f.method = "turn/steer" THEN Append(@, n) ELSE @]
      \/ /\ ~Accepts(f)
         /\ Answer(n, "refused")
         /\ UNCHANGED active

-----------------------------------------------------------------------------
(* The reader.                                                             *)

(* Faulty variant: what does not fit is dropped without an answer.         *)
EnqueueOrDrop(f, n) ==
  /\ queue' = IF Len(queue) < QueueCapacity THEN Append(queue, n) ELSE queue
  /\ UNCHANGED answers
Enqueue(f, n) ==
  \/ /\ Len(queue) < QueueCapacity
     /\ queue' = Append(queue, n)
     /\ UNCHANGED answers
  \/ /\ Len(queue) = QueueCapacity
     /\ IF f.method = "initialized" THEN UNCHANGED answers ELSE Answer(n, "overloaded")
     /\ UNCHANGED queue

(* A control request is served at once when the protocol is ready, and is  *)
(* queued before that: it must not overtake the handshake.                 *)
ReadFrame(f) ==
  LET n == Len(wire) + 1
  IN  /\ Up /\ reader.at = "reading" /\ n \in Numbers
      /\ wire' = Append(wire, f)
      /\ \/ /\ IsControl(f) /\ ready /\ f.id \notin claimed
            /\ Claim(f)
            /\ reader' = [at |-> "control", frame |-> n]
            /\ UNCHANGED <<answers, queue>>
         \/ /\ IsControl(f) /\ ready /\ f.id \in claimed
            /\ Answer(n, "duplicate")
            /\ UNCHANGED <<reader, queue, claimed>>
         \/ /\ ~(IsControl(f) /\ ready)
            /\ Enqueue(f, n)
            /\ UNCHANGED <<reader, claimed>>
      /\ UNCHANGED <<main, gate, ready, active, Turn>>

(* Faulty variant: the reader goes through the gate, as the dispatcher.    *)
ReaderServesInTurn ==
  /\ Up /\ reader.at = "control" /\ main.at = "idle"
  /\ ServeControl(reader.frame)
  /\ reader' = Reading
  /\ UNCHANGED <<wire, main, queue, gate, ready, claimed, Turn>>
ReaderServes ==
  /\ Up /\ reader.at = "control"
  /\ ServeControl(reader.frame)
  /\ reader' = Reading
  /\ UNCHANGED <<wire, main, queue, gate, ready, claimed, Turn>>

(* The client closes its end, or the validator of frames cannot be used.   *)
ReaderStops ==
  /\ Up /\ reader.at = "reading"
  /\ \E at \in {"stopped", "failing"} : reader' = [Reading EXCEPT !.at = at]
  /\ UNCHANGED <<wire, answers, main, queue, gate, ready, claimed, active, Turn>>

(* TransportFaultGate::fail takes the lock, so waits for the dispatcher.   *)
(* Faulty variant: the gate is a flag, without a lock.                     *)
FailAtOnce ==
  /\ Up /\ reader.at = "failing"
  /\ gate' = "failed"
  /\ reader' = [Reading EXCEPT !.at = "stopped"]
  /\ UNCHANGED <<wire, answers, main, queue, ready, claimed, active, Turn>>
Fail ==
  /\ reader.at = "failing" /\ main.at = "idle"
  /\ gate' = "failed"
  /\ reader' = [Reading EXCEPT !.at = "stopped"]
  /\ UNCHANGED <<wire, answers, main, queue, ready, claimed, active, Turn>>

-----------------------------------------------------------------------------
(* The dispatcher.                                                         *)

(* begin_turn.                                                             *)
BeginTurn(n) ==
  /\ active' = [NoActive EXCEPT !.on = TRUE]
  /\ main' = [Idle EXCEPT !.at = "starting", !.frame = n]

(* handle_frame_stream.                                                    *)
Dispatch(n) ==
  LET f == wire[n]
  IN  \/ /\ f.method = "initialized"
         /\ ready' = TRUE
         /\ UNCHANGED <<answers, claimed, active, main>>
      \/ /\ f.method # "initialized" /\ f.id \in claimed
         /\ Answer(n, "duplicate")
         /\ UNCHANGED <<ready, claimed, active, main>>
      \/ /\ f.method # "initialized" /\ f.id \notin claimed
         /\ Claim(f)
         /\ \/ /\ ~ready \/ f.method = "turn/start"
               /\ Answer(n, "refused")
               /\ UNCHANGED <<ready, active, main>>
            \/ /\ ready /\ f.method = "turn/start"
               /\ BeginTurn(n)
               /\ UNCHANGED <<answers, ready>>
            \/ /\ ready /\ f.method = "shutdown"
               /\ Answer(n, "ok")
               /\ ready' = FALSE /\ main' = Stopped
               /\ UNCHANGED active

Serve ==
  LET n == Head(queue)
      f == wire[n]
  IN  /\ main.at = "idle" /\ queue # <<>> /\ gate = "open"
      /\ queue' = Tail(queue)
      /\ \/ /\ IsControl(f) /\ ready /\ f.id \notin claimed
            /\ Claim(f)
            /\ main' = [Idle EXCEPT !.at = "control", !.frame = n]
            /\ UNCHANGED <<answers, ready, active>>
         \/ /\ IsControl(f) /\ ready /\ f.id \in claimed
            /\ Answer(n, "duplicate")
            /\ UNCHANGED <<main, ready, claimed, active>>
         \/ /\ ~(IsControl(f) /\ ready)
            /\ Dispatch(n)
      /\ UNCHANGED <<wire, reader, gate, Turn>>

MainServesControl ==
  /\ main.at = "control"
  /\ ServeControl(main.frame)
  /\ main' = Idle
  /\ UNCHANGED <<wire, reader, queue, gate, ready, claimed, Turn>>

(* No sender is left and the queue is empty, or the gate has failed.       *)
MainEnds ==
  /\ main.at = "idle"
  /\ gate = "failed" \/ (queue = <<>> /\ reader.at = "stopped")
  /\ main' = Stopped
  /\ UNCHANGED <<wire, answers, reader, queue, gate, ready, claimed, active, Turn>>

(* The validator cannot be used for the frame that was taken.              *)
MainBreaks ==
  /\ main.at = "idle" /\ queue # <<>> /\ gate = "open"
  /\ main' = Stopped
  /\ UNCHANGED <<wire, answers, reader, queue, gate, ready, claimed, active, Turn>>

-----------------------------------------------------------------------------
(* A Turn (turn_start_stream and run_turn).                                *)

(* The provider's answer gives the Turn its identity (identify_turn).  If  *)
(* the Turn cannot be stored it has none, and is cancelled.                *)
TurnStarts ==
  /\ main.at = "starting"
  /\ main' = [main EXCEPT !.at = "polling"]
  /\ \/ /\ active' = [active EXCEPT !.turn = main.frame]
        /\ Answer(main.frame, "ok")
        /\ UNCHANGED givenUp
     \/ /\ active' = [active EXCEPT !.cancelled = TRUE]
        /\ givenUp' = givenUp \cup {main.frame}
        /\ UNCHANGED answers
  /\ UNCHANGED <<wire, reader, queue, gate, ready, claimed, drained, interrupted, steered>>

(* One round of the loop: it tells the provider of a cancellation, once,   *)
(* passes the steers on, and takes a message.                              *)
Goes(at) == main' = [main EXCEPT !.at = at]

Poll ==
  /\ main.at = "polling"
  /\ Goes(IF active.cancelled /\ main.frame \notin interrupted THEN "interrupting"
          ELSE "draining")
  /\ UNCHANGED <<wire, answers, reader, queue, gate, ready, claimed, active, Turn>>

InterruptWritten ==
  /\ main.at = "interrupting"
  /\ Goes("draining")
  /\ interrupted' = interrupted \cup {main.frame}
  /\ UNCHANGED <<wire, answers, reader, queue, gate, ready, claimed, active, drained,
                 steered, givenUp>>

(* The queue is emptied before the first steer is written.                 *)
Drain ==
  /\ main.at = "draining"
  /\ drained' = active.steering
  /\ active' = [active EXCEPT !.steering = <<>>]
  /\ Goes(IF active.steering = <<>> THEN "receiving" ELSE "steering")
  /\ UNCHANGED <<wire, answers, reader, queue, gate, ready, claimed, interrupted, steered,
                 givenUp>>

SteerWritten ==
  /\ main.at = "steering"
  /\ steered' = [steered EXCEPT ![main.frame] = Append(@, Head(drained))]
  /\ drained' = Tail(drained)
  /\ Goes(IF Tail(drained) = <<>> THEN "receiving" ELSE "steering")
  /\ UNCHANGED <<wire, answers, reader, queue, gate, ready, claimed, active, interrupted,
                 givenUp>>

(* A message, if there is one, may be a request of the provider, which is  *)
(* answered.  What cannot be stored cancels the Turn from within.          *)
Receive ==
  /\ main.at = "receiving"
  /\ Goes("polling") \/ Goes("answering")
  /\ \/ UNCHANGED <<active, givenUp>>
     \/ /\ active' = [active EXCEPT !.cancelled = TRUE]
        /\ givenUp' = givenUp \cup {main.frame}
  /\ UNCHANGED <<wire, answers, reader, queue, gate, ready, claimed, drained, interrupted,
                 steered>>

AnswerWritten ==
  /\ main.at = "answering"
  /\ Goes("polling")
  /\ UNCHANGED <<wire, answers, reader, queue, gate, ready, claimed, active, Turn>>

(* run_turn returns: the Turn has ended, a deadline has passed, a write    *)
(* has failed.                                                             *)
TurnReturns ==
  /\ main.at \in InTurn \ {"over"}
  /\ Goes("over")
  /\ drained' = <<>>
  /\ UNCHANGED <<wire, answers, reader, queue, gate, ready, claimed, active,
                 interrupted, steered, givenUp>>

(* finish_turn, and what settles the call: it answers if nothing has, or   *)
(* stops the runtime.                                                      *)
FinishTurn ==
  /\ main.at = "over"
  /\ active' = NoActive
  /\ \/ /\ answers[main.frame] = "none"
        /\ Answer(main.frame, "refused")
     \/ answers[main.frame] # "none" /\ UNCHANGED answers
  /\ main' \in {Idle, Stopped}
  /\ UNCHANGED <<wire, reader, queue, gate, ready, claimed, Turn>>

Next ==
  \/ \E f \in Frames(wire) : ReadFrame(f)
  \/ ReaderServes
  \/ ReaderStops
  \/ Fail
  \/ Serve
  \/ MainServesControl
  \/ MainEnds
  \/ MainBreaks
  \/ TurnStarts
  \/ Poll
  \/ InterruptWritten
  \/ Drain
  \/ SteerWritten
  \/ Receive
  \/ AnswerWritten
  \/ TurnReturns
  \/ FinishTurn

Spec == Init /\ [][Next]_vars

(* Both threads go on, and the loop of a Turn has its rounds (a read of    *)
(* the provider waits 100 ms): but a Turn may never start or end, and a    *)
(* write to the provider may never return.                                 *)
FairSpec ==
  /\ Spec
  /\ WF_vars(ReaderServes) /\ WF_vars(Fail)
  /\ WF_vars(Serve) /\ WF_vars(MainServesControl) /\ WF_vars(MainEnds)
  /\ WF_vars(Poll \/ Drain \/ Receive) /\ WF_vars(FinishTurn)

-----------------------------------------------------------------------------
(* Every variable has its type, and neither queue outgrows its capacity    *)
(* (sync_channel in main.rs, TurnSteeringHandle::enqueue).                 *)
TypeOK ==
  /\ wire \in Seq([id : Numbers \cup {NoFrame}, turn : Numbers \cup {NoFrame},
                    method : ControlMethods \cup {"initialized", "turn/start", "shutdown"}])
  /\ answers \in [Numbers -> {"none", "ok", "refused", "duplicate", "overloaded", "twice"}]
  /\ reader \in [at : {"reading", "control", "failing", "stopped"},
                  frame : Numbers \cup {NoFrame}]
  /\ main \in [at : {"idle", "control", "stopped"} \cup InTurn,
                frame : Numbers \cup {NoFrame}]
  /\ queue \in Seq(Numbers) /\ Len(queue) <= QueueCapacity
  /\ gate \in {"open", "failed"} /\ ready \in BOOLEAN
  /\ claimed \subseteq Numbers
  /\ active \in ActiveTurn /\ Len(active.steering) <= SteerCapacity
  /\ drained \in Seq(Numbers)
  /\ interrupted \subseteq Numbers /\ givenUp \subseteq Numbers
  /\ steered \in [Numbers -> Seq(Numbers)]

AcceptedFor(t, method) ==
  {n \in DOMAIN wire : answers[n] = "ok" /\ wire[n].method = method /\ wire[n].turn = t}

(* A frame is answered once, and of the frames with one identity only one  *)
(* is served, whichever of the two threads comes first (claim_request).    *)
RequestsRunOnce ==
  /\ \A n \in Numbers : answers[n] # "twice"
  /\ \A n, k \in DOMAIN wire :
       /\ wire[n].id = wire[k].id /\ wire[n].id # NoFrame
       /\ answers[n] \in {"ok", "refused"} /\ answers[k] \in {"ok", "refused"}
       => n = k

(* A Turn is interrupted only if a cancellation that names it was          *)
(* accepted, or the runtime gave it up: no cancellation that comes late is *)
(* taken for the next Turn (cancel_claimed, begin_turn, finish_turn).      *)
CancelHitsItsTurn ==
  \A t \in interrupted : t \in givenUp \/ AcceptedFor(t, "turn/cancel") # {}

(* The provider is given, for a Turn, only accepted steers that name it,   *)
(* each once and in the order they were sent (steer_claimed, run_turn).    *)
SteersReachTheirTurn ==
  \A t \in Numbers :
    /\ \A i \in DOMAIN steered[t] : steered[t][i] \in AcceptedFor(t, "turn/steer")
    /\ \A i, j \in DOMAIN steered[t] : i < j => steered[t][i] < steered[t][j]

(* A control request acts on the Turn it names or on none, although the    *)
(* Turn may end and the next begin between any two steps of the reader.    *)
ControlsHitTheirTurn == CancelHitsItsTurn /\ SteersReachTheirTurn

(* Once the validator of frames has failed for the reader, nothing is      *)
(* served any more, not even to its end (TransportFaultGate).              *)
NothingRunsAfterFault ==
  gate = "failed" => main.at \in {"idle", "stopped"}

(* The connection is sound: its queues are bounded, and a fault ends it.   *)
ConnectionIsSound == TypeOK /\ NothingRunsAfterFault

(* What the provider never sees although the client was told that it was   *)
(* accepted: steering is accepted as long as the Turn is the active one    *)
(* (steer_claimed), and finish_turn drops what is queued.                  *)
AcceptedSteersAreApplied ==
  \A t \in Numbers : \A n \in AcceptedFor(t, "turn/steer") :
    \/ n \in Range(steered[t])
    \/ Up /\ active.on /\ active.turn = t

(* The reader answers a control request although the dispatcher is in a    *)
(* Turn that may never end, or in a write that never returns.              *)
ControlIsReachable ==
  \A n \in Numbers :
    (reader = [at |-> "control", frame |-> n]) ~> (answers[n] # "none" \/ ~Up)

(* A cancellation that was accepted reaches the provider, unless the loop  *)
(* of its Turn ends first, if no write to the provider blocks for ever:    *)
(* one that stops reading holds the loop, and is never interrupted.        *)
WritesReturn == []<>(main.at \notin Writing)
CancelsArrive ==
  WritesReturn => \A t \in Numbers :
    (AcceptedFor(t, "turn/cancel") # {}) ~>
      (t \in interrupted \/ main.frame # t \/ main.at = "over")

(* A control request is answered beside the Turn it is about, and what was *)
(* accepted takes effect.                                                  *)
ControlsArrive == ControlIsReachable /\ CancelsArrive

(* Every request is answered, or the runtime ends, if no Turn goes on for  *)
(* ever: what the full queue turns away is told so (overload_response).    *)
TurnsEnd == []<>(main.at \notin InTurn)
RequestsAreAnswered ==
  TurnsEnd => \A n \in Numbers :
    (n \in DOMAIN wire /\ wire[n].method # "initialized") ~> (answers[n] # "none" \/ ~Up)
=============================================================================
