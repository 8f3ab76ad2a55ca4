----------------------- MODULE RuntimeControl_proofs -----------------------
(***************************************************************************)
(* The safety properties of a connection, for any capacity of its queues   *)
(* and any number of frames.                                               *)
(*                                                                         *)
(* Three facts carry them.  A frame that was read is at one place: with    *)
(* the reader, with the dispatcher, in the queue between them, or answered *)
(* or dropped.  Whatever is or was served has claimed its identity.  And   *)
(* the controls of the active Turn belong to the frame the dispatcher is   *)
(* at, which is the only Turn they can name: what the provider was given,  *)
(* what the loop has taken and not written, and what is queued are one     *)
(* ascending sequence of accepted steers.                                  *)
(***************************************************************************)
EXTENDS RuntimeControl, SequenceTheorems, TLAPS

Methods == ControlMethods \cup {"initialized", "turn/start", "shutdown"}
FrameSet == [id : Numbers \cup {NoFrame}, turn : Numbers \cup {NoFrame}, method : Methods]
Answers == {"none", "ok", "refused", "duplicate", "overloaded"}

(* Only a notification is without an identity, and a request that is about *)
(* a Turn names one.                                                       *)
Sound(f) ==
  /\ f \in FrameSet
  /\ f.method = "initialized" => f = Notification
  /\ f.method # "initialized" => f.id \in Numbers
  /\ f.method \in Addressed => f.turn \in Numbers

WireFits ==
  /\ wire \in Seq(FrameSet) /\ Len(wire) \in 0..MaxFrames
  /\ \A n \in 1..Len(wire) : Sound(wire[n])

AnswersFit ==
  /\ answers \in [Numbers -> Answers]
  /\ \A n \in Numbers : n > Len(wire) => answers[n] = "none"

Ascending(s) == \A i, j \in 1..Len(s) : i < j => s[i] < s[j]

QueueFits ==
  /\ queue \in Seq(Numbers) /\ Len(queue) <= QueueCapacity
  /\ Ascending(queue)
  /\ \A i \in 1..Len(queue) :
       /\ queue[i] \in 1..Len(wire) /\ answers[queue[i]] = "none"
       /\ queue[i] # reader.frame /\ queue[i] # main.frame

(* The reader waits for its own control request, so no frame is behind it. *)
ReaderFits ==
  /\ reader \in [at : {"reading", "control", "failing", "stopped"},
                 frame : Numbers \cup {NoFrame}]
  /\ reader.at # "control" => reader.frame = NoFrame
  /\ reader.at = "control" =>
       /\ reader.frame = Len(wire) /\ Len(wire) # 0
       /\ IsControl(wire[reader.frame]) /\ answers[reader.frame] = "none"
       /\ reader.frame # main.frame

MainFits ==
  /\ main \in [at : {"idle", "control", "stopped"} \cup InTurn, frame : Numbers \cup {NoFrame}]
  /\ main.at \in {"idle", "stopped"} => main.frame = NoFrame
  /\ main.at = "control" => IsControl(wire[main.frame])
  /\ main.at \notin {"idle", "stopped"} => main.frame \in 1..Len(wire)
  /\ main.at \in {"control", "starting"} => answers[main.frame] = "none"
  /\ gate = "failed" => main.at \in {"idle", "stopped"}

Served ==
  {n \in 1..Len(wire) :
     n = reader.frame \/ n = main.frame \/ answers[n] \in {"ok", "refused"}}

ClaimsFit ==
  /\ claimed \subseteq Numbers
  /\ \A n \in Served : wire[n].id \in claimed
  /\ \A n, k \in Served : wire[n].id = wire[k].id => n = k

Accepted(n, t, method) ==
  n \in 1..Len(wire) /\ answers[n] = "ok" /\ wire[n].method = method /\ wire[n].turn = t
Cancelled(t) == t \in givenUp \/ \E n \in Numbers : Accepted(n, t, "turn/cancel")

(* There are controls as long as the dispatcher is in a Turn, and they     *)
(* name no other.  What is queued comes after what the provider was given. *)
ActiveFits ==
  /\ active \in ActiveTurn /\ Len(active.steering) <= SteerCapacity
  /\ active.on <=> main.at \in InTurn
  /\ ~active.on => active = NoActive
  /\ active.turn \in {NoFrame, main.frame}
  /\ active.turn = NoFrame => active.steering = <<>>
  /\ active.cancelled => Cancelled(main.frame)
  /\ Ascending(active.steering)
  /\ \A i \in 1..Len(active.steering) :
       /\ Accepted(active.steering[i], main.frame, "turn/steer")
       /\ \A k \in 1..Len(steered[main.frame]) : steered[main.frame][k] < active.steering[i]

(* What the loop has taken lies between the two, and what it tells the     *)
(* provider was asked for.                                                 *)
LoopFits ==
  /\ main.at = "interrupting" => active.cancelled
  /\ drained \in Seq(Numbers) /\ Ascending(drained)
  /\ main.at = "steering" <=> drained # <<>>
  /\ \A i \in 1..Len(drained) :
       /\ Accepted(drained[i], main.frame, "turn/steer")
       /\ \A k \in 1..Len(steered[main.frame]) : steered[main.frame][k] < drained[i]
       /\ \A k \in 1..Len(active.steering) : drained[i] < active.steering[k]

HistoryFits ==
  /\ interrupted \subseteq Numbers /\ givenUp \subseteq Numbers
  /\ steered \in [Numbers -> Seq(Numbers)]
  /\ \A t \in interrupted : Cancelled(t)
  /\ \A t \in Numbers :
       /\ Ascending(steered[t])
       /\ \A i \in 1..Len(steered[t]) : Accepted(steered[t][i], t, "turn/steer")

IInv ==
  /\ gate \in {"open", "failed"} /\ ready \in BOOLEAN
  /\ WireFits /\ AnswersFit /\ QueueFits /\ ReaderFits /\ MainFits
  /\ ClaimsFit /\ ActiveFits /\ LoopFits /\ HistoryFits

-----------------------------------------------------------------------------
(* Facts about the values *)

LEMMA ConstantsFit ==
  QueueCapacity \in Nat \ {0} /\ SteerCapacity \in Nat \ {0} /\ MaxFrames \in Nat
BY ControlAssumption

LEMMA NoFrameIsNone == NoFrame \notin Numbers /\ NoFrame = 0 /\ Numbers \subseteq Nat
BY ControlAssumption DEF NoFrame, Numbers

LEMMA NoActiveFits ==
  /\ NoActive \in ActiveTurn /\ [NoActive EXCEPT !.on = TRUE] \in ActiveTurn
  /\ NoActive.steering = <<>> /\ NoActive.turn = NoFrame
  /\ ~NoActive.on /\ ~NoActive.cancelled
<1>1. <<>> \in Seq(Numbers)
  BY EmptySeq
<1> QED
  BY <1>1 DEF NoActive, ActiveTurn, NoFrame

LEMMA WireIsTyped ==
  ASSUME WireFits
  PROVE  /\ wire \in Seq(FrameSet) /\ Len(wire) \in Nat /\ Len(wire) <= MaxFrames
         /\ DOMAIN wire = 1..Len(wire) /\ 1..Len(wire) \subseteq Numbers
         /\ \A n \in 1..Len(wire) : Sound(wire[n])
BY ConstantsFit DEF WireFits, Numbers

(* The client sends only frames that are sound.                            *)
LEMMA FramesAreSound ==
  ASSUME WireFits, Len(wire) + 1 \in Numbers, NEW f \in Frames(wire)
  PROVE  Sound(f)
<1>1. /\ DOMAIN wire = 1..Len(wire) /\ 1..Len(wire) \subseteq Numbers
      /\ \A n \in 1..Len(wire) : Sound(wire[n])
  BY WireIsTyped
<1>2. \A n \in 1..Len(wire) : wire[n] # Notification => wire[n].id \in Numbers
  BY <1>1 DEF Sound
<1>3. Identities(wire) \subseteq Numbers
  BY <1>1, <1>2 DEF Identities
<1>4. TurnsAskedFor(wire) \subseteq Numbers
  BY <1>1 DEF TurnsAskedFor
<1>5. CASE f = Notification
  BY <1>5 DEF Sound, FrameSet, Notification, Request, Methods, Addressed, NoFrame
<1>6. CASE \E id \in Identities(wire), method \in {"runtime/heartbeat", "turn/start", "shutdown"} :
             f = Request(id, method, NoFrame)
  BY <1>3, <1>6 DEF Sound, FrameSet, Request, Methods, ControlMethods, Addressed, NoFrame
<1>7. CASE \E id \in Identities(wire), method \in Addressed, t \in TurnsAskedFor(wire) :
             f = Request(id, method, t)
  BY <1>3, <1>4, <1>7 DEF Sound, FrameSet, Request, Methods, ControlMethods, Addressed, NoFrame
<1> QED
  BY <1>5, <1>6, <1>7 DEF Frames

(* What a frame that is answered the first time is told, it is told.       *)
LEMMA AnswerGives ==
  ASSUME AnswersFit, NEW n \in Numbers, answers[n] = "none", NEW what \in Answers,
         Answer(n, what)
  PROVE  /\ answers' \in [Numbers -> Answers]
         /\ answers'[n] = what
         /\ \A k \in Numbers : k # n => answers'[k] = answers[k]
BY DEF AnswersFit, Answer

LEMMA AppendAscends ==
  ASSUME NEW s \in Seq(Numbers), NEW n \in Numbers, Ascending(s), \A i \in 1..Len(s) : s[i] < n
  PROVE  Ascending(Append(s, n))
<1> DEFINE longer == Append(s, n)
<1>1. /\ Len(s) \in Nat /\ Len(longer) = Len(s) + 1 /\ longer[Len(s) + 1] = n
      /\ \A i \in 1..Len(s) : longer[i] = s[i]
  OBVIOUS
<1> HIDE DEF longer
<1>2. \A i \in 1..Len(longer) : i \in 1..Len(s) \/ i = Len(s) + 1
  BY <1>1
<1> SUFFICES ASSUME NEW i \in 1..Len(longer), NEW j \in 1..Len(longer), i < j
             PROVE  longer[i] < longer[j]
  BY DEF Ascending, longer
<1>3. i \in 1..Len(s)
  BY <1>1
<1>4. CASE j \in 1..Len(s)
  BY <1>1, <1>3, <1>4 DEF Ascending
<1>5. CASE j = Len(s) + 1
  BY <1>1, <1>3, <1>5
<1> QED
  BY <1>2, <1>4, <1>5

(* An answer that was given stays, and so does what was accepted.          *)
Grows ==
  /\ Len(wire) <= Len(wire') /\ Len(wire') \in Nat
  /\ \A n \in 1..Len(wire) : wire'[n] = wire[n]
  /\ \A n \in 1..Len(wire) : answers[n] = "ok" => answers'[n] = "ok"

LEMMA AcceptedStays ==
  ASSUME WireFits, Grows
  PROVE  \A n, t, method : Accepted(n, t, method) => Accepted(n, t, method)'
BY WireIsTyped DEF Grows, Accepted

LEMMA CancelledStays ==
  ASSUME WireFits, Grows, givenUp \subseteq givenUp'
  PROVE  \A t : Cancelled(t) => Cancelled(t)'
BY AcceptedStays DEF Cancelled

LEMMA HistoryHolds ==
  ASSUME WireFits, Grows, HistoryFits, UNCHANGED <<interrupted, steered>>,
         givenUp \subseteq givenUp', givenUp' \subseteq Numbers
  PROVE  HistoryFits'
<1>1. /\ \A t : Cancelled(t) => Cancelled(t)'
      /\ \A n, t, method : Accepted(n, t, method) => Accepted(n, t, method)'
  BY CancelledStays, AcceptedStays
<1> QED
  BY <1>1 DEF HistoryFits, Ascending

LEMMA ActiveHolds ==
  ASSUME WireFits, Grows, ActiveFits, UNCHANGED <<active, steered>>, givenUp \subseteq givenUp',
         main'.frame = main.frame, main'.at \in InTurn <=> main.at \in InTurn
  PROVE  ActiveFits'
<1>1. /\ \A t : Cancelled(t) => Cancelled(t)'
      /\ \A n, t, method : Accepted(n, t, method) => Accepted(n, t, method)'
  BY CancelledStays, AcceptedStays
<1> QED
  BY <1>1 DEF ActiveFits, Ascending

LEMMA LoopHolds ==
  ASSUME WireFits, Grows, LoopFits, UNCHANGED <<drained, steered>>,
         active'.steering = active.steering, active.cancelled => active'.cancelled,
         main'.frame = main.frame, main'.at = "steering" <=> main.at = "steering",
         main'.at = "interrupting" => main.at = "interrupting"
  PROVE  LoopFits'
<1>1. \A n, t, method : Accepted(n, t, method) => Accepted(n, t, method)'
  BY AcceptedStays
<1> QED
  BY <1>1 DEF LoopFits, Ascending

LEMMA NothingDrained ==
  ASSUME drained' = <<>>, main'.at \notin {"steering", "interrupting"}
  PROVE  LoopFits'
<1>1. <<>> \in Seq(Numbers) /\ Len(<<>>) = 0
  BY EmptySeq
<1> QED
  BY <1>1 DEF LoopFits, Ascending

(* A step from and to another place of the dispatcher.                     *)
LEMMA NoSteerIsWritten ==
  ASSUME IInv, main.at # "steering", main'.at \notin {"steering", "interrupting"},
         UNCHANGED drained
  PROVE  LoopFits'
<1>1. drained' = <<>>
  BY DEF IInv, LoopFits
<1> QED
  BY <1>1, NothingDrained

(* Nothing that was not served begins to be.                               *)
LEMMA ClaimsHold ==
  ASSUME WireFits, Grows, ClaimsFit, claimed \subseteq claimed', claimed' \subseteq Numbers,
         Served' \subseteq Served
  PROVE  ClaimsFit'
<1>1. \A n \in Served : n \in 1..Len(wire) /\ wire'[n] = wire[n]
  BY DEF Served, Grows
<1> QED
  BY <1>1 DEF ClaimsFit

(* What begins to be served claims an identity that nothing has claimed.   *)
LEMMA ClaimsGrow ==
  ASSUME WireFits, Grows, ClaimsFit, NEW n \in 1..Len(wire'), wire'[n].id \in Numbers \ claimed,
         claimed' = claimed \cup {wire'[n].id}, Served' \subseteq Served \cup {n}
  PROVE  ClaimsFit'
<1>1. \A k \in Served : k \in 1..Len(wire) /\ wire'[k] = wire[k] /\ wire[k].id \in claimed
  BY DEF Served, Grows, ClaimsFit
<1>2. \A k \in Served' : k = n \/ k \in Served
  OBVIOUS
<1> QED
  BY <1>1, <1>2 DEF ClaimsFit

-----------------------------------------------------------------------------
(* A control request *)

(* The reader's: it is the last that was read, so a steer comes after all  *)
(* that were accepted.                                                     *)
LEMMA ReaderServesItsOwn ==
  ASSUME IInv, reader.at = "control", ServeControl(reader.frame),
         UNCHANGED <<wire, main, Turn>>
  PROVE  Grows /\ ActiveFits'
<1>0. PICK n : n = reader.frame
  OBVIOUS
<1>1. /\ n = Len(wire) /\ n \in 1..Len(wire) /\ n \in Numbers /\ answers[n] = "none"
      /\ IsControl(wire[n]) /\ Sound(wire[n])
  BY <1>0, WireIsTyped DEF IInv, ReaderFits
<1>2. ASSUME NEW what \in Answers, Answer(n, what)
      PROVE  Grows
  BY <1>1, <1>2, AnswerGives, WireIsTyped DEF IInv, Grows
<1>3. CASE ~Accepts(wire[n])
  <2>1. Answer(n, "refused") /\ UNCHANGED active
    BY <1>0, <1>3 DEF ServeControl
  <2>2. Grows
    BY <2>1, <1>2 DEF Answers
  <2> QED
    BY <2>1, <2>2, ActiveHolds DEF IInv, Turn
<1>4. CASE Accepts(wire[n])
  <2>1. /\ Answer(n, "ok")
        /\ active' = [active EXCEPT
             !.cancelled = @ \/ wire[n].method = "turn/cancel",
             !.steering = IF wire[n].method = "turn/steer" THEN Append(@, n) ELSE @]
    BY <1>0, <1>4 DEF ServeControl
  <2>2. Grows /\ answers'[n] = "ok"
    BY <2>1, <1>1, <1>2, AnswerGives DEF Answers, IInv
  <2>3. /\ \A t : Cancelled(t) => Cancelled(t)'
        /\ \A k, t, method : Accepted(k, t, method) => Accepted(k, t, method)'
    BY <2>2, CancelledStays, AcceptedStays DEF IInv, Turn
  <2>4. Accepted(n, wire[n].turn, wire[n].method)'
    BY <2>2, <1>1 DEF Accepted
  <2>5. wire[n].method \in Addressed =>
          active.on /\ active.turn = wire[n].turn /\ active.turn = main.frame
    BY <1>4, <1>1, NoFrameIsNone DEF Accepts, NamesActiveTurn, IInv, ActiveFits, Sound
  <2>6. active \in ActiveTurn /\ active.steering \in Seq(Numbers)
    BY DEF IInv, ActiveFits, ActiveTurn
  <2>7. CASE wire[n].method # "turn/steer"
    <3>1. /\ active'.on = active.on /\ active'.turn = active.turn
          /\ active'.steering = active.steering /\ active' \in ActiveTurn
          /\ active'.cancelled <=> active.cancelled \/ wire[n].method = "turn/cancel"
      BY <2>1, <2>6, <2>7 DEF ActiveTurn
    <3>2. active.on \/ active' = active
      BY <2>1, <2>5, <2>6, <2>7 DEF ActiveTurn, Addressed
    <3>3. active'.cancelled => Cancelled(main.frame)'
      <4>1. CASE wire[n].method = "turn/cancel"
        BY <4>1, <2>4, <2>5, <1>1 DEF Cancelled, Addressed
      <4>2. CASE wire[n].method # "turn/cancel"
        BY <4>2, <3>1, <2>3 DEF IInv, ActiveFits
      <4> QED
        BY <4>1, <4>2
    <3>4. /\ Len(active'.steering) <= SteerCapacity /\ Ascending(active'.steering)
          /\ active'.turn \in {NoFrame, main.frame}
          /\ active'.turn = NoFrame => active'.steering = <<>>
          /\ active'.on <=> main.at \in InTurn
          /\ ~active'.on => active' = NoActive
      BY <3>1, <3>2 DEF IInv, ActiveFits
    <3>5. \A i \in 1..Len(active.steering) :
            /\ Accepted(active.steering[i], main.frame, "turn/steer")'
            /\ \A k \in 1..Len(steered[main.frame]) :
                 steered[main.frame][k] < active.steering[i]
      BY <3>1, <2>3 DEF IInv, ActiveFits
    <3> QED
      BY <2>2, <3>1, <3>3, <3>4, <3>5 DEF ActiveFits, Turn
  <2>8. CASE wire[n].method = "turn/steer"
    <3>1. /\ active'.on = active.on /\ active'.turn = active.turn
          /\ active'.cancelled = active.cancelled
          /\ active'.steering = Append(active.steering, n) /\ active' \in ActiveTurn
      <4>1. wire[n].method # "turn/cancel" /\ active.cancelled \in BOOLEAN
        BY <2>6, <2>8 DEF ActiveTurn
      <4>2. (active.cancelled \/ wire[n].method = "turn/cancel") = active.cancelled
        BY <4>1
      <4>3. active' = [active EXCEPT !.cancelled = active.cancelled,
                                    !.steering = Append(active.steering, n)]
        BY <2>1, <2>8, <4>2
      <4>4. Append(active.steering, n) \in Seq(Numbers)
        BY <2>6, <1>1
      <4> QED
        BY <2>6, <4>3, <4>4 DEF ActiveTurn
    <3> DEFINE s == active.steering
    <3>2. active.on /\ active.turn = wire[n].turn /\ active.turn = main.frame
      BY <2>5, <2>8 DEF Addressed
    <3>3. /\ Len(s) \in Nat /\ Len(active'.steering) = Len(s) + 1
          /\ active'.steering[Len(s) + 1] = n
          /\ \A i \in 1..Len(s) : active'.steering[i] = s[i]
      BY <3>1, <2>6, <1>1
    <3>4. Len(s) < SteerCapacity
      BY <1>4, <2>8 DEF Accepts
    <3>5. \A k, t : Accepted(k, t, "turn/steer") => k \in Nat /\ k < n
      BY <1>1, WireIsTyped DEF Accepted, IInv
    <3>6. \A i \in 1..Len(s) : s[i] < n
      BY <3>5 DEF IInv, ActiveFits
    <3>7. Ascending(active'.steering)
      BY <3>1, <3>6, <2>6, <1>1, AppendAscends DEF IInv, ActiveFits
    <3>8. main.frame \in Numbers
      BY <1>1, <2>8, <3>2 DEF Sound, Addressed
    <3>9. \A k \in 1..Len(steered[main.frame]) : steered[main.frame][k] < n
      BY <3>5, <3>8 DEF IInv, HistoryFits
    <3>10. ASSUME NEW i \in 1..Len(active'.steering)
           PROVE  /\ Accepted(active.steering[i], main.frame, "turn/steer")'
                  /\ \A k \in 1..Len(steered[main.frame]) :
                       steered[main.frame][k] < active'.steering[i]
      <4>1. CASE i = Len(s) + 1
        BY <4>1, <3>2, <3>3, <3>9, <2>4, <2>8
      <4>2. CASE i \in 1..Len(s)
        BY <4>2, <3>3, <2>3 DEF IInv, ActiveFits
      <4> QED
        BY <3>3, <4>1, <4>2
    <3>11. Len(active'.steering) <= SteerCapacity
      BY <3>3, <3>4, ConstantsFit
    <3>12. active'.cancelled => Cancelled(main.frame)'
      BY <3>1, <2>3 DEF IInv, ActiveFits
    <3>13. active'.turn # NoFrame
      BY <3>1, <3>2, <3>8, NoFrameIsNone
    <3> QED
      BY <2>2, <3>1, <3>2, <3>7, <3>10, <3>11, <3>12, <3>13 DEF IInv, ActiveFits, Turn
  <2> QED
    BY <2>2, <2>7, <2>8
<1> QED
  BY <1>3, <1>4

LEMMA ReaderKeepsDrained ==
  ASSUME IInv, reader.at = "control", ServeControl(reader.frame), Grows,
         UNCHANGED <<wire, main, Turn>>
  PROVE  LoopFits'
<1>0. PICK n : n = reader.frame
  OBVIOUS
<1>1. n = Len(wire) /\ n \in 1..Len(wire) /\ n \in Numbers /\ Len(wire) \in Nat
  BY <1>0, WireIsTyped DEF IInv, ReaderFits
<1>2. active \in ActiveTurn /\ active.steering \in Seq(Numbers)
  BY DEF IInv, ActiveFits, ActiveTurn
<1>3. /\ active'.steering \in {active.steering, Append(active.steering, n)}
      /\ active.cancelled => active'.cancelled
  BY <1>0, <1>2 DEF ServeControl, ActiveTurn
<1>4. CASE active'.steering = active.steering
  BY <1>3, <1>4, LoopHolds DEF IInv, Turn
<1>5. CASE active'.steering = Append(active.steering, n)
  <2>1. \A k, t, method : Accepted(k, t, method) => Accepted(k, t, method)'
    BY AcceptedStays DEF IInv
  <2>2. \A i \in 1..Len(drained) : drained[i] \in Nat /\ drained[i] <= n
    BY <1>1 DEF IInv, LoopFits, Accepted
  <2>3. \A i \in 1..Len(drained) : drained[i] # n
    BY <1>0 DEF IInv, LoopFits, Accepted, ReaderFits
  <2>4. \A i \in 1..Len(drained) : drained[i] < n
    BY <1>1, <2>2, <2>3
  <2>5. \A k \in 1..Len(active'.steering) :
          \/ k \in 1..Len(active.steering) /\ active'.steering[k] = active.steering[k]
          \/ active'.steering[k] = n
    BY <1>1, <1>2, <1>5
  <2>6. \A i \in 1..Len(drained), k \in 1..Len(active'.steering) :
          drained[i] < active'.steering[k]
    BY <2>4, <2>5 DEF IInv, LoopFits
  <2> QED
    BY <1>3, <2>1, <2>6 DEF IInv, LoopFits, Turn
<1> QED
  BY <1>3, <1>4, <1>5

(* The dispatcher's: it is not in a Turn, so there is none to act on.      *)
LEMMA MainServesNoTurn ==
  ASSUME IInv, main.at = "control", ServeControl(main.frame)
  PROVE  /\ UNCHANGED active
         /\ answers'[main.frame] \in {"ok", "refused"}
         /\ answers' \in [Numbers -> Answers]
         /\ \A k \in Numbers : k # main.frame => answers'[k] = answers[k]
<1>1. /\ main.frame \in Numbers /\ answers[main.frame] = "none" /\ IsControl(wire[main.frame])
      /\ AnswersFit
  BY WireIsTyped DEF IInv, MainFits
<1>2. ~active.on /\ active = NoActive
  BY DEF IInv, ActiveFits, InTurn
<1>3. CASE ~Accepts(wire[main.frame])
  BY <1>1, <1>3, AnswerGives DEF ServeControl, Answers
<1>4. CASE Accepts(wire[main.frame])
  <2>1. wire[main.frame].method \notin Addressed
    BY <1>2, <1>4 DEF Accepts, NamesActiveTurn
  <2>2. /\ Answer(main.frame, "ok")
        /\ active' = [active EXCEPT !.cancelled = @ \/ FALSE, !.steering = @]
    BY <2>1, <1>4 DEF ServeControl, Addressed
  <2>3. active' = active
    <3>1. active \in ActiveTurn /\ active.cancelled \in BOOLEAN
      BY DEF IInv, ActiveFits, ActiveTurn
    <3>2. (active.cancelled \/ FALSE) = active.cancelled
      BY <3>1
    <3>3. active' = [active EXCEPT !.cancelled = active.cancelled, !.steering = active.steering]
      BY <2>2, <3>2
    <3> QED
      BY <3>1, <3>3 DEF ActiveTurn
  <2> QED
    BY <2>2, <2>3, <1>1, AnswerGives DEF Answers
<1> QED
  BY <1>3, <1>4
-----------------------------------------------------------------------------
(* The reader *)

LEMMA InitEstablishesIInv ==
  ASSUME Init
  PROVE  IInv
<1>1. <<>> \in Seq(FrameSet) /\ <<>> \in Seq(Numbers) /\ Len(<<>>) = 0
  BY EmptySeq
<1>2. reader = [at |-> "reading", frame |-> NoFrame] /\ main = [at |-> "idle", frame |-> NoFrame]
  BY DEF Init, Reading, Idle
<1>3. WireFits /\ AnswersFit
  BY <1>1, ConstantsFit DEF Init, WireFits, AnswersFit, Answers
<1>4. QueueFits
  BY <1>1, ConstantsFit DEF Init, QueueFits, Ascending
<1>5. ReaderFits /\ MainFits
  BY <1>2 DEF Init, ReaderFits, MainFits
<1>6. Served = {}
  BY <1>1, <1>2, NoFrameIsNone DEF Served, Init
<1>7. ClaimsFit
  BY <1>6 DEF Init, ClaimsFit
<1>8. ActiveFits
  BY <1>1, <1>2, NoActiveFits, ConstantsFit DEF Init, ActiveFits, InTurn, Ascending
<1>9. HistoryFits
  BY <1>1 DEF Init, HistoryFits, Ascending
<1>10. LoopFits
  BY <1>1, <1>2 DEF Init, LoopFits, Ascending
<1> QED
  BY <1>3, <1>4, <1>5, <1>7, <1>8, <1>9, <1>10 DEF Init, IInv

(* What is common to the steps that read, answer and claim nothing.        *)
LEMMA NothingIsServed ==
  ASSUME IInv, UNCHANGED <<wire, answers, queue, claimed>>,
         reader'.frame = reader.frame, main'.frame \in {main.frame, NoFrame}
  PROVE  Grows /\ WireFits' /\ AnswersFit' /\ QueueFits' /\ ClaimsFit'
<1>1. Grows
  BY WireIsTyped DEF IInv, Grows
<1>2. WireFits' /\ AnswersFit'
  BY DEF IInv, WireFits, AnswersFit
<1>3. QueueFits'
  BY NoFrameIsNone DEF IInv, QueueFits, Ascending
<1>4. Served' \subseteq Served
  BY NoFrameIsNone, WireIsTyped DEF Served, IInv
<1>5. ClaimsFit'
  BY <1>1, <1>4, ClaimsHold DEF IInv, ClaimsFit
<1> QED
  BY <1>1, <1>2, <1>3, <1>5

LEMMA ReadFrameKeepsIInv ==
  ASSUME IInv, NEW f \in Frames(wire), ReadFrame(f)
  PROVE  IInv'
<1> DEFINE n == Len(wire) + 1
<1>1. /\ n \in Numbers /\ n \in Nat /\ wire' = Append(wire, f) /\ reader.at = "reading"
      /\ UNCHANGED <<main, gate, ready, active, Turn>>
  BY NoFrameIsNone DEF ReadFrame
<1>2. Sound(f) /\ f \in FrameSet
  BY <1>1, FramesAreSound DEF IInv, Sound
<1>3. /\ wire' \in Seq(FrameSet) /\ Len(wire') = n /\ wire'[n] = f /\ Len(wire) \in Nat
      /\ \A k \in 1..Len(wire) : wire'[k] = wire[k]
      /\ wire \in Seq(FrameSet) /\ 1..Len(wire) \subseteq Numbers
  BY <1>1, <1>2, WireIsTyped DEF IInv
<1>4. n <= MaxFrames /\ \A k \in 1..n : k = n \/ k \in 1..Len(wire)
  BY <1>1, <1>3, ConstantsFit DEF Numbers
<1>5. WireFits'
  BY <1>1, <1>2, <1>3, <1>4 DEF IInv, WireFits
<1>6. reader.frame = NoFrame /\ answers[n] = "none"
  BY <1>1, <1>3, ConstantsFit DEF IInv, ReaderFits, AnswersFit, Numbers
<1>7. /\ \A k \in 1..Len(queue) : queue[k] \in Numbers /\ queue[k] < n /\ queue[k] # n
      /\ Len(queue) \in Nat
      /\ main.frame # n
  <2>1. main.frame = NoFrame \/ main.frame \in 1..Len(wire)
    BY DEF IInv, MainFits
  <2> QED
    BY <1>1, <1>3, <2>1, NoFrameIsNone DEF IInv, QueueFits
<1> HIDE DEF n
<1>8. ASSUME NEW what \in Answers, Answer(n, what)
      PROVE  /\ answers' \in [Numbers -> Answers] /\ answers'[n] = what
             /\ \A k \in Numbers : k # n => answers'[k] = answers[k]
  BY <1>1, <1>6, <1>8, AnswerGives DEF IInv
<1>9. /\ answers' \in [Numbers -> Answers]
      /\ \A k \in Numbers : k # n => answers'[k] = answers[k]
      /\ answers'[n] \in {"none", "duplicate", "overloaded"}
  <2>1. UNCHANGED answers \/ Answer(n, "duplicate") \/ Answer(n, "overloaded")
    BY DEF ReadFrame, Enqueue, n
  <2> QED
    BY <2>1, <1>6, <1>8 DEF Answers, IInv, AnswersFit
<1>10. AnswersFit'
  BY <1>1, <1>3, <1>9 DEF IInv, AnswersFit, n
<1>11. Grows
  BY <1>1, <1>3, <1>9 DEF Grows, n
<1>12. ActiveFits' /\ LoopFits' /\ HistoryFits'
  BY <1>1, <1>11, ActiveHolds, LoopHolds, HistoryHolds DEF IInv, HistoryFits, Turn
<1>13. MainFits'
  <2>1. main.at \notin {"idle", "stopped"} =>
          main.frame \in 1..Len(wire) /\ main.frame \in 1..n /\ main.frame \in Numbers
    BY <1>3 DEF IInv, MainFits, n
  <2> QED
    BY <1>1, <1>3, <1>7, <1>9, <2>1 DEF IInv, MainFits
<1>14. CASE /\ IsControl(f) /\ ready /\ f.id \notin claimed
            /\ Claim(f)
            /\ reader' = [at |-> "control", frame |-> n]
            /\ UNCHANGED <<answers, queue>>
  <2>1. QueueFits'
    BY <1>1, <1>3, <1>7, <1>14 DEF IInv, QueueFits, Ascending, n
  <2>2. ReaderFits'
    BY <1>1, <1>3, <1>6, <1>7, <1>14 DEF ReaderFits, n
  <2>3. f.id \in Numbers
    BY <1>2, <1>14 DEF Sound, IsControl, ControlMethods
  <2>4. Served' \subseteq Served \cup {n}
    BY <1>1, <1>3, <1>4, <1>6, <1>9, <1>14 DEF Served
  <2>5. n \in 1..Len(wire')
    BY <1>1, <1>3 DEF n
  <2>6. ClaimsFit'
    BY <1>3, <1>11, <1>14, <2>3, <2>4, <2>5, ClaimsGrow DEF IInv, Claim
  <2> QED
    BY <1>1, <1>5, <1>10, <1>12, <1>13, <2>1, <2>2, <2>6 DEF IInv
<1>15. CASE UNCHANGED <<reader, claimed>>
  <2>1. ReaderFits'
    BY <1>1, <1>15 DEF IInv, ReaderFits
  <2>2. Served' \subseteq Served
    BY <1>1, <1>3, <1>4, <1>6, <1>7, <1>9, <1>15, NoFrameIsNone DEF Served
  <2>3. ClaimsFit'
    BY <1>11, <1>15, <2>2, ClaimsHold DEF IInv, ClaimsFit
  <2>4. QueueFits'
    <3>1. CASE UNCHANGED queue
      BY <3>1, <1>1, <1>3, <1>7, <1>9, <1>15 DEF IInv, QueueFits, Ascending, n
    <3>2. CASE Len(queue) < QueueCapacity /\ queue' = Append(queue, n) /\ UNCHANGED answers
      <4>1. /\ queue' \in Seq(Numbers) /\ Len(queue') = Len(queue) + 1
            /\ queue'[Len(queue) + 1] = n
            /\ \A i \in 1..Len(queue) : queue'[i] = queue[i]
        BY <3>2, <1>1 DEF IInv, QueueFits
      <4>2. Ascending(queue')
        BY <3>2, <1>1, <1>7, AppendAscends DEF IInv, QueueFits
      <4>3. Len(queue') <= QueueCapacity
        BY <3>2, <4>1, <1>7, ConstantsFit
      <4>4. ASSUME NEW i \in 1..Len(queue')
            PROVE  /\ queue'[i] \in 1..Len(wire') /\ answers'[queue'[i]] = "none"
                   /\ queue'[i] # reader'.frame /\ queue'[i] # main'.frame
        <5>1. CASE i = Len(queue) + 1
          BY <5>1, <4>1, <1>1, <1>3, <1>6, <1>7, <1>15, <3>2, NoFrameIsNone DEF n
        <5>2. CASE i \in 1..Len(queue)
          BY <5>2, <4>1, <1>1, <1>3, <1>7, <1>15, <3>2 DEF IInv, QueueFits, n
        <5> QED
          BY <5>1, <5>2, <4>1, <1>7
      <4> QED
        BY <4>1, <4>2, <4>3, <4>4 DEF QueueFits
    <3> QED
      BY <3>1, <3>2, <1>14 DEF ReadFrame, Enqueue, n
  <2> QED
    BY <1>1, <1>5, <1>10, <1>12, <1>13, <2>1, <2>3, <2>4 DEF IInv
<1> QED
  BY <1>14, <1>15 DEF ReadFrame, n

LEMMA ReaderServesKeepsIInv ==
  ASSUME IInv, ReaderServes
  PROVE  IInv'
<1> DEFINE n == reader.frame
<1>1. /\ reader.at = "control" /\ reader' = Reading /\ ServeControl(n)
      /\ UNCHANGED <<wire, main, queue, gate, ready, claimed, Turn>>
  BY DEF ReaderServes
<1>2. /\ n \in Numbers /\ n \in 1..Len(wire) /\ answers[n] = "none" /\ n # main.frame
      /\ 1..Len(wire) \subseteq Numbers /\ Len(wire) \in Nat
  BY <1>1, WireIsTyped DEF IInv, ReaderFits
<1>3. Grows /\ ActiveFits'
  BY <1>1, ReaderServesItsOwn
<1>4. reader'.frame = NoFrame /\ reader' = [at |-> "reading", frame |-> NoFrame]
  BY <1>1 DEF Reading
<1> HIDE DEF n
<1>5. /\ answers' \in [Numbers -> Answers]
      /\ \A k \in Numbers : k # n => answers'[k] = answers[k]
  <2>1. Answer(n, "ok") \/ Answer(n, "refused")
    BY <1>1 DEF ServeControl
  <2> QED
    BY <2>1, <1>2, AnswerGives DEF Answers, IInv
<1>6. WireFits' /\ AnswersFit'
  BY <1>1, <1>2, <1>5 DEF IInv, WireFits, AnswersFit
<1>7. QueueFits'
  <2>1. \A i \in 1..Len(queue) : queue[i] \in Numbers /\ queue[i] # n
    BY DEF IInv, QueueFits, n
  <2> QED
    BY <1>1, <1>4, <1>5, <2>1, NoFrameIsNone DEF IInv, QueueFits, Ascending
<1>8. ReaderFits'
  BY <1>4 DEF ReaderFits
<1>9. MainFits'
  BY <1>1, <1>2, <1>5 DEF IInv, MainFits
<1>10. Served' \subseteq Served
  BY <1>1, <1>2, <1>4, <1>5, NoFrameIsNone DEF Served, n
<1>11. ClaimsFit'
  BY <1>1, <1>3, <1>10, ClaimsHold DEF IInv, ClaimsFit
<1>12. HistoryFits'
  BY <1>1, <1>3, HistoryHolds DEF IInv, HistoryFits, Turn
<1>13. LoopFits'
  BY <1>1, <1>3, ReaderKeepsDrained DEF n
<1> QED
  BY <1>1, <1>3, <1>6, <1>7, <1>8, <1>9, <1>11, <1>12, <1>13 DEF IInv

LEMMA ReaderEndsKeepsIInv ==
  ASSUME IInv, ReaderStops \/ Fail
  PROVE  IInv'
<1>1. /\ reader.at \in {"reading", "failing"}
      /\ UNCHANGED <<wire, answers, main, queue, ready, claimed, active, Turn>>
      /\ reader' \in [at : {"stopped", "failing"}, frame : {NoFrame}]
      /\ gate' = gate \/ (gate' = "failed" /\ main.at = "idle")
  BY DEF ReaderStops, Fail, Reading
<1>2. reader.frame = NoFrame /\ reader'.frame = NoFrame /\ reader'.at # "control"
      /\ reader'.at \in {"stopped", "failing"}
  BY <1>1 DEF IInv, ReaderFits
<1>3. Grows /\ WireFits' /\ AnswersFit' /\ QueueFits' /\ ClaimsFit'
  BY <1>1, <1>2, NothingIsServed
<1>4. ReaderFits'
  BY <1>1, <1>2 DEF ReaderFits
<1>5. MainFits'
  BY <1>1 DEF IInv, MainFits
<1>6. ActiveFits' /\ LoopFits' /\ HistoryFits'
  BY <1>1, <1>3, ActiveHolds, LoopHolds, HistoryHolds DEF IInv, HistoryFits, Turn
<1> QED
  BY <1>1, <1>3, <1>4, <1>5, <1>6 DEF IInv
-----------------------------------------------------------------------------
(* The dispatcher *)

(* There is nothing to act on but in a Turn, and nothing when it begins.   *)
LEMMA NoTurnFits ==
  ASSUME active' \in {NoActive, [NoActive EXCEPT !.on = TRUE]},
         active'.on <=> main'.at \in InTurn
  PROVE  ActiveFits'
<1>1. /\ active' \in ActiveTurn /\ active'.steering = <<>> /\ active'.turn = NoFrame
      /\ ~active'.cancelled /\ (~active'.on => active' = NoActive)
  <2>1. CASE active' = NoActive
    BY <2>1, NoActiveFits
  <2>2. CASE active' = [NoActive EXCEPT !.on = TRUE]
    BY <2>2, NoActiveFits DEF NoActive
  <2> QED
    BY <2>1, <2>2
<1>2. Len(active'.steering) = 0 /\ Len(active'.steering) <= SteerCapacity
  BY <1>1, EmptySeq, ConstantsFit
<1> QED
  BY <1>1, <1>2 DEF ActiveFits, Ascending

(* What the dispatcher takes from the queue is at no other place.          *)
LEMMA HeadFits ==
  ASSUME IInv, queue # <<>>, main.at = "idle"
  PROVE  /\ Head(queue) \in 1..Len(wire) /\ Head(queue) \in Numbers
         /\ answers[Head(queue)] = "none" /\ Head(queue) # reader.frame
         /\ main.frame = NoFrame /\ Sound(wire[Head(queue)])
         /\ active = NoActive /\ ~active.on
         /\ 1..Len(wire) \subseteq Numbers
<1>1. queue \in Seq(Numbers) /\ Len(queue) \in Nat /\ Len(queue) # 0
  BY EmptySeq DEF IInv, QueueFits
<1>2. Head(queue) = queue[1] /\ 1 \in 1..Len(queue)
  BY <1>1
<1> QED
  BY <1>2, WireIsTyped DEF IInv, QueueFits, MainFits, ActiveFits, InTurn

LEMMA TailFits ==
  ASSUME IInv, queue # <<>>, main.at = "idle", UNCHANGED <<wire, reader>>,
         queue' = Tail(queue), main'.frame \in {NoFrame, Head(queue)},
         \A k \in Numbers : k # Head(queue) => answers'[k] = answers[k]
  PROVE  QueueFits'
<1>1. queue \in Seq(Numbers) /\ Len(queue) \in Nat /\ Len(queue) # 0
  BY EmptySeq DEF IInv, QueueFits
<1>2. /\ queue' \in Seq(Numbers) /\ Len(queue') = Len(queue) - 1
      /\ \A i \in 1..Len(queue') : queue'[i] = queue[i + 1] /\ i + 1 \in 1..Len(queue)
      /\ Head(queue) = queue[1] /\ 1 \in 1..Len(queue)
  BY <1>1
<1>3. \A i \in 1..Len(queue') : queue'[i] \in Numbers /\ queue'[i] # Head(queue)
  <2> SUFFICES ASSUME NEW i \in 1..Len(queue')
               PROVE  queue'[i] \in Numbers /\ queue'[i] # Head(queue)
    OBVIOUS
  <2>1. queue[1] < queue[i + 1] /\ queue[1] \in Nat /\ queue[i + 1] \in Numbers
    BY <1>1, <1>2, NoFrameIsNone DEF IInv, QueueFits, Ascending
  <2> QED
    BY <1>2, <2>1
<1>4. Ascending(queue')
  <2> SUFFICES ASSUME NEW i \in 1..Len(queue'), NEW j \in 1..Len(queue'), i < j
               PROVE  queue'[i] < queue'[j]
    BY DEF Ascending
  <2>1. i + 1 < j + 1
    BY <1>1, <1>2
  <2> QED
    BY <1>2, <2>1 DEF Ascending, IInv, QueueFits
<1>5. Len(queue') <= QueueCapacity
  BY <1>1, <1>2, ConstantsFit DEF IInv, QueueFits
<1>6. ASSUME NEW i \in 1..Len(queue')
      PROVE  /\ queue'[i] \in 1..Len(wire') /\ answers'[queue'[i]] = "none"
             /\ queue'[i] # reader'.frame /\ queue'[i] # main'.frame
  BY <1>2, <1>3, NoFrameIsNone DEF IInv, QueueFits
<1> QED
  BY <1>2, <1>4, <1>5, <1>6 DEF QueueFits

(* The four ways the dispatcher can take a frame.                          *)
LEMMA ServeOutcomes ==
  ASSUME IInv, Serve, NEW n, n = Head(queue)
  PROVE  /\ main.at = "idle" /\ queue # <<>> /\ gate = "open" /\ queue' = Tail(queue)
         /\ UNCHANGED <<wire, reader, gate, Turn>> /\ ready' \in BOOLEAN
         /\ \/ /\ IsControl(wire[n]) /\ wire[n].id \notin claimed /\ Claim(wire[n])
               /\ main' = [at |-> "control", frame |-> n]
               /\ UNCHANGED <<answers, active>>
            \/ /\ wire[n].method = "turn/start" /\ wire[n].id \notin claimed /\ Claim(wire[n])
               /\ main' = [at |-> "starting", frame |-> n]
               /\ active' = [NoActive EXCEPT !.on = TRUE] /\ UNCHANGED answers
            \/ /\ wire[n].method # "initialized"
               /\ wire[n].id \notin claimed /\ Claim(wire[n])
               /\ Answer(n, "ok") \/ Answer(n, "refused")
               /\ main' = main \/ main' = Stopped
               /\ UNCHANGED active
            \/ /\ UNCHANGED <<main, claimed, active>>
               /\ UNCHANGED answers \/ Answer(n, "duplicate")
<1>1. /\ main.at = "idle" /\ queue # <<>> /\ gate = "open" /\ queue' = Tail(queue)
      /\ UNCHANGED <<wire, reader, gate, Turn>> /\ ready \in BOOLEAN
  BY DEF Serve, IInv
<1>2. CASE /\ IsControl(wire[n]) /\ ready /\ wire[n].id \notin claimed
           /\ Claim(wire[n])
           /\ main' = [Idle EXCEPT !.at = "control", !.frame = n]
           /\ UNCHANGED <<answers, ready, active>>
  BY <1>1, <1>2 DEF Idle
<1>3. CASE /\ Answer(n, "duplicate") /\ UNCHANGED <<main, ready, claimed, active>>
  BY <1>1, <1>3
<1>4. CASE Dispatch(n)
  <2>1. CASE wire[n].method = "initialized" /\ ready' = TRUE
             /\ UNCHANGED <<answers, claimed, active, main>>
    BY <1>1, <2>1
  <2>2. CASE wire[n].method # "initialized" /\ Answer(n, "duplicate")
             /\ UNCHANGED <<ready, claimed, active, main>>
    BY <1>1, <2>2
  <2>3. CASE /\ wire[n].method # "initialized" /\ wire[n].id \notin claimed /\ Claim(wire[n])
             /\ Answer(n, "refused") /\ UNCHANGED <<ready, active, main>>
    BY <1>1, <2>3
  <2>4. CASE /\ wire[n].method = "turn/start" /\ wire[n].id \notin claimed /\ Claim(wire[n])
             /\ BeginTurn(n) /\ UNCHANGED <<answers, ready>>
    BY <1>1, <2>4 DEF BeginTurn, Idle
  <2>5. CASE /\ wire[n].method = "shutdown" /\ wire[n].id \notin claimed /\ Claim(wire[n])
             /\ Answer(n, "ok") /\ ready' = FALSE /\ main' = Stopped /\ UNCHANGED active
    BY <1>1, <2>5
  <2> QED
    BY <1>4, <2>1, <2>2, <2>3, <2>4, <2>5 DEF Dispatch
<1> QED
  BY <1>2, <1>3, <1>4 DEF Serve

LEMMA ServeKeepsIInv ==
  ASSUME IInv, Serve
  PROVE  IInv'
<1>0. PICK n : n = Head(queue)
  OBVIOUS
<1>1. /\ main.at = "idle" /\ queue # <<>> /\ gate = "open" /\ queue' = Tail(queue)
      /\ UNCHANGED <<wire, reader, gate, Turn>> /\ ready' \in BOOLEAN
  BY <1>0, ServeOutcomes
<1>2. /\ n \in 1..Len(wire) /\ n \in Numbers /\ answers[n] = "none" /\ n # reader.frame
      /\ main.frame = NoFrame /\ Sound(wire[n]) /\ active = NoActive /\ ~active.on
      /\ 1..Len(wire) \subseteq Numbers
  BY <1>0, <1>1, HeadFits
<1>3. Stopped = [at |-> "stopped", frame |-> NoFrame]
  BY DEF Stopped, Idle
<1>4. /\ answers' \in [Numbers -> Answers]
      /\ \A k \in Numbers : k # n => answers'[k] = answers[k]
  <2>1. UNCHANGED answers \/ \E what \in {"ok", "refused", "duplicate"} : Answer(n, what)
    BY <1>0, ServeOutcomes
  <2> QED
    BY <2>1, <1>2, AnswerGives DEF Answers, IInv, AnswersFit
<1>5. Grows
  BY <1>1, <1>2, <1>4, WireIsTyped DEF IInv, Grows
<1>6. main'.frame \in {NoFrame, n}
  BY <1>0, <1>2, <1>3, ServeOutcomes
<1>7. WireFits' /\ AnswersFit'
  BY <1>1, <1>2, <1>4 DEF IInv, WireFits, AnswersFit
<1>8. QueueFits'
  BY <1>0, <1>1, <1>4, <1>6, TailFits
<1>9. ReaderFits'
  BY <1>1, <1>2, <1>4, <1>6, NoFrameIsNone DEF IInv, ReaderFits
<1>10. HistoryFits'
  BY <1>1, <1>5, HistoryHolds DEF IInv, HistoryFits, Turn
<1>11. ASSUME wire[n].id \notin claimed, Claim(wire[n]), wire[n].method # "initialized"
       PROVE  ClaimsFit'
  <2>1. wire[n].id \in Numbers /\ wire'[n] = wire[n] /\ n \in 1..Len(wire')
    BY <1>1, <1>2, <1>11 DEF Sound
  <2>2. Served' \subseteq Served \cup {n}
    BY <1>1, <1>2, <1>4, <1>6, NoFrameIsNone DEF Served
  <2> QED
    BY <1>5, <1>11, <2>1, <2>2, ClaimsGrow DEF IInv, Claim
<1> DEFINE Rest == MainFits' /\ ClaimsFit' /\ ActiveFits'
<1>12. ASSUME /\ IsControl(wire[n]) /\ wire[n].id \notin claimed /\ Claim(wire[n])
              /\ main' = [at |-> "control", frame |-> n]
              /\ UNCHANGED <<answers, active>>
       PROVE  Rest
  <2>1. MainFits'
    BY <1>1, <1>2, <1>12 DEF MainFits
  <2>2. ClaimsFit'
    BY <1>11, <1>12 DEF IsControl, ControlMethods
  <2>3. ActiveFits'
    BY <1>2, <1>12, NoTurnFits DEF InTurn
  <2> QED
    BY <2>1, <2>2, <2>3
<1>13. ASSUME /\ wire[n].method = "turn/start" /\ wire[n].id \notin claimed /\ Claim(wire[n])
              /\ main' = [at |-> "starting", frame |-> n]
              /\ active' = [NoActive EXCEPT !.on = TRUE] /\ UNCHANGED answers
       PROVE  Rest
  <2>1. MainFits'
    BY <1>1, <1>2, <1>13 DEF MainFits, InTurn
  <2>2. ClaimsFit'
    BY <1>11, <1>13
  <2>3. active'.on
    BY <1>13 DEF NoActive
  <2>4. ActiveFits'
    BY <1>13, <2>3, NoTurnFits DEF InTurn
  <2> QED
    BY <2>1, <2>2, <2>4
<1>14. ASSUME /\ wire[n].method # "initialized" /\ wire[n].id \notin claimed /\ Claim(wire[n])
              /\ main' = main \/ main' = Stopped
              /\ UNCHANGED active
       PROVE  Rest
  <2>1. main'.at \in {"idle", "stopped"} /\ main'.frame = NoFrame
    BY <1>1, <1>2, <1>3, <1>14
  <2>2. MainFits'
    BY <1>3, <1>14, <2>1 DEF MainFits, IInv
  <2>3. ActiveFits'
    BY <1>2, <1>14, <2>1, NoTurnFits DEF InTurn
  <2> QED
    BY <1>11, <1>14, <2>2, <2>3
<1>15. ASSUME UNCHANGED <<main, claimed, active>> /\ (UNCHANGED answers \/ Answer(n, "duplicate"))
       PROVE  Rest
  <2>1. MainFits'
    BY <1>1, <1>2, <1>15 DEF MainFits, IInv
  <2>2. answers'[n] \in {"none", "duplicate"}
    BY <1>2, <1>15, AnswerGives DEF IInv, Answers
  <2>3. Served' \subseteq Served
    BY <1>1, <1>2, <1>4, <1>15, <2>2 DEF Served
  <2>4. ClaimsFit'
    BY <1>5, <1>15, <2>3, ClaimsHold DEF IInv, ClaimsFit
  <2>5. ActiveFits'
    BY <1>1, <1>2, <1>15, NoTurnFits DEF InTurn
  <2> QED
    BY <2>1, <2>4, <2>5
<1>16. Rest
  BY <1>0, <1>12, <1>13, <1>14, <1>15, ServeOutcomes
<1>17. LoopFits'
  <2>1. main'.at \notin {"steering", "interrupting"}
    BY <1>0, <1>1, <1>3, ServeOutcomes
  <2> QED
    BY <1>1, <2>1, NoSteerIsWritten DEF Turn
<1> QED
  BY <1>1, <1>7, <1>8, <1>9, <1>10, <1>16, <1>17 DEF IInv

LEMMA MainServesKeepsIInv ==
  ASSUME IInv, MainServesControl
  PROVE  IInv'
<1>1. /\ main.at = "control" /\ ServeControl(main.frame) /\ main' = Idle
      /\ UNCHANGED <<wire, reader, queue, gate, ready, claimed, Turn>>
  BY DEF MainServesControl
<1>2. /\ main' = [at |-> "idle", frame |-> NoFrame]
      /\ main.frame \in 1..Len(wire) /\ 1..Len(wire) \subseteq Numbers /\ main.frame \in Numbers
      /\ ~active.on /\ active = NoActive /\ answers[main.frame] = "none"
  BY <1>1, WireIsTyped DEF Idle, IInv, MainFits, ActiveFits, InTurn
<1>3. /\ UNCHANGED active /\ answers' \in [Numbers -> Answers]
      /\ \A k \in Numbers : k # main.frame => answers'[k] = answers[k]
  BY <1>1, MainServesNoTurn
<1>4. Grows
  BY <1>1, <1>2, <1>3, WireIsTyped DEF IInv, Grows
<1>5. WireFits' /\ AnswersFit'
  BY <1>1, <1>2, <1>3 DEF IInv, WireFits, AnswersFit
<1>6. QueueFits'
  BY <1>1, <1>2, <1>3, NoFrameIsNone DEF IInv, QueueFits, Ascending
<1>7. ReaderFits' /\ MainFits'
  BY <1>1, <1>2, <1>3, NoFrameIsNone DEF IInv, ReaderFits, MainFits
<1>8. Served' \subseteq Served
  BY <1>1, <1>2, <1>3, NoFrameIsNone DEF Served
<1>9. ClaimsFit'
  BY <1>1, <1>4, <1>8, ClaimsHold DEF IInv, ClaimsFit
<1>10. ActiveFits'
  BY <1>2, <1>3, NoTurnFits DEF InTurn
<1>11. HistoryFits'
  BY <1>1, <1>4, HistoryHolds DEF IInv, HistoryFits, Turn
<1>12. LoopFits'
  BY <1>1, <1>2, NoSteerIsWritten DEF Turn
<1> QED
  BY <1>1, <1>5, <1>6, <1>7, <1>9, <1>10, <1>11, <1>12 DEF IInv

LEMMA MainStopsKeepsIInv ==
  ASSUME IInv, MainEnds \/ MainBreaks
  PROVE  IInv'
<1>1. /\ main.at = "idle" /\ main' = [at |-> "stopped", frame |-> NoFrame]
      /\ UNCHANGED <<wire, answers, reader, queue, gate, ready, claimed, active, Turn>>
  BY DEF MainEnds, MainBreaks, Stopped, Idle
<1>2. main.frame = NoFrame /\ active = NoActive /\ ~active.on
  BY <1>1 DEF IInv, MainFits, ActiveFits, InTurn
<1>3. Grows /\ WireFits' /\ AnswersFit' /\ QueueFits' /\ ClaimsFit'
  BY <1>1, <1>2, NothingIsServed
<1>4. ReaderFits' /\ MainFits'
  BY <1>1, <1>2 DEF IInv, ReaderFits, MainFits
<1>5. ActiveFits'
  BY <1>1, <1>2, NoTurnFits DEF InTurn
<1>6. HistoryFits'
  BY <1>1, <1>3, HistoryHolds DEF IInv, HistoryFits, Turn
<1>7. LoopFits'
  BY <1>1, NoSteerIsWritten DEF Turn
<1> QED
  BY <1>1, <1>3, <1>4, <1>5, <1>6, <1>7 DEF IInv
-----------------------------------------------------------------------------
(* A Turn *)

(* What every step of the loop of a Turn leaves as it is.                  *)
LEMMA InTurnFits ==
  ASSUME IInv, main.at \in InTurn
  PROVE  /\ main.frame \in 1..Len(wire) /\ main.frame \in Numbers /\ active.on
         /\ 1..Len(wire) \subseteq Numbers
         /\ main \in [at : {"idle", "control", "stopped"} \cup InTurn,
                      frame : Numbers \cup {NoFrame}]
         /\ gate # "failed"
BY WireIsTyped DEF IInv, MainFits, ActiveFits, InTurn

LEMMA NextRoundFits ==
  ASSUME IInv, main.at \in InTurn, NEW at \in InTurn \ {"starting"},
         main' = [main EXCEPT !.at = at],
         UNCHANGED <<wire, gate>>
  PROVE  MainFits' /\ main'.frame = main.frame /\ main'.at \in InTurn
<1>1. main' = [at |-> at, frame |-> main.frame]
  BY InTurnFits
<1> QED
  BY <1>1, InTurnFits DEF MainFits, InTurn

(* A Turn that is given up is cancelled from within.                       *)
LEMMA GivingUpFits ==
  ASSUME IInv, main.at \in InTurn, UNCHANGED <<wire, answers, interrupted, steered>>,
         main'.frame = main.frame, main'.at \in InTurn,
         active' = [active EXCEPT !.cancelled = TRUE],
         givenUp' = givenUp \cup {main.frame}
  PROVE  ActiveFits' /\ HistoryFits'
<1>1. Grows
  BY WireIsTyped DEF IInv, Grows
<1>2. /\ \A t : Cancelled(t) => Cancelled(t)'
      /\ \A n, t, method : Accepted(n, t, method) => Accepted(n, t, method)'
  BY <1>1, CancelledStays, AcceptedStays DEF IInv
<1>3. HistoryFits'
  BY <1>1, InTurnFits, HistoryHolds DEF IInv, HistoryFits
<1>4. /\ active' \in ActiveTurn /\ active'.on = active.on /\ active'.turn = active.turn
      /\ active'.steering = active.steering
  BY DEF IInv, ActiveFits, ActiveTurn
<1>5. Cancelled(main.frame)'
  BY DEF Cancelled
<1> QED
  BY <1>2, <1>3, <1>4, <1>5, InTurnFits DEF IInv, ActiveFits, Ascending

LEMMA TurnStartsKeepsIInv ==
  ASSUME IInv, TurnStarts
  PROVE  IInv'
<1>1. /\ main.at = "starting" /\ main' = [main EXCEPT !.at = "polling"]
      /\ UNCHANGED <<wire, reader, queue, gate, ready, claimed, drained, interrupted, steered>>
  BY DEF TurnStarts
<1>2. /\ main.frame \in 1..Len(wire) /\ main.frame \in Numbers /\ active.on
      /\ 1..Len(wire) \subseteq Numbers /\ main.at \in InTurn
      /\ answers[main.frame] = "none"
  BY <1>1, InTurnFits DEF InTurn, IInv, MainFits
<1>3. MainFits' /\ main'.frame = main.frame /\ main'.at \in InTurn
  BY <1>1, <1>2, NextRoundFits DEF InTurn
<1>6. LoopFits'
  BY <1>1, <1>2, NoSteerIsWritten DEF InTurn
<1>4. CASE active' = [active EXCEPT !.turn = main.frame] /\ Answer(main.frame, "ok")
           /\ UNCHANGED givenUp
  <2>1. /\ answers' \in [Numbers -> Answers]
        /\ \A k \in Numbers : k # main.frame => answers'[k] = answers[k]
    BY <1>2, <1>4, AnswerGives DEF Answers, IInv
  <2>2. Grows
    BY <1>1, <1>2, <2>1, WireIsTyped DEF IInv, Grows
  <2>3. WireFits' /\ AnswersFit'
    BY <1>1, <1>2, <2>1 DEF IInv, WireFits, AnswersFit
  <2>4. QueueFits'
    BY <1>1, <1>3, <2>1 DEF IInv, QueueFits, Ascending
  <2>5. ReaderFits'
    BY <1>1, <1>3, <2>1, NoFrameIsNone DEF IInv, ReaderFits
  <2>6. Served' \subseteq Served
    BY <1>1, <1>2, <1>3, <2>1 DEF Served
  <2>7. ClaimsFit'
    BY <1>1, <2>2, <2>6, ClaimsHold DEF IInv, ClaimsFit
  <2>8. HistoryFits'
    BY <1>1, <1>4, <2>2, HistoryHolds DEF IInv, HistoryFits
  <2>9. /\ active' \in ActiveTurn /\ active'.on = active.on /\ active'.turn = main.frame
        /\ active'.steering = active.steering /\ active'.cancelled = active.cancelled
    BY <1>2, <1>4 DEF IInv, ActiveFits, ActiveTurn
  <2>10. /\ \A t : Cancelled(t) => Cancelled(t)'
         /\ \A n, t, method : Accepted(n, t, method) => Accepted(n, t, method)'
    BY <1>4, <2>2, CancelledStays, AcceptedStays DEF IInv
  <2>11. main.frame # NoFrame
    BY <1>2, NoFrameIsNone
  <2>12. ActiveFits'
    BY <1>1, <1>2, <1>3, <2>9, <2>10, <2>11 DEF IInv, ActiveFits, Ascending
  <2> QED
    BY <1>1, <1>3, <1>6, <2>3, <2>4, <2>5, <2>7, <2>8, <2>12 DEF IInv
<1>5. CASE active' = [active EXCEPT !.cancelled = TRUE]
           /\ givenUp' = givenUp \cup {main.frame} /\ UNCHANGED answers
  <2>1. WireFits' /\ AnswersFit' /\ QueueFits' /\ ClaimsFit'
    BY <1>1, <1>3, <1>5, NothingIsServed
  <2>2. ReaderFits'
    BY <1>1, <1>3, <1>5 DEF IInv, ReaderFits
  <2>3. ActiveFits' /\ HistoryFits'
    BY <1>1, <1>2, <1>3, <1>5, GivingUpFits
  <2> QED
    BY <1>1, <1>3, <1>6, <2>1, <2>2, <2>3 DEF IInv
<1> QED
  BY <1>4, <1>5 DEF TurnStarts

(* A step that only moves the loop on, but not to or from its steers.      *)
LEMMA MoveKeepsIInv ==
  ASSUME IInv, main.at \in InTurn \ {"steering"}, NEW at \in InTurn \ {"starting", "steering"},
         main' = [main EXCEPT !.at = at], at = "interrupting" => active.cancelled,
         UNCHANGED <<wire, answers, reader, queue, gate, ready, claimed, active, Turn>>
  PROVE  IInv'
<1>1. MainFits' /\ main'.frame = main.frame /\ main'.at \in InTurn /\ main'.at = at
  BY NextRoundFits, InTurnFits
<1>2. Grows /\ WireFits' /\ AnswersFit' /\ QueueFits' /\ ClaimsFit'
  BY <1>1, NothingIsServed
<1>3. ReaderFits'
  BY <1>1 DEF IInv, ReaderFits
<1>4. ActiveFits' /\ HistoryFits'
  BY <1>1, <1>2, ActiveHolds, HistoryHolds DEF IInv, HistoryFits, Turn
<1>5. LoopFits'
  <2>1. <<>> \in Seq(Numbers) /\ Len(<<>>) = 0 /\ drained = <<>>
    BY EmptySeq DEF IInv, LoopFits
  <2> QED
    BY <1>1, <2>1 DEF LoopFits, Ascending, Turn
<1> QED
  BY <1>1, <1>2, <1>3, <1>4, <1>5 DEF IInv

LEMMA RoundKeepsIInv ==
  ASSUME IInv, Poll \/ AnswerWritten
  PROVE  IInv'
<1>1. /\ main.at \in {"polling", "answering"}
      /\ \E at \in {"interrupting", "draining", "polling"} :
           main' = [main EXCEPT !.at = at] /\ (at = "interrupting" => active.cancelled)
      /\ UNCHANGED <<wire, answers, reader, queue, gate, ready, claimed, active, Turn>>
  BY DEF Poll, AnswerWritten, Goes
<1> QED
  BY <1>1, MoveKeepsIInv DEF InTurn, Writing

(* What the loop tells the provider of was asked for or given up.          *)
LEMMA InterruptWrittenKeepsIInv ==
  ASSUME IInv, InterruptWritten
  PROVE  IInv'
<1>1. /\ main.at = "interrupting" /\ main' = [main EXCEPT !.at = "draining"]
      /\ interrupted' = interrupted \cup {main.frame}
      /\ UNCHANGED <<wire, answers, reader, queue, gate, ready, claimed, active, drained,
                     steered, givenUp>>
  BY DEF InterruptWritten, Goes
<1>2. main.at \in InTurn /\ main.frame \in Numbers
  BY <1>1, InTurnFits DEF InTurn, Writing
<1>3. MainFits' /\ main'.frame = main.frame /\ main'.at \in InTurn /\ main'.at = "draining"
  BY <1>1, <1>2, NextRoundFits, InTurnFits DEF InTurn
<1>4. Grows /\ WireFits' /\ AnswersFit' /\ QueueFits' /\ ClaimsFit'
  BY <1>1, <1>3, NothingIsServed
<1>5. ReaderFits'
  BY <1>1, <1>3 DEF IInv, ReaderFits
<1>6. ActiveFits' /\ LoopFits'
  BY <1>1, <1>2, <1>3, <1>4, ActiveHolds, NoSteerIsWritten DEF IInv
<1>7. HistoryFits'
  <2>1. \A t \in interrupted' : Cancelled(t)
    BY <1>1 DEF IInv, HistoryFits, ActiveFits, LoopFits
  <2>2. /\ \A t : Cancelled(t) => Cancelled(t)'
        /\ \A n, t, method : Accepted(n, t, method) => Accepted(n, t, method)'
    BY <1>1, <1>4, CancelledStays, AcceptedStays DEF IInv
  <2> QED
    BY <1>1, <1>2, <2>1, <2>2 DEF IInv, HistoryFits, Ascending
<1> QED
  BY <1>1, <1>3, <1>4, <1>5, <1>6, <1>7 DEF IInv

(* The loop takes what is queued, all of it.                               *)
LEMMA DrainKeepsIInv ==
  ASSUME IInv, Drain
  PROVE  IInv'
<1>1. PICK at \in {"receiving", "steering"} :
        main' = [main EXCEPT !.at = at] /\ (at = "steering" <=> active.steering # <<>>)
  BY DEF Drain, Goes
<1>2. /\ main.at = "draining" /\ active' = [active EXCEPT !.steering = <<>>]
      /\ drained' = active.steering
      /\ UNCHANGED <<wire, answers, reader, queue, gate, ready, claimed, interrupted, steered,
                     givenUp>>
  BY DEF Drain
<1>3. /\ main.at \in InTurn /\ main.frame \in Numbers /\ active.on
      /\ active \in ActiveTurn /\ active.steering \in Seq(Numbers)
  BY <1>2, InTurnFits DEF InTurn, IInv, ActiveFits, ActiveTurn
<1>4. MainFits' /\ main'.frame = main.frame /\ main'.at \in InTurn /\ main'.at = at
  BY <1>1, <1>2, <1>3, NextRoundFits, InTurnFits DEF InTurn, Writing
<1>5. Grows /\ WireFits' /\ AnswersFit' /\ QueueFits' /\ ClaimsFit'
  BY <1>2, <1>4, NothingIsServed
<1>6. ReaderFits'
  BY <1>2, <1>4 DEF IInv, ReaderFits
<1>7. /\ \A t : Cancelled(t) => Cancelled(t)'
      /\ \A n, t, method : Accepted(n, t, method) => Accepted(n, t, method)'
  BY <1>2, <1>5, CancelledStays, AcceptedStays DEF IInv
<1>8. <<>> \in Seq(Numbers) /\ Len(<<>>) = 0
  BY EmptySeq
<1>9. /\ active' \in ActiveTurn /\ active'.on = active.on /\ active'.turn = active.turn
      /\ active'.steering = <<>> /\ active'.cancelled = active.cancelled
  BY <1>2, <1>3, <1>8 DEF ActiveTurn
<1>10. ActiveFits'
  BY <1>3, <1>4, <1>7, <1>8, <1>9, ConstantsFit DEF IInv, ActiveFits, Ascending
<1>11. LoopFits'
  BY <1>1, <1>2, <1>3, <1>4, <1>7, <1>8, <1>9 DEF IInv, ActiveFits, LoopFits, Ascending
<1>12. HistoryFits'
  BY <1>2, <1>5, HistoryHolds DEF IInv, HistoryFits
<1> QED
  BY <1>2, <1>4, <1>5, <1>6, <1>10, <1>11, <1>12 DEF IInv

(* The steer that is written comes after those that were, and before those *)
(* that are left, so all stay in order.                                    *)
LEMMA SteerWrittenKeepsIInv ==
  ASSUME IInv, SteerWritten
  PROVE  IInv'
<1>1. PICK at \in {"receiving", "steering"} :
        main' = [main EXCEPT !.at = at] /\ (at = "steering" <=> Tail(drained) # <<>>)
  BY DEF SteerWritten, Goes
<1>2. /\ main.at = "steering" /\ drained' = Tail(drained)
      /\ steered' = [steered EXCEPT ![main.frame] = Append(@, Head(drained))]
      /\ UNCHANGED <<wire, answers, reader, queue, gate, ready, claimed, active, interrupted,
                     givenUp>>
  BY DEF SteerWritten
<1>3. main.at \in InTurn /\ main.frame \in Numbers
  BY <1>2, InTurnFits DEF InTurn, Writing
<1>4. MainFits' /\ main'.frame = main.frame /\ main'.at \in InTurn /\ main'.at = at
  BY <1>1, <1>2, <1>3, NextRoundFits, InTurnFits DEF InTurn, Writing
<1>5. Grows /\ WireFits' /\ AnswersFit' /\ QueueFits' /\ ClaimsFit'
  BY <1>2, <1>4, NothingIsServed
<1>6. ReaderFits'
  BY <1>2, <1>4 DEF IInv, ReaderFits
<1>7. /\ \A t : Cancelled(t) => Cancelled(t)'
      /\ \A n, t, method : Accepted(n, t, method) => Accepted(n, t, method)'
  BY <1>2, <1>5, CancelledStays, AcceptedStays DEF IInv
<1>8. PICK t \in Numbers : t = main.frame
  BY <1>3
<1> DEFINE before == steered[t]
           first == Head(drained)
           rest == Tail(drained)
           after == Append(before, first)
<1>9. /\ drained \in Seq(Numbers) /\ drained # <<>> /\ Len(drained) \in Nat /\ Len(drained) # 0
      /\ first = drained[1] /\ first \in Numbers /\ 1 \in 1..Len(drained)
      /\ rest \in Seq(Numbers) /\ Len(rest) = Len(drained) - 1
      /\ \A i \in 1..Len(rest) : rest[i] = drained[i + 1] /\ i + 1 \in 1..Len(drained)
  BY <1>2, EmptySeq DEF IInv, LoopFits
<1>10. /\ before \in Seq(Numbers) /\ Len(before) \in Nat
       /\ after \in Seq(Numbers) /\ Len(after) = Len(before) + 1 /\ after[Len(before) + 1] = first
       /\ \A i \in 1..Len(before) : after[i] = before[i]
  BY <1>9 DEF IInv, HistoryFits
<1>11. /\ \A i \in 1..Len(drained) :
            /\ Accepted(drained[i], t, "turn/steer")
            /\ \A k \in 1..Len(before) : before[k] < drained[i]
            /\ \A k \in 1..Len(active.steering) : drained[i] < active.steering[k]
       /\ \A i \in 1..Len(drained) : 1 < i => drained[1] < drained[i]
  BY <1>8, <1>9 DEF IInv, LoopFits, Ascending
<1>12. /\ Ascending(before)
       /\ \A i \in 1..Len(before) : Accepted(before[i], t, "turn/steer")
  BY <1>8 DEF IInv, HistoryFits
<1>13. /\ steered' \in [Numbers -> Seq(Numbers)] /\ steered'[t] = after
       /\ \A other \in Numbers : other # t => steered'[other] = steered[other]
  BY <1>2, <1>8, <1>10 DEF IInv, HistoryFits
<1>14. \A i \in 1..Len(rest) : rest[i] \in Numbers /\ first < rest[i]
  <2> SUFFICES ASSUME NEW i \in 1..Len(rest) PROVE rest[i] \in Numbers /\ first < rest[i]
    OBVIOUS
  <2>1. 1 < i + 1 /\ i + 1 \in 1..Len(drained) /\ rest[i] = drained[i + 1]
    BY <1>9
  <2> QED
    BY <1>9, <1>11, <2>1
<1> HIDE DEF before, first, rest, after
<1>15. /\ \A i \in 1..Len(before) : after[i] = before[i] /\ before[i] < first
       /\ after[Len(before) + 1] = first
       /\ \A i \in 1..Len(after) : i \in 1..Len(before) \/ i = Len(before) + 1
  BY <1>9, <1>10, <1>11
<1>16. Ascending(after)
  <2> SUFFICES ASSUME NEW i \in 1..Len(after), NEW j \in 1..Len(after), i < j
               PROVE  after[i] < after[j]
    BY DEF Ascending
  <2>1. i \in 1..Len(before)
    BY <1>10
  <2>2. CASE j \in 1..Len(before)
    BY <1>12, <1>15, <2>1, <2>2 DEF Ascending
  <2>3. CASE j = Len(before) + 1
    BY <1>15, <2>1, <2>3
  <2> QED
    BY <1>15, <2>2, <2>3
<1>17. \A i \in 1..Len(after) : Accepted(after[i], t, "turn/steer")
  BY <1>9, <1>11, <1>12, <1>15
<1>18. Ascending(rest)
  <2> SUFFICES ASSUME NEW i \in 1..Len(rest), NEW j \in 1..Len(rest), i < j
               PROVE  rest[i] < rest[j]
    BY DEF Ascending
  <2>1. i + 1 < j + 1
    BY <1>9
  <2> QED
    BY <1>9, <2>1 DEF IInv, LoopFits, Ascending
<1>19. ASSUME NEW i \in 1..Len(rest)
       PROVE  /\ Accepted(rest[i], t, "turn/steer")
              /\ \A k \in 1..Len(after) : after[k] < rest[i]
              /\ \A k \in 1..Len(active.steering) : rest[i] < active.steering[k]
  <2>1. /\ Accepted(rest[i], t, "turn/steer")
        /\ \A k \in 1..Len(before) : before[k] < rest[i]
        /\ \A k \in 1..Len(active.steering) : rest[i] < active.steering[k]
    BY <1>9, <1>11
  <2>2. first < rest[i]
    BY <1>14
  <2> QED
    BY <1>15, <2>1, <2>2
<1>20. LoopFits'
  <2>1. drained' = rest
    BY <1>2 DEF rest
  <2>2. main'.at = "steering" <=> rest # <<>>
    BY <1>1, <1>4 DEF rest
  <2>3. main'.at # "interrupting" /\ main'.frame = t
    BY <1>4, <1>8
  <2> QED
    BY <1>2, <1>7, <1>9, <1>13, <1>18, <1>19, <2>1, <2>2, <2>3 DEF LoopFits
<1>21. ActiveFits'
  <2>1. \A i \in 1..Len(active.steering) : \A k \in 1..Len(after) : after[k] < active.steering[i]
    <3> SUFFICES ASSUME NEW i \in 1..Len(active.steering), NEW k \in 1..Len(after)
                 PROVE  after[k] < active.steering[i]
      OBVIOUS
    <3>1. CASE k \in 1..Len(before)
      BY <1>8, <1>15, <3>1 DEF IInv, ActiveFits, before
    <3>2. CASE k = Len(before) + 1
      BY <1>9, <1>11, <1>15, <3>2
    <3> QED
      BY <1>15, <3>1, <3>2
  <2>2. /\ active.on <=> main'.at \in InTurn
        /\ main'.frame = t
    BY <1>3, <1>4, <1>8, InTurnFits
  <2> QED
    BY <1>2, <1>7, <1>8, <1>13, <2>1, <2>2 DEF IInv, ActiveFits, Ascending
<1>22. HistoryFits'
  <2>1. ASSUME NEW other \in Numbers
        PROVE  /\ Ascending(steered'[other])
               /\ \A i \in 1..Len(steered'[other]) :
                    Accepted(steered'[other][i], other, "turn/steer")
    BY <1>13, <1>16, <1>17 DEF IInv, HistoryFits
  <2> QED
    BY <1>2, <1>7, <1>13, <2>1 DEF IInv, HistoryFits, Ascending
<1> QED
  BY <1>2, <1>4, <1>5, <1>6, <1>20, <1>21, <1>22 DEF IInv

LEMMA ReceiveKeepsIInv ==
  ASSUME IInv, Receive
  PROVE  IInv'
<1>1. PICK at \in {"polling", "answering"} : main' = [main EXCEPT !.at = at]
  BY DEF Receive, Goes
<1>2. /\ main.at = "receiving"
      /\ UNCHANGED <<wire, answers, reader, queue, gate, ready, claimed, drained, interrupted,
                     steered>>
  BY DEF Receive
<1>3. main.at \in InTurn
  BY <1>2 DEF InTurn
<1>4. MainFits' /\ main'.frame = main.frame /\ main'.at \in InTurn /\ main'.at = at
  BY <1>1, <1>2, <1>3, NextRoundFits, InTurnFits DEF InTurn, Writing
<1>5. Grows /\ WireFits' /\ AnswersFit' /\ QueueFits' /\ ClaimsFit'
  BY <1>2, <1>4, NothingIsServed
<1>6. ReaderFits' /\ LoopFits'
  BY <1>2, <1>4, NoSteerIsWritten DEF IInv, ReaderFits
<1>7. ActiveFits' /\ HistoryFits'
  <2>1. CASE UNCHANGED <<active, givenUp>>
    BY <1>2, <1>3, <1>4, <1>5, <2>1, ActiveHolds, HistoryHolds DEF IInv, HistoryFits
  <2>2. CASE active' = [active EXCEPT !.cancelled = TRUE] /\ givenUp' = givenUp \cup {main.frame}
    BY <1>2, <1>3, <1>4, <2>2, GivingUpFits
  <2> QED
    BY <2>1, <2>2 DEF Receive
<1> QED
  BY <1>2, <1>4, <1>5, <1>6, <1>7 DEF IInv

LEMMA TurnReturnsKeepsIInv ==
  ASSUME IInv, TurnReturns
  PROVE  IInv'
<1>1. /\ main.at \in InTurn /\ main' = [main EXCEPT !.at = "over"] /\ drained' = <<>>
      /\ UNCHANGED <<wire, answers, reader, queue, gate, ready, claimed, active, interrupted,
                     steered, givenUp>>
  BY DEF TurnReturns, Goes
<1>2. MainFits' /\ main'.frame = main.frame /\ main'.at \in InTurn /\ main'.at = "over"
  BY <1>1, NextRoundFits, InTurnFits DEF InTurn
<1>3. Grows /\ WireFits' /\ AnswersFit' /\ QueueFits' /\ ClaimsFit'
  BY <1>1, <1>2, NothingIsServed
<1>4. ReaderFits' /\ LoopFits'
  BY <1>1, <1>2, NothingDrained DEF IInv, ReaderFits
<1>5. ActiveFits' /\ HistoryFits'
  BY <1>1, <1>2, <1>3, ActiveHolds, HistoryHolds DEF IInv, HistoryFits
<1> QED
  BY <1>1, <1>2, <1>3, <1>4, <1>5 DEF IInv

LEMMA FinishTurnKeepsIInv ==
  ASSUME IInv, FinishTurn
  PROVE  IInv'
<1>1. /\ main.at = "over" /\ active' = NoActive /\ main' \in {Idle, Stopped}
      /\ UNCHANGED <<wire, reader, queue, gate, ready, claimed, Turn>>
      /\ \/ answers[main.frame] = "none" /\ Answer(main.frame, "refused")
         \/ UNCHANGED answers
  BY DEF FinishTurn
<1>2. /\ main.frame \in 1..Len(wire) /\ main.frame \in Numbers
      /\ 1..Len(wire) \subseteq Numbers
  BY <1>1, InTurnFits DEF InTurn
<1>3. main'.frame = NoFrame /\ main'.at \in {"idle", "stopped"}
      /\ main' \in [at : {"idle", "stopped"}, frame : {NoFrame}]
  BY <1>1 DEF Idle, Stopped
<1>4. /\ answers' \in [Numbers -> Answers]
      /\ \A k \in Numbers : k # main.frame => answers'[k] = answers[k]
      /\ answers[main.frame] = "ok" => answers'[main.frame] = "ok"
  BY <1>1, <1>2, AnswerGives DEF Answers, IInv, AnswersFit
<1>5. Grows
  BY <1>1, <1>2, <1>4, WireIsTyped DEF IInv, Grows
<1>6. WireFits' /\ AnswersFit'
  BY <1>1, <1>2, <1>4 DEF IInv, WireFits, AnswersFit
<1>7. QueueFits'
  BY <1>1, <1>3, <1>4, NoFrameIsNone DEF IInv, QueueFits, Ascending
<1>8. ReaderFits' /\ MainFits'
  BY <1>1, <1>2, <1>3, <1>4, NoFrameIsNone DEF IInv, ReaderFits, MainFits
<1>9. Served' \subseteq Served
  BY <1>1, <1>2, <1>3, <1>4, NoFrameIsNone DEF Served
<1>10. ClaimsFit'
  BY <1>1, <1>5, <1>9, ClaimsHold DEF IInv, ClaimsFit
<1>11. ActiveFits'
  BY <1>1, <1>3, NoTurnFits, NoActiveFits DEF InTurn
<1>12. HistoryFits'
  BY <1>1, <1>5, HistoryHolds DEF IInv, HistoryFits, Turn
<1>13. LoopFits'
  BY <1>1, <1>3, NoSteerIsWritten DEF Turn
<1> QED
  BY <1>1, <1>6, <1>7, <1>8, <1>10, <1>11, <1>12, <1>13 DEF IInv

LEMMA NextKeepsIInv == IInv /\ [Next]_vars => IInv'
<1> SUFFICES ASSUME IInv, [Next]_vars PROVE IInv'
  OBVIOUS
<1>1. CASE UNCHANGED vars
  <2>1. Grows /\ WireFits' /\ AnswersFit' /\ QueueFits' /\ ClaimsFit'
    BY <1>1, NothingIsServed DEF vars
  <2>2. ReaderFits' /\ MainFits'
    BY <1>1 DEF vars, IInv, ReaderFits, MainFits
  <2>3. ActiveFits' /\ LoopFits' /\ HistoryFits'
    BY <1>1, <2>1, ActiveHolds, LoopHolds, HistoryHolds DEF vars, IInv, HistoryFits
  <2> QED
    BY <1>1, <2>1, <2>2, <2>3 DEF vars, IInv
<1>2. CASE Next
  BY <1>2, ReadFrameKeepsIInv, ReaderServesKeepsIInv, ReaderEndsKeepsIInv, ServeKeepsIInv,
     MainServesKeepsIInv, MainStopsKeepsIInv, TurnStartsKeepsIInv, RoundKeepsIInv,
     InterruptWrittenKeepsIInv, DrainKeepsIInv, SteerWrittenKeepsIInv, ReceiveKeepsIInv,
     TurnReturnsKeepsIInv, FinishTurnKeepsIInv DEF Next
<1> QED
  BY <1>1, <1>2

LEMMA IInvHolds == Spec => []IInv
BY InitEstablishesIInv, NextKeepsIInv, PTL DEF Spec

-----------------------------------------------------------------------------
(* The theorems *)

(* The queues between the client, the two threads and the Turn keep their  *)
(* bounds (sync_channel in main.rs, TurnSteeringHandle::enqueue), and once *)
(* the validator has failed for the reader nothing is served, whatever was *)
(* queued before (TransportFaultGate).                                     *)
THEOREM ConnectionStaysSound == Spec => []ConnectionIsSound
<1>1. IInv => ConnectionIsSound
  <2> SUFFICES ASSUME IInv PROVE ConnectionIsSound
    OBVIOUS
  <2>1. /\ answers \in [Numbers -> {"none", "ok", "refused", "duplicate", "overloaded", "twice"}]
    BY DEF IInv, AnswersFit, Answers
  <2>2. NothingRunsAfterFault
    BY DEF IInv, MainFits, NothingRunsAfterFault
  <2>3. TypeOK
    BY <2>1 DEF IInv, TypeOK, WireFits, FrameSet, Methods, QueueFits, ReaderFits, MainFits,
                ClaimsFit, ActiveFits, LoopFits, HistoryFits
  <2> QED
    BY <2>2, <2>3 DEF ConnectionIsSound
<1> QED
  BY <1>1, IInvHolds, PTL

(* A frame is answered at most once, and of the frames that carry one      *)
(* identity at most one is served, by whichever of the two threads claims  *)
(* it first (claim_request in lib.rs).                                     *)
THEOREM RequestsRunAtMostOnce == Spec => []RequestsRunOnce
<1>1. IInv => RequestsRunOnce
  <2> SUFFICES ASSUME IInv PROVE RequestsRunOnce
    OBVIOUS
  <2>1. \A n \in Numbers : answers[n] # "twice"
    BY DEF IInv, AnswersFit, Answers
  <2>2. DOMAIN wire = 1..Len(wire)
    BY WireIsTyped DEF IInv
  <2>3. \A n \in DOMAIN wire : answers[n] \in {"ok", "refused"} => n \in Served
    BY <2>2 DEF Served
  <2> QED
    BY <2>1, <2>3 DEF RequestsRunOnce, IInv, ClaimsFit
<1> QED
  BY <1>1, IInvHolds, PTL

(* A cancellation and a steer act on the Turn they name or on none, and    *)
(* the provider is given the steers of a Turn once and in their order,     *)
(* wherever its end and the next Turn's beginning fall between the steps   *)
(* of the reader (cancel_claimed, steer_claimed, begin_turn, finish_turn). *)
THEOREM ControlsStayWithTheirTurn == Spec => []ControlsHitTheirTurn
<1>1. IInv => ControlsHitTheirTurn
  <2> SUFFICES ASSUME IInv PROVE ControlsHitTheirTurn
    OBVIOUS
  <2>1. DOMAIN wire = 1..Len(wire)
    BY WireIsTyped DEF IInv
  <2>2. \A n, t, method : Accepted(n, t, method) => n \in AcceptedFor(t, method)
    BY <2>1 DEF Accepted, AcceptedFor
  <2>3. CancelHitsItsTurn
    BY <2>2 DEF CancelHitsItsTurn, IInv, HistoryFits, Cancelled
  <2>4. \A t \in Numbers : DOMAIN steered[t] = 1..Len(steered[t])
    BY DEF IInv, HistoryFits
  <2>5. SteersReachTheirTurn
    BY <2>2, <2>4 DEF SteersReachTheirTurn, IInv, HistoryFits, Ascending
  <2> QED
    BY <2>3, <2>5 DEF ControlsHitTheirTurn
<1> QED
  BY <1>1, IInvHolds, PTL
=============================================================================
