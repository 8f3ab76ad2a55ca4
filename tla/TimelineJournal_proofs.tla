------------------------ MODULE TimelineJournal_proofs ------------------------
(***************************************************************************)
(* Proofs about TimelineJournal, for every number of Sessions, Turns and   *)
(* Items, every clock, every limit and any number of crashes.              *)
(*                                                                         *)
(* The argument.  The journal's guards (ValidEnvelope, FollowsHead) make   *)
(* every durable event well-typed and numbered after the head; the head is *)
(* the last event of the history; the sequencer is at the head unless one  *)
(* call is between its append and its commit; and that call's events are   *)
(* the end of the history, above everything emitted so far.  IInv is the   *)
(* conjunction; it does not look inside the folds that replay and project. *)
(*                                                                         *)
(* ReplayInv does.  A fold over a history is unrolled into the states      *)
(* after each of its events (Runs), by the least event at which they would *)
(* differ.  The history of a Session replays from nothing; the checkpoint  *)
(* is that of the state at the floor; the sequencer is the state at the    *)
(* head up to the Items of finished Turns (Same), which no rule reads; and *)
(* a prepared call replays on it.  Hence a restart finds what was there,   *)
(* every Turn is well formed, and every prepared event fits.               *)
(*                                                                         *)
(* ViewInv adds the projection.  State and view Match after each event of  *)
(* a history that replays: what the sequencer's phases allow, the          *)
(* projection's Item states allow too, and every view passes validation.   *)
(* Hence only the limits refuse a cut of the journal (StoreInv: what was    *)
(* stored within them stays so).                                           *)
(***************************************************************************)
EXTENDS TimelineJournalProps, EventSequencer_proofs, SequenceTheorems, FiniteSetTheorems,
        WellFoundedInduction, TLAPS

(* The head is the last event of the history of a Session that is not      *)
(* purged, and the retained rows are the events above the floor.           *)
HeadIsLast(s) ==
  /\ cursor[s].head = IF log[s] = <<>> THEN NoEvent ELSE log[s][Len(log[s])]
  /\ cursor[s].floor.sequence \in 0..Len(log[s])
  /\ rows[s] = SubSeq(log[s], cursor[s].floor.sequence + 1, Len(log[s]))

(* What was emitted is in the history, in its order.                       *)
EmittedInOrder(s) ==
  /\ \A n \in 1..Len(emitted[s]) : /\ emitted[s][n].sequence \in 1..Len(log[s])
                                   /\ log[s][emitted[s][n].sequence] = emitted[s][n]
  /\ \A m, n \in 1..Len(emitted[s]) : m < n => emitted[s][m].sequence < emitted[s][n].sequence

(* The call under way, in each of its stages.                              *)
IsSequence(q) == Len(q) \in Nat /\ Len(q) >= 1 /\ q = [n \in 1..Len(q) |-> q[n]]
CallIsRecord ==
  call.stage # "none" =>
    call = [stage |-> call.stage, session |-> call.session, events |-> call.events,
            candidate |-> call.candidate, expected |-> call.expected]
CallIsPrepared ==
  call.stage = "prepared" =>
    /\ IsSequence(call.events)
    /\ call.expected = sequencer[call.session].lastEvent
    /\ call.candidate.lastEvent = call.events[Len(call.events)]
CallIsPending ==
  call.stage \in {"appended", "committed"} =>
    LET s == call.session
    IN  /\ deletion[s] = "none"
        /\ Len(call.events) <= Len(log[s])
        /\ \A n \in 1..Len(call.events) :
              call.events[n] = log[s][Len(log[s]) - Len(call.events) + n]
        /\ \A n \in 1..Len(emitted[s]) : emitted[s][n].sequence < call.events[1].sequence
CallIsAppended ==
  call.stage = "appended" =>
    /\ call.expected = sequencer[call.session].lastEvent
    /\ call.candidate.lastEvent = cursor[call.session].head
SequencerIsAtHead ==
  runtime = "up" => \A s \in Sessions :
    deletion[s] # "purged" /\ ~(call.stage = "appended" /\ call.session = s)
      => sequencer[s].lastEvent = cursor[s].head
CallNeedsRuntime == runtime # "up" => call = NoCall

IInv ==
  /\ TypeOK
  /\ \A s \in Sessions : deletion[s] # "purged" => HeadIsLast(s)
  /\ \A s \in Sessions : IsHistory(log[s]) /\ EmittedInOrder(s)
  /\ CallIsRecord /\ CallIsPrepared /\ CallIsPending /\ CallIsAppended
  /\ SequencerIsAtHead /\ CallNeedsRuntime

-----------------------------------------------------------------------------
(* An empty journal with a sequencer that has seen nothing.                *)
THEOREM InitEstablishesIInv == Init => IInv
<1> SUFFICES ASSUME Init PROVE IInv
  OBVIOUS
<1>1. <<>> \in Seq(Envelopes)
  OBVIOUS
<1>2. TypeOK
  BY <1>1, JournalAssumption DEF Init, TypeOK, Anchors, NoCall
<1>3. ASSUME NEW s \in Sessions PROVE HeadIsLast(s) /\ IsHistory(log[s]) /\ EmittedInOrder(s)
  BY DEF Init, HeadIsLast, IsHistory, EmittedInOrder, NoEvent
<1>4. CallIsRecord /\ CallIsPrepared /\ CallIsPending /\ CallIsAppended /\ CallNeedsRuntime
  BY DEF Init, CallIsRecord, CallIsPrepared, CallIsPending, CallIsAppended, CallNeedsRuntime, NoCall
<1>5. SequencerIsAtHead
  BY DEF Init, SequencerIsAtHead, EmptySession, NoCall
<1> QED
  BY <1>2, <1>3, <1>4, <1>5 DEF IInv

-----------------------------------------------------------------------------
(* The steps that change neither the journal nor what was emitted keep the *)
(* part of the invariant that is about them.                               *)
LEMMA HistoryIsKept ==
  ASSUME IInv, UNCHANGED <<cursor, rows, emitted, log>>,
         \A s \in Sessions : deletion[s] = "purged" => deletion'[s] = "purged"
  PROVE  /\ \A s \in Sessions : deletion'[s] # "purged" => HeadIsLast(s)'
         /\ \A s \in Sessions : IsHistory(log[s])' /\ EmittedInOrder(s)'
BY DEF IInv, HeadIsLast, IsHistory, EmittedInOrder

LEMMA PrepareEventKeepsIInv ==
  ASSUME IInv, NEW s \in Sessions, NEW t \in Turns, NEW r \in Requests, NEW now \in Clock,
         PrepareEvent(s, t, r, now)
  PROVE  IInv'
<1> DEFINE prepared == Prepare(s, sequencer[s], t, r.event, r.item, now)
<1>1. /\ Idle /\ prepared.outcome = "ok"
      /\ call' = Call(s, <<prepared.envelope>>, prepared.session, prepared.expected)
      /\ UNCHANGED <<durable, runtime, sequencer, emitted, log, crashes>>
  BY Zenon DEF PrepareEvent
<1>2. prepared.session.lastEvent = prepared.envelope /\ prepared.expected = sequencer[s].lastEvent
  BY <1>1, PreparedIsLast, PreparedAfterLast
<1> HIDE DEF prepared
<1>3. TypeOK'
  BY <1>1 DEF IInv, TypeOK, Call, durable
<1>4. /\ \A x \in Sessions : deletion'[x] # "purged" => HeadIsLast(x)'
      /\ \A x \in Sessions : IsHistory(log[x])' /\ EmittedInOrder(x)'
  BY <1>1, HistoryIsKept DEF durable
<1>5. CallIsPrepared'
  BY <1>1, <1>2 DEF Call, CallIsPrepared, IsSequence, durable
<1>6. CallIsRecord' /\ CallIsPending' /\ CallIsAppended' /\ CallNeedsRuntime'
  BY <1>1 DEF Call, CallIsRecord, CallIsPending, CallIsAppended, CallNeedsRuntime, Idle
<1>7. SequencerIsAtHead'
  BY <1>1 DEF IInv, SequencerIsAtHead, Idle, NoCall, Call, durable
<1> QED
  BY <1>3, <1>4, <1>5, <1>6, <1>7 DEF IInv

LEMMA PreparePreviewKeepsIInv ==
  ASSUME IInv, NEW s \in Sessions, NEW t \in Turns, NEW items \in PreviewItems, NEW now \in Clock,
         PreparePreview(s, t, items, now)
  PROVE  IInv'
<1>1. PICK p1, p2, p3, p4, p5, p6 :
        /\ p1.expected = sequencer[s].lastEvent
        /\ p6.session.lastEvent = p6.envelope
        /\ call' = Call(s, [n \in 1..6 |-> <<p1, p2, p3, p4, p5, p6>>[n].envelope],
                        p6.session, p1.expected)
  <2> DEFINE requests == PreviewEvents(items[1], items[2])
             Sequence(session, n) == Prepare(s, session, t, requests[n].event, requests[n].item, now)
             q1 == Sequence(sequencer[s], 1)
             q2 == Sequence(q1.session, 2)
             q3 == Sequence(q2.session, 3)
             q4 == Sequence(q3.session, 4)
             q5 == Sequence(q4.session, 5)
             q6 == Sequence(q5.session, 6)
             staged == <<q1, q2, q3, q4, q5, q6>>
  <2>1. /\ \A n \in 1..6 : staged[n].outcome = "ok"
        /\ call' = Call(s, [n \in 1..6 |-> staged[n].envelope], q6.session, q1.expected)
    BY DEF PreparePreview
  <2>2. q6.outcome = "ok"
    <3> HIDE DEF q1, q2, q3, q4, q5, q6
    <3> QED
      BY <2>1
  <2>3. q6.session.lastEvent = q6.envelope /\ q1.expected = sequencer[s].lastEvent
    <3> HIDE DEF requests, q1, q5
    <3>1. q6.session.lastEvent = q6.envelope
      BY <2>2, PreparedIsLast
    <3>2. q1.expected = sequencer[s].lastEvent
      BY PreparedAfterLast DEF q1
    <3> QED
      BY <3>1, <3>2
  <2> HIDE DEF q1, q2, q3, q4, q5, q6
  <2> QED
    BY <2>1, <2>3
<1>2. Idle /\ UNCHANGED <<durable, runtime, sequencer, emitted, log, crashes>>
  BY DEF PreparePreview
<1>3. TypeOK'
  BY <1>1, <1>2 DEF IInv, TypeOK, Call, durable
<1>4. /\ \A x \in Sessions : deletion'[x] # "purged" => HeadIsLast(x)'
      /\ \A x \in Sessions : IsHistory(log[x])' /\ EmittedInOrder(x)'
  BY <1>2, HistoryIsKept DEF durable
<1>5. CallIsPrepared'
  <2> DEFINE events == [n \in 1..6 |-> <<p1, p2, p3, p4, p5, p6>>[n].envelope]
  <2>1. Len(events) = 6 /\ events[6] = p6.envelope /\ IsSequence(events)
    BY DEF IsSequence
  <2> HIDE DEF events
  <2>2. call' = Call(s, events, p6.session, p1.expected)
    BY <1>1 DEF events
  <2> QED
    BY <1>1, <1>2, <2>1, <2>2 DEF Call, CallIsPrepared, durable
<1>6. CallIsRecord' /\ CallIsPending' /\ CallIsAppended' /\ CallNeedsRuntime'
  BY <1>1, <1>2 DEF Call, CallIsRecord, CallIsPending, CallIsAppended, CallNeedsRuntime, Idle
<1>7. SequencerIsAtHead'
  BY <1>1, <1>2 DEF IInv, SequencerIsAtHead, Idle, NoCall, Call, durable
<1> QED
  BY <1>3, <1>4, <1>5, <1>6, <1>7 DEF IInv

(* The append is the step that carries the argument: its guards give the   *)
(* new events their type, their numbers and their times.                   *)
LEMMA AppendCallKeepsIInv ==
  ASSUME IInv, AppendCall
  PROVE  IInv'
<1>0. PICK s, new : s = call.session /\ new = call.events
  OBVIOUS
<1>1. /\ runtime = "up" /\ call.stage = "prepared" /\ deletion[s] = "none"
      /\ \A n \in 1..Len(new) : new[n] \in Envelopes
      /\ FollowsHead(s, new)
      /\ rows' = [rows EXCEPT ![s] = @ \o new]
      /\ cursor' = [cursor EXCEPT ![s].head = new[Len(new)]]
      /\ log' = [log EXCEPT ![s] = @ \o new]
      /\ call' = [call EXCEPT !.stage = "appended"]
      /\ UNCHANGED <<checkpoint, snapshot, deletion, runtime, sequencer, emitted, crashes>>
  BY <1>0 DEF AppendCall, AppendIsPermitted, Writable, EventsFit, ValidEnvelope
<1>2. s \in Sessions /\ new \in Seq(Envelopes) /\ Len(new) \in Nat /\ Len(new) >= 1
  <2>1. s \in Sessions /\ Len(new) \in Nat /\ Len(new) >= 1 /\ new = [n \in 1..Len(new) |-> new[n]]
    BY <1>0, <1>1 DEF IInv, TypeOK, CallIsPrepared, IsSequence
  <2> QED
    BY <1>1, <2>1
<1>3. /\ log[s] \in Seq(Envelopes) /\ rows[s] \in Seq(Envelopes)
      /\ Len(log[s]) \in Nat /\ Len(rows[s]) \in Nat
  BY <1>2 DEF IInv, TypeOK
<1>4. /\ log'[s] = log[s] \o new /\ rows'[s] = rows[s] \o new
      /\ cursor'[s].head = new[Len(new)] /\ cursor'[s].floor = cursor[s].floor
      /\ \A x \in Sessions \ {s} : log'[x] = log[x] /\ rows'[x] = rows[x] /\ cursor'[x] = cursor[x]
  BY <1>1, <1>2 DEF IInv, TypeOK
<1>5. /\ log'[s] \in Seq(Envelopes) /\ Len(log'[s]) = Len(log[s]) + Len(new)
      /\ \A n \in 1..Len(log[s]) : log'[s][n] = log[s][n]
      /\ \A n \in 1..Len(new) : log'[s][Len(log[s]) + n] = new[n]
      /\ log'[s] # <<>> /\ log'[s][Len(log'[s])] = new[Len(new)]
  <2>1. /\ log'[s] \in Seq(Envelopes) /\ Len(log'[s]) = Len(log[s]) + Len(new)
        /\ \A n \in 1..Len(log[s]) : log'[s][n] = log[s][n]
        /\ \A n \in 1..Len(new) : log'[s][Len(log[s]) + n] = new[n]
    <3>1. /\ log[s] \o new \in Seq(Envelopes) /\ Len(log[s] \o new) = Len(log[s]) + Len(new)
          /\ \A n \in 1..Len(log[s]) : (log[s] \o new)[n] = log[s][n]
          /\ \A n \in 1..Len(new) : (log[s] \o new)[Len(log[s]) + n] = new[n]
      BY <1>2, <1>3, ConcatFacts, Zenon
    <3> QED
      BY <1>4, <3>1, Zenon
  <2>2. Len(new) \in 1..Len(new) /\ Len(log'[s]) # 0
    <3>1. Len(new) \in 1..Len(new)
      BY <1>2
    <3>2. Len(log[s]) + Len(new) # 0
      BY <1>2, <1>3
    <3>3. Len(log'[s]) = Len(log[s]) + Len(new)
      BY <2>1
    <3> QED
      BY <3>1, <3>2, <3>3
  <2> QED
    BY <2>1, <2>2
<1>6. rows'[s] \in Seq(Envelopes)
  BY <1>2, <1>3, <1>4, ConcatFacts
<1>7. new[Len(new)] \in Envelopes
  BY <1>1, <1>2
<1>8. /\ call'.stage = "appended" /\ call'.session = s /\ call'.events = new
      /\ call'.expected = call.expected /\ call'.candidate = call.candidate
      /\ call' = [stage |-> "appended", session |-> s, events |-> new,
                  candidate |-> call.candidate, expected |-> call.expected]
  BY <1>0, <1>1 DEF IInv, CallIsRecord
<1>9. TypeOK'
  <2>1. /\ cursor' \in [Sessions -> [head : Anchors, floor : Anchors]]
        /\ rows' \in [Sessions -> Seq(Envelopes)]
        /\ log' \in [Sessions -> Seq(Envelopes)]
    <3>1. /\ cursor \in [Sessions -> [head : Anchors, floor : Anchors]]
          /\ rows \in [Sessions -> Seq(Envelopes)] /\ log \in [Sessions -> Seq(Envelopes)]
      BY DEF IInv, TypeOK
    <3>2. cursor' \in [Sessions -> [head : Anchors, floor : Anchors]]
      BY <1>1, <1>2, <1>7, <3>1 DEF Anchors
    <3>3. rows' = [rows EXCEPT ![s] = rows[s] \o new] /\ rows[s] \o new \in Seq(Envelopes)
      BY <1>1, <1>4, <1>6
    <3>4. log' = [log EXCEPT ![s] = log[s] \o new] /\ log[s] \o new \in Seq(Envelopes)
      BY <1>1, <1>4, <1>5
    <3> QED
      BY <1>2, <3>1, <3>2, <3>3, <3>4
  <2>2. call'.events \in Seq(Envelopes) \ {<<>>}
    BY <1>2, <1>8
  <2> QED
    BY <1>1, <1>2, <1>8, <2>1, <2>2 DEF IInv, TypeOK
<1>10. HeadIsLast(s) /\ IsHistory(log[s]) /\ EmittedInOrder(s)
  BY <1>1, <1>2 DEF IInv
<1>11. cursor[s].head.sequence = Len(log[s])
  <2>1. CASE log[s] = <<>>
    BY <1>10, <2>1 DEF HeadIsLast, NoEvent
  <2>2. CASE log[s] # <<>>
    <3>1. Len(log[s]) \in 1..Len(log[s])
      BY <1>3, <2>2, NonEmptyFacts
    <3> QED
      BY <1>10, <2>2, <3>1 DEF HeadIsLast, IsHistory
  <2> QED
    BY <2>1, <2>2
<1>12. \A n \in 1..Len(new) : new[n].sequence = Len(log[s]) + n
  BY <1>1, <1>11 DEF FollowsHead
<1>13. IsHistory(log[s])'
  <2>1. log[s] # <<>> => log[s][Len(log[s])].timestamp <= new[1].timestamp
    <3> SUFFICES ASSUME log[s] # <<>> PROVE log[s][Len(log[s])].timestamp <= new[1].timestamp
      OBVIOUS
    <3>1. 1 \in 1..Len(new) /\ cursor[s].head = log[s][Len(log[s])]
      <4>1. cursor[s].head = log[s][Len(log[s])]
        BY <1>10 DEF HeadIsLast
      <4> QED
        BY <1>2, <4>1
    <3>2. new[1].timestamp >= log[s][Len(log[s])].timestamp
      BY <1>1, <3>1 DEF FollowsHead
    <3>3. new[1] \in Envelopes /\ log[s][Len(log[s])] \in Envelopes
      BY <1>1, <1>3, <3>1, NonEmptyFacts
    <3> QED
      BY <3>2, <3>3, SequencerAssumption DEF Envelopes
  <2>2. ASSUME NEW n \in 2..Len(new) PROVE new[n - 1].timestamp <= new[n].timestamp
    <3>1. n \in 1..Len(new) /\ n - 1 \in 1..Len(new) /\ n # 1
      BY <1>2
    <3>2. new[n].timestamp >= new[n - 1].timestamp
      BY <1>1, <3>1 DEF FollowsHead
    <3>3. new[n] \in Envelopes /\ new[n - 1] \in Envelopes
      BY <1>1, <3>1
    <3> QED
      BY <3>2, <3>3, SequencerAssumption DEF Envelopes
  <2>3. IsHistory(log[s] \o new)
    BY <1>2, <1>3, <1>10, <1>12, <2>1, <2>2, HistoryGrows
  <2> QED
    BY <1>4, <2>3 DEF IsHistory
<1>14. HeadIsLast(s)'
  <2>1. cursor[s].floor.sequence \in 0..Len(log[s])
    BY <1>10 DEF HeadIsLast
  <2>2. rows[s] \o new = SubSeq(log[s] \o new, cursor[s].floor.sequence + 1, Len(log[s] \o new))
    BY <1>2, <1>3, <1>10, <2>1, SuffixOfConcat DEF HeadIsLast
  <2>3. cursor'[s].floor.sequence \in 0..Len(log'[s])
    BY <1>2, <1>3, <1>4, <1>5, <2>1
  <2> QED
    BY <1>4, <1>5, <2>2, <2>3 DEF HeadIsLast
<1>15. EmittedInOrder(s)'
  BY <1>1, <1>2, <1>3, <1>5, <1>10 DEF EmittedInOrder
<1>16. ASSUME NEW x \in Sessions \ {s}
       PROVE  /\ deletion'[x] # "purged" => HeadIsLast(x)'
              /\ IsHistory(log[x])' /\ EmittedInOrder(x)'
  BY <1>1, <1>4 DEF IInv, HeadIsLast, IsHistory, EmittedInOrder
<1>17. CallIsRecord' /\ CallIsPrepared' /\ CallNeedsRuntime'
  BY <1>1, <1>8 DEF CallIsRecord, CallIsPrepared, CallNeedsRuntime
<1>18. CallIsPending'
  <2>1. \A n \in 1..Len(emitted[s]) : emitted[s][n].sequence < new[1].sequence
    BY <1>2, <1>3, <1>10, <1>12 DEF EmittedInOrder
  <2>2. /\ Len(new) <= Len(log'[s])
        /\ Len(log'[s]) - Len(new) = Len(log[s])
    BY <1>2, <1>3, <1>5
  <2> QED
    BY <1>1, <1>5, <1>8, <2>1, <2>2 DEF CallIsPending
<1>19. CallIsAppended'
  BY <1>0, <1>1, <1>4, <1>8 DEF IInv, CallIsPrepared, CallIsAppended
<1>20. SequencerIsAtHead'
  BY <1>0, <1>1, <1>4, <1>8 DEF IInv, SequencerIsAtHead
<1> QED
  BY <1>1, <1>9, <1>10, <1>13, <1>14, <1>15, <1>16, <1>17, <1>18, <1>19, <1>20 DEF IInv

LEMMA CommitCallKeepsIInv ==
  ASSUME IInv, CommitCall
  PROVE  IInv'
<1>0. PICK s : s = call.session
  OBVIOUS
<1>1. /\ runtime = "up" /\ call.stage = "appended" /\ s \in Sessions
      /\ sequencer' = [sequencer EXCEPT ![s] = call.candidate]
      /\ call' = [call EXCEPT !.stage = "committed"]
      /\ UNCHANGED <<durable, runtime, emitted, log, crashes>>
  BY <1>0 DEF CommitCall, IInv, TypeOK, CallIsAppended, IsStale
<1>2. /\ call'.stage = "committed" /\ call'.session = s /\ call'.events = call.events
      /\ call' = [stage |-> "committed", session |-> s, events |-> call.events,
                  candidate |-> call.candidate, expected |-> call.expected]
  BY <1>0, <1>1 DEF IInv, CallIsRecord
<1>3. TypeOK'
  BY <1>1, <1>2 DEF IInv, TypeOK, durable
<1>4. /\ \A x \in Sessions : deletion'[x] # "purged" => HeadIsLast(x)'
      /\ \A x \in Sessions : IsHistory(log[x])' /\ EmittedInOrder(x)'
  BY <1>1, HistoryIsKept DEF durable
<1>5. CallIsRecord' /\ CallIsPrepared' /\ CallIsAppended' /\ CallNeedsRuntime'
  BY <1>1, <1>2 DEF CallIsRecord, CallIsPrepared, CallIsAppended, CallNeedsRuntime
<1>6. CallIsPending'
  BY <1>0, <1>1, <1>2 DEF IInv, CallIsPending, durable
<1>7. SequencerIsAtHead'
  <2>1. call.candidate.lastEvent = cursor[s].head
    BY <1>0, <1>1 DEF IInv, CallIsAppended
  <2>2. DOMAIN sequencer = Sessions
    BY DEF IInv, TypeOK
  <2>3. sequencer'[s] = call.candidate /\ \A x \in Sessions \ {s} : sequencer'[x] = sequencer[x]
    BY <1>1, <2>2
  <2> QED
    BY <1>0, <1>1, <1>2, <2>1, <2>3 DEF IInv, SequencerIsAtHead, durable
<1> QED
  BY <1>3, <1>4, <1>5, <1>6, <1>7 DEF IInv

(* A call that ends without emitting, between two transactions.            *)
LEMMA AbandonedCallKeepsIInv ==
  ASSUME IInv, call.stage # "appended", call' = NoCall,
         UNCHANGED <<durable, runtime, sequencer, emitted, log, crashes>>
  PROVE  IInv'
<1>1. TypeOK'
  BY DEF IInv, TypeOK, NoCall, durable
<1>2. /\ \A x \in Sessions : deletion'[x] # "purged" => HeadIsLast(x)'
      /\ \A x \in Sessions : IsHistory(log[x])' /\ EmittedInOrder(x)'
  BY HistoryIsKept DEF durable
<1>3. /\ CallIsRecord' /\ CallIsPrepared' /\ CallIsPending' /\ CallIsAppended'
      /\ CallNeedsRuntime'
  BY DEF CallIsRecord, CallIsPrepared, CallIsPending, CallIsAppended, CallNeedsRuntime, NoCall
<1>4. SequencerIsAtHead'
  BY DEF IInv, SequencerIsAtHead, durable
<1> QED
  BY <1>1, <1>2, <1>3, <1>4 DEF IInv

LEMMA CrashKeepsIInv ==
  ASSUME IInv, Crash
  PROVE  IInv'
<1>1. /\ runtime' = "down" /\ call' = NoCall /\ crashes' = crashes + 1 /\ crashes < MaxCrashes
      /\ DOMAIN sequencer' = Sessions
      /\ UNCHANGED <<durable, emitted, log>>
  BY DEF Crash
<1>2. TypeOK'
  BY <1>1, JournalAssumption DEF IInv, TypeOK, NoCall, durable
<1>3. /\ \A x \in Sessions : deletion'[x] # "purged" => HeadIsLast(x)'
      /\ \A x \in Sessions : IsHistory(log[x])' /\ EmittedInOrder(x)'
  BY <1>1, HistoryIsKept DEF durable
<1>4. /\ CallIsRecord' /\ CallIsPrepared' /\ CallIsPending' /\ CallIsAppended'
      /\ CallNeedsRuntime' /\ SequencerIsAtHead'
  BY <1>1 DEF CallIsRecord, CallIsPrepared, CallIsPending, CallIsAppended, CallNeedsRuntime,
              SequencerIsAtHead, NoCall
<1> QED
  BY <1>2, <1>3, <1>4 DEF IInv

(* The restore accepts a journal only if the replay ends at its head.      *)
LEMMA RestartKeepsIInv ==
  ASSUME IInv, Restart
  PROVE  IInv'
<1>1. runtime = "down" /\ UNCHANGED <<durable, call, emitted, log, crashes>>
  BY DEF Restart
<1>2. call = NoCall
  BY <1>1 DEF IInv, CallNeedsRuntime
<1>3. /\ runtime' \in {"up", "unavailable"} /\ DOMAIN sequencer' = Sessions
      /\ runtime' = "up" => \A s \in Sessions : sequencer'[s].lastEvent = cursor[s].head
  BY DEF Restart, JournalIsRestorable, RestoreCompletes, IInv, TypeOK
<1>4. TypeOK'
  BY <1>1, <1>3 DEF IInv, TypeOK, durable
<1>5. /\ \A x \in Sessions : deletion'[x] # "purged" => HeadIsLast(x)'
      /\ \A x \in Sessions : IsHistory(log[x])' /\ EmittedInOrder(x)'
  BY <1>1, HistoryIsKept DEF durable
<1>6. /\ CallIsRecord' /\ CallIsPrepared' /\ CallIsPending' /\ CallIsAppended'
      /\ CallNeedsRuntime'
  BY <1>1, <1>2 DEF CallIsRecord, CallIsPrepared, CallIsPending, CallIsAppended,
                    CallNeedsRuntime, NoCall
<1>7. SequencerIsAtHead'
  BY <1>1, <1>3 DEF SequencerIsAtHead, durable
<1> QED
  BY <1>4, <1>5, <1>6, <1>7 DEF IInv

LEMMA PruneKeepsIInv ==
  ASSUME IInv, NEW s \in Sessions, NEW k \in 1..Len(rows[s]), Prune(s, k)
  PROVE  IInv'
<1>1. /\ Idle /\ deletion[s] = "none"
      /\ cursor' = [cursor EXCEPT ![s].floor = rows[s][k]]
      /\ rows' = [rows EXCEPT ![s] = SubSeq(rows[s], k + 1, Len(rows[s]))]
      /\ DOMAIN checkpoint' = DOMAIN checkpoint /\ DOMAIN snapshot' = DOMAIN snapshot
      /\ UNCHANGED <<deletion, runtime, sequencer, call, emitted, log, crashes>>
  BY DEF Prune, Writable
<1>2. /\ cursor \in [Sessions -> [head : Anchors, floor : Anchors]]
      /\ rows \in [Sessions -> Seq(Envelopes)] /\ log[s] \in Seq(Envelopes)
  BY DEF IInv, TypeOK
<1>3. HeadIsLast(s) /\ IsHistory(log[s])
  BY <1>1 DEF IInv
<1> DEFINE floor == cursor[s].floor.sequence
<1>4. /\ floor \in 0..Len(log[s]) /\ Len(log[s]) \in Nat
      /\ rows[s] = SubSeq(log[s], floor + 1, Len(log[s]))
      /\ Len(rows[s]) = Len(log[s]) - floor
      /\ rows[s][k] = log[s][floor + k]
  <2>1. /\ floor \in 0..Len(log[s]) /\ Len(log[s]) \in Nat
        /\ rows[s] = SubSeq(log[s], floor + 1, Len(log[s]))
    BY <1>2, <1>3 DEF HeadIsLast
  <2> HIDE DEF floor
  <2>2. /\ Len(rows[s]) = Len(log[s]) - floor
        /\ \A n \in 1..Len(log[s]) - floor : rows[s][n] = log[s][floor + n]
    BY <1>2, <2>1, SuffixFacts
  <2> QED
    BY <2>1, <2>2
<1>5. rows[s][k] \in Envelopes /\ rows[s][k].sequence = floor + k /\ floor + k \in 0..Len(log[s])
  <2> HIDE DEF floor
  <2>1. floor + k \in 1..Len(log[s])
    BY <1>4
  <2> QED
    BY <1>2, <1>3, <1>4, <2>1 DEF IsHistory
<1>6. rows'[s] = SubSeq(log[s], floor + k + 1, Len(log[s]))
  <2>1. rows'[s] = SubSeq(rows[s], k + 1, Len(rows[s]))
    BY <1>1, <1>2
  <2> HIDE DEF floor
  <2>2. k \in 1..(Len(log[s]) - floor)
    BY <1>4
  <2> QED
    BY <1>2, <1>4, <2>1, <2>2, SuffixOfSuffix
<1>7. rows'[s] \in Seq(Envelopes)
  <2> HIDE DEF floor
  <2> QED
    BY <1>2, <1>4, <1>5, <1>6, SuffixFacts
<1>8. /\ cursor'[s].floor = rows[s][k] /\ cursor'[s].head = cursor[s].head
      /\ \A x \in Sessions \ {s} : cursor'[x] = cursor[x] /\ rows'[x] = rows[x]
  BY <1>1, <1>2
<1> HIDE DEF floor
<1>9. HeadIsLast(s)'
  BY <1>1, <1>3, <1>5, <1>6, <1>8 DEF HeadIsLast
<1>10. TypeOK'
  <2>1. cursor' \in [Sessions -> [head : Anchors, floor : Anchors]]
    BY <1>1, <1>2, <1>5 DEF Anchors
  <2>2. rows' \in [Sessions -> Seq(Envelopes)]
    BY <1>1, <1>2, <1>7
  <2> QED
    BY <1>1, <2>1, <2>2 DEF IInv, TypeOK
<1>11. ASSUME NEW x \in Sessions \ {s} PROVE deletion'[x] # "purged" => HeadIsLast(x)'
  BY <1>1, <1>8 DEF IInv, HeadIsLast
<1>12. ASSUME NEW x \in Sessions PROVE IsHistory(log[x])' /\ EmittedInOrder(x)'
  BY <1>1 DEF IInv, IsHistory, EmittedInOrder
<1>13. /\ CallIsRecord' /\ CallIsPrepared' /\ CallIsPending' /\ CallIsAppended'
       /\ CallNeedsRuntime'
  BY <1>1 DEF Idle, NoCall, CallIsRecord, CallIsPrepared, CallIsPending, CallIsAppended,
              CallNeedsRuntime
<1>14. SequencerIsAtHead'
  BY <1>1, <1>8 DEF IInv, SequencerIsAtHead
<1> QED
  BY <1>9, <1>10, <1>11, <1>12, <1>13, <1>14 DEF IInv

(* Scheduling and undoing a deletion.                                      *)
LEMMA SetDeletionKeepsIInv ==
  ASSUME IInv, NEW s \in Sessions, NEW from, NEW to \in {"none", "pending"},
         from \in {"none", "pending"}, SetDeletion(s, from, to),
         UNCHANGED <<cursor, rows, checkpoint, snapshot, runtime, sequencer, call,
                     emitted, log, crashes>>
  PROVE  IInv'
<1>1. Idle /\ deletion[s] \in {"none", "pending"} /\ deletion' = [deletion EXCEPT ![s] = to]
  BY DEF SetDeletion
<1>2. \A x \in Sessions : deletion'[x] = "purged" <=> deletion[x] = "purged"
  BY <1>1 DEF IInv, TypeOK
<1>3. TypeOK'
  BY <1>1 DEF IInv, TypeOK
<1>4. /\ \A x \in Sessions : deletion'[x] # "purged" => HeadIsLast(x)'
      /\ \A x \in Sessions : IsHistory(log[x])' /\ EmittedInOrder(x)'
  BY <1>2, HistoryIsKept
<1>5. /\ CallIsRecord' /\ CallIsPrepared' /\ CallIsPending' /\ CallIsAppended'
      /\ CallNeedsRuntime'
  BY <1>1 DEF Idle, NoCall, CallIsRecord, CallIsPrepared, CallIsPending, CallIsAppended,
              CallNeedsRuntime
<1>6. SequencerIsAtHead'
  BY <1>2 DEF IInv, SequencerIsAtHead
<1> QED
  BY <1>3, <1>4, <1>5, <1>6 DEF IInv

LEMMA PurgeKeepsIInv ==
  ASSUME IInv, NEW s \in Sessions, Purge(s)
  PROVE  IInv'
<1>1. /\ Idle /\ deletion[s] = "pending" /\ deletion' = [deletion EXCEPT ![s] = "purged"]
      /\ cursor' = [cursor EXCEPT ![s] = [head |-> NoEvent, floor |-> NoEvent]]
      /\ rows' = [rows EXCEPT ![s] = <<>>]
      /\ DOMAIN checkpoint' = DOMAIN checkpoint /\ DOMAIN snapshot' = DOMAIN snapshot
      /\ UNCHANGED <<runtime, sequencer, call, emitted, log, crashes>>
  BY DEF Purge, SetDeletion
<1>2. TypeOK'
  <2>1. <<>> \in Seq(Envelopes)
    OBVIOUS
  <2> QED
    BY <1>1, <2>1 DEF IInv, TypeOK, Anchors
<1>3. deletion'[s] = "purged" /\ \A x \in Sessions \ {s} : deletion'[x] = deletion[x] 
  BY <1>1 DEF IInv, TypeOK
<1>4. \A x \in Sessions \ {s} : cursor'[x] = cursor[x] /\ rows'[x] = rows[x]
  BY <1>1 DEF IInv, TypeOK
<1>5. ASSUME NEW x \in Sessions PROVE IsHistory(log[x])' /\ EmittedInOrder(x)'
  BY <1>1 DEF IInv, IsHistory, EmittedInOrder
<1>8. ASSUME NEW x \in Sessions, deletion'[x] # "purged" PROVE HeadIsLast(x)'
  <2>1. x \in Sessions \ {s} /\ HeadIsLast(x)
    BY <1>3, <1>8 DEF IInv
  <2> QED
    BY <1>1, <1>4, <2>1 DEF HeadIsLast
<1>6. /\ CallIsRecord' /\ CallIsPrepared' /\ CallIsPending' /\ CallIsAppended'
      /\ CallNeedsRuntime'
  BY <1>1 DEF Idle, NoCall, CallIsRecord, CallIsPrepared, CallIsPending, CallIsAppended,
              CallNeedsRuntime
<1>7. SequencerIsAtHead'
  BY <1>1, <1>3, <1>4 DEF IInv, SequencerIsAtHead
<1> QED
  BY <1>2, <1>5, <1>6, <1>7, <1>8 DEF IInv

(* Emitting: the head of the call's events is above everything emitted     *)
(* before it and below the rest of the call's events.                      *)
LEMMA EmitEventKeepsIInv ==
  ASSUME IInv, EmitEvent
  PROVE  IInv'
<1>0. PICK s, old, rest : s = call.session /\ old = call.events /\ rest = Tail(old)
  OBVIOUS
<1>1. /\ runtime = "up" /\ call.stage = "committed"
      /\ emitted' = [emitted EXCEPT ![s] = Append(emitted[s], Head(old))]
      /\ call' = IF rest = <<>> THEN NoCall ELSE [call EXCEPT !.events = rest]
      /\ UNCHANGED <<durable, runtime, sequencer, log, crashes>>
  BY <1>0 DEF EmitEvent
<1>2. /\ s \in Sessions /\ old \in Seq(Envelopes) /\ old # <<>>
      /\ log[s] \in Seq(Envelopes) /\ emitted \in [Sessions -> Seq(Envelopes)]
  BY <1>0, <1>1 DEF IInv, TypeOK
<1>3. /\ Len(old) \in Nat /\ Len(old) >= 1 /\ Head(old) = old[1] /\ old[1] \in Envelopes
      /\ rest \in Seq(Envelopes) /\ Len(rest) = Len(old) - 1
      /\ \A n \in 1..Len(old) - 1 : rest[n] = old[n + 1]
  BY <1>0, <1>2, NonEmptyFacts
<1>4. /\ Len(log[s]) \in Nat /\ emitted[s] \in Seq(Envelopes) /\ Len(emitted[s]) \in Nat
  BY <1>2
<1>5. /\ Len(old) <= Len(log[s])
      /\ \A n \in 1..Len(old) : old[n] = log[s][Len(log[s]) - Len(old) + n]
      /\ \A n \in 1..Len(emitted[s]) : emitted[s][n].sequence < old[1].sequence
      /\ deletion[s] = "none"
  BY <1>0, <1>1 DEF IInv, CallIsPending
<1>6. IsHistory(log[s]) /\ EmittedInOrder(s)
  BY <1>2 DEF IInv
<1>7. ASSUME NEW n \in 1..Len(old) PROVE old[n].sequence = Len(log[s]) - Len(old) + n
  <2>1. Len(log[s]) - Len(old) + n \in 1..Len(log[s])
    <3>1. Len(old) \in Nat /\ Len(log[s]) \in Nat /\ Len(old) <= Len(log[s])
      BY <1>3, <1>4, <1>5
    <3> QED
      BY <3>1
  <2> QED
    BY <1>5, <1>6, <2>1 DEF IsHistory
<1>8. /\ emitted'[s] \in Seq(Envelopes) /\ Len(emitted'[s]) = Len(emitted[s]) + 1
      /\ \A n \in 1..Len(emitted[s]) : emitted'[s][n] = emitted[s][n]
      /\ emitted'[s][Len(emitted[s]) + 1] = old[1]
  <2>1. emitted'[s] = Append(emitted[s], old[1])
    BY <1>1, <1>2, <1>3
  <2> QED
    BY <1>3, <1>4, <2>1
<1>9. \A x \in Sessions \ {s} : emitted'[x] = emitted[x]
  BY <1>1, <1>2
<1>10. EmittedInOrder(s)'
  <2>1. /\ old[1].sequence \in 1..Len(log[s]) /\ log[s][old[1].sequence] = old[1]
    BY <1>3, <1>4, <1>5, <1>7
  <2>2. ASSUME NEW n \in 1..Len(emitted'[s])
        PROVE  /\ emitted'[s][n].sequence \in 1..Len(log[s])
               /\ log[s][emitted'[s][n].sequence] = emitted'[s][n]
    <3>1. CASE n <= Len(emitted[s])
      BY <1>4, <1>6, <1>8, <3>1 DEF EmittedInOrder
    <3>2. CASE n = Len(emitted[s]) + 1
      BY <1>8, <2>1, <3>2
    <3> QED
      BY <1>4, <1>8, <3>1, <3>2
  <2>3. ASSUME NEW m \in 1..Len(emitted'[s]), NEW n \in 1..Len(emitted'[s]), m < n
        PROVE  emitted'[s][m].sequence < emitted'[s][n].sequence
    <3>1. m \in 1..Len(emitted[s])
      BY <1>4, <1>8, <2>3
    <3>2. CASE n <= Len(emitted[s])
      <4>1. n \in 1..Len(emitted[s])
        BY <1>4, <3>2
      <4>2. emitted[s][m].sequence < emitted[s][n].sequence
        BY <1>6, <2>3, <3>1, <4>1 DEF EmittedInOrder
      <4> QED
        BY <1>8, <3>1, <4>1, <4>2
    <3>3. CASE n = Len(emitted[s]) + 1
      BY <1>5, <1>8, <3>1, <3>3
    <3> QED
      BY <1>4, <1>8, <3>2, <3>3
  <2> QED
    BY <1>1, <2>2, <2>3 DEF EmittedInOrder
<1>11. ASSUME NEW x \in Sessions PROVE deletion'[x] # "purged" => HeadIsLast(x)'
  BY <1>1 DEF IInv, HeadIsLast, durable
<1>12. ASSUME NEW x \in Sessions PROVE IsHistory(log[x])'
  BY <1>1 DEF IInv, IsHistory
<1>13. ASSUME NEW x \in Sessions \ {s} PROVE EmittedInOrder(x)'
  BY <1>1, <1>9 DEF IInv, EmittedInOrder
<1>14. emitted' \in [Sessions -> Seq(Envelopes)]
  <2>1. Append(emitted[s], Head(old)) \in Seq(Envelopes)
    BY <1>1, <1>2, <1>8
  <2> QED
    BY <1>1, <1>2, <2>1
<1>15. CASE rest = <<>>
  <2>1. call' = NoCall
    BY <1>1, <1>15
  <2>2. TypeOK'
    BY <1>1, <1>14, <2>1 DEF IInv, TypeOK, NoCall, durable
  <2>3. /\ CallIsRecord' /\ CallIsPrepared' /\ CallIsPending' /\ CallIsAppended'
        /\ CallNeedsRuntime'
    BY <2>1 DEF NoCall, CallIsRecord, CallIsPrepared, CallIsPending, CallIsAppended,
                CallNeedsRuntime
  <2>4. SequencerIsAtHead'
    BY <1>1, <2>1 DEF IInv, SequencerIsAtHead, NoCall, durable
  <2> QED
    BY <1>2, <1>10, <1>11, <1>12, <1>13, <2>2, <2>3, <2>4 DEF IInv
<1>16. CASE rest # <<>>
  <2>1. /\ call'.stage = "committed" /\ call'.session = s /\ call'.events = rest
        /\ call' = [stage |-> "committed", session |-> s, events |-> rest,
                    candidate |-> call.candidate, expected |-> call.expected]
    BY <1>0, <1>1, <1>16 DEF IInv, CallIsRecord
  <2>2. TypeOK'
    BY <1>1, <1>2, <1>3, <1>14, <1>16, <2>1 DEF IInv, TypeOK, durable
  <2>3. CallIsRecord' /\ CallIsPrepared' /\ CallIsAppended' /\ CallNeedsRuntime'
    BY <1>1, <2>1 DEF CallIsRecord, CallIsPrepared, CallIsAppended, CallNeedsRuntime
  <2>4. CallIsPending'
    <3>1. Len(old) >= 2
      BY <1>3, <1>16, NonEmptyFacts
    <3>2. \A n \in 1..Len(rest) : rest[n] = log[s][Len(log[s]) - Len(rest) + n]
      <4> SUFFICES ASSUME NEW n \in 1..Len(rest)
                   PROVE  rest[n] = log[s][Len(log[s]) - Len(rest) + n]
        OBVIOUS
      <4>1. n + 1 \in 1..Len(old) /\ n \in 1..Len(old) - 1
        BY <1>3
      <4>2. Len(log[s]) - Len(old) + (n + 1) = Len(log[s]) - Len(rest) + n
        <5>1. Len(old) \in Nat /\ Len(log[s]) \in Nat /\ Len(rest) = Len(old) - 1
          BY <1>3, <1>4, Zenon
        <5>2. \A a, b, c \in Int : c = b - 1 => a - b + (n + 1) = a - c + n
          BY <4>1, <5>1
        <5>3. Len(old) \in Int /\ Len(log[s]) \in Int /\ Len(rest) \in Int
          BY <5>1
        <5> QED
          BY <5>1, <5>2, <5>3, Zenon
      <4> QED
        BY <1>3, <1>5, <4>1, <4>2
    <3>3. \A n \in 1..Len(emitted'[s]) : emitted'[s][n].sequence < rest[1].sequence
      <4>1. /\ 1 \in 1..Len(old) /\ 2 \in 1..Len(old) /\ rest[1] = old[2]
        BY <1>3, <3>1
      <4>2. old[1].sequence < rest[1].sequence
        <5>1. /\ old[1].sequence = Len(log[s]) - Len(old) + 1
              /\ rest[1].sequence = Len(log[s]) - Len(old) + 2
          BY <1>7, <4>1
        <5>2. Len(old) \in Nat /\ Len(log[s]) \in Nat
          BY <1>3, <1>4
        <5> QED
          BY <5>1, <5>2
      <4>3. old[1].sequence \in Int /\ rest[1].sequence \in Int
        <5>1. old[1] \in Envelopes /\ old[2] \in Envelopes
          BY <1>2, <4>1
        <5> QED
          BY <4>1, <5>1, SequencerAssumption DEF Envelopes
      <4>6. SUFFICES ASSUME NEW n \in 1..Len(emitted'[s])
                     PROVE  emitted'[s][n].sequence < rest[1].sequence
        BY Zenon
      <4>4. CASE n <= Len(emitted[s])
        <5>1. n \in 1..Len(emitted[s])
          BY <1>4, <4>4
        <5>2. emitted'[s][n] = emitted[s][n] /\ emitted[s][n].sequence < old[1].sequence
          BY <1>5, <1>8, <5>1
        <5>3. emitted[s][n].sequence \in Int
          <6>1. emitted[s][n] \in Envelopes
            BY <1>4, <5>1
          <6> QED
            BY <6>1, SequencerAssumption DEF Envelopes
        <5>4. emitted[s][n].sequence < rest[1].sequence
          BY <4>2, <4>3, <5>2, <5>3
        <5> QED
          BY <5>2, <5>4
      <4>5. CASE n = Len(emitted[s]) + 1
        BY <1>8, <4>2, <4>5
      <4> QED
        BY <1>4, <1>8, <4>4, <4>5
    <3>4. Len(rest) <= Len(log[s])
      BY <1>3, <1>4, <1>5
    <3> QED
      BY <1>1, <1>5, <2>1, <3>2, <3>3, <3>4 DEF CallIsPending, durable
  <2>5. SequencerIsAtHead'
    BY <1>1, <2>1 DEF IInv, SequencerIsAtHead, durable
  <2> QED
    BY <1>2, <1>10, <1>11, <1>12, <1>13, <2>2, <2>3, <2>4, <2>5 DEF IInv
<1> QED
  BY <1>15, <1>16

-----------------------------------------------------------------------------
LEMMA NextKeepsIInv == IInv /\ [Next]_vars => IInv'
<1> SUFFICES ASSUME IInv, [Next]_vars PROVE IInv'
  OBVIOUS
<1>1. ASSUME NEW s \in Sessions, NEW t \in Turns, NEW now \in Clock, NEW r \in Requests,
             PrepareEvent(s, t, r, now)
      PROVE  IInv'
  BY <1>1, PrepareEventKeepsIInv
<1>2. ASSUME NEW s \in Sessions, NEW t \in Turns, NEW now \in Clock, NEW items \in PreviewItems,
             PreparePreview(s, t, items, now)
      PROVE  IInv'
  BY <1>2, PreparePreviewKeepsIInv
<1>3. CASE AppendCall
  BY <1>3, AppendCallKeepsIInv
<1>4. CASE AppendFails
  BY <1>4, AbandonedCallKeepsIInv DEF AppendFails
<1>5. CASE CommitCall
  BY <1>5, CommitCallKeepsIInv
<1>6. CASE EmitEvent
  BY <1>6, EmitEventKeepsIInv
<1>7. CASE PreviewResponseFails
  BY <1>7, AbandonedCallKeepsIInv DEF PreviewResponseFails
<1>8. CASE Crash
  BY <1>8, CrashKeepsIInv
<1>9. CASE Restart
  BY <1>9, RestartKeepsIInv
<1>10. ASSUME NEW s \in Sessions, NEW k \in 1..Len(rows[s]), Prune(s, k)
       PROVE  IInv'
  BY <1>10, PruneKeepsIInv
<1>11. ASSUME NEW s \in Sessions, ScheduleDeletion(s)
       PROVE  IInv'
  BY <1>11, SetDeletionKeepsIInv DEF ScheduleDeletion
<1>12. ASSUME NEW s \in Sessions, UndoDeletion(s)
       PROVE  IInv'
  BY <1>12, SetDeletionKeepsIInv DEF UndoDeletion
<1>13. ASSUME NEW s \in Sessions, Purge(s)
       PROVE  IInv'
  BY <1>13, PurgeKeepsIInv
<1>14. CASE UNCHANGED vars
  BY <1>14 DEF vars, durable, IInv, TypeOK, HeadIsLast, IsHistory, EmittedInOrder, CallIsRecord,
               CallIsPrepared, CallIsPending, CallIsAppended, SequencerIsAtHead, CallNeedsRuntime
<1> QED
  BY <1>1, <1>2, <1>3, <1>4, <1>5, <1>6, <1>7, <1>8, <1>9, <1>10, <1>11, <1>12, <1>13, <1>14
     DEF Next

(* Journal, sequencer, call and history stay related as IInv says, through *)
(* every call, stop, restart, cut and deletion.                            *)
THEOREM IInvIsInvariant == Spec => []IInv
  BY InitEstablishesIInv, NextKeepsIInv, PTL DEF Spec

-----------------------------------------------------------------------------
(* Every variable keeps its type: in particular every event that becomes   *)
(* durable or reaches a client is one that EventEnvelope::validate accepts.*)
THEOREM TypeIsCorrect == Spec => []TypeOK
<1>1. IInv => TypeOK
  BY DEF IInv
<1> QED
  BY <1>1, IInvIsInvariant, PTL

(* However often the process stops and whatever the clock reads, the       *)
(* events appended to a Session (append_event_tx) are numbered 1, 2, 3...  *)
(* with times that never go back, and the retained rows are their end.     *)
THEOREM HistoryIsContiguous == Spec => []LogIsContiguous
<1>1. IInv => LogIsContiguous
  BY DEF IInv, LogIsContiguous, IsHistory, HeadIsLast
<1> QED
  BY <1>1, IInvIsInvariant, PTL

(* An append that became durable always finds the sequencer it was         *)
(* prepared from, so PreparedEvent::commit never refuses it as stale.      *)
THEOREM CommitIsNeverStale == Spec => []SequencerFollowsJournal
<1>1. IInv => SequencerFollowsJournal
  BY DEF IInv, SequencerFollowsJournal, SequencerIsAtHead, CallIsAppended, IsStale
<1> QED
  BY <1>1, IInvIsInvariant, PTL

(* A client is never sent an event that a stop of the process could take   *)
(* back, nor two events out of order or with one number.                   *)
THEOREM WhatIsEmittedIsDurable == Spec => []EmittedIsDurable
<1>1. IInv => EmittedIsDurable
  BY DEF IInv, EmittedIsDurable, EmittedInOrder
<1> QED
  BY <1>1, IInvIsInvariant, PTL

-----------------------------------------------------------------------------
(* The refinement: an append adds to the log, an emit publishes, a purge   *)
(* closes, and every other step leaves the abstract state alone.           *)
LEMMA AppendIsALogStep ==
  ASSUME IInv, IInv', AppendCall
  PROVE  Log!AppendEvents(call.session)
<1>0. PICK s, new : s = call.session /\ new = call.events
  OBVIOUS
<1>1. /\ call.stage = "prepared" /\ deletion[s] = "none"
      /\ \A n \in 1..Len(new) : new[n] \in Envelopes
      /\ log' = [log EXCEPT ![s] = @ \o new]
      /\ UNCHANGED <<deletion, emitted>>
  BY <1>0 DEF AppendCall, AppendIsPermitted, Writable, EventsFit, ValidEnvelope
<1>2. s \in Sessions /\ new \in Seq(Envelopes) /\ Len(new) \in Nat /\ Len(new) >= 1
  <2>1. s \in Sessions /\ Len(new) \in Nat /\ Len(new) >= 1 /\ new = [n \in 1..Len(new) |-> new[n]]
    BY <1>0, <1>1 DEF IInv, TypeOK, CallIsPrepared, IsSequence
  <2> QED
    BY <1>1, <2>1
<1>3. log \in [Sessions -> Seq(Envelopes)] /\ log[s] \in Seq(Envelopes) /\ Len(log[s]) \in Nat
  BY <1>2 DEF IInv, TypeOK
<1>4. log'[s] = log[s] \o new /\ \A x \in Sessions \ {s} : log'[x] = log[x]
  BY <1>1, <1>2, <1>3
<1>5. /\ Len(log[s] \o new) = Len(log[s]) + Len(new)
      /\ \A n \in 1..Len(log[s]) : (log[s] \o new)[n] = log[s][n]
  BY <1>2, <1>3, ConcatFacts, Zenon
<1>6. Len(log'[s]) > Len(log[s]) /\ \A n \in 1..Len(log[s]) : log'[s][n] = log[s][n]
  <2>1. Len(log'[s]) = Len(log[s]) + Len(new) /\ \A n \in 1..Len(log[s]) : log'[s][n] = log[s][n]
    BY <1>4, <1>5, Zenon
  <2> QED
    BY <1>2, <1>3, <2>1
<1>7. \A n \in Len(log[s]) + 1..Len(log'[s]) : log'[s][n].sequence = n
  <2>1. \A n \in 1..Len(log'[s]) : log'[s][n].sequence = n
    BY <1>2 DEF IInv, IsHistory
  <2> QED
    BY <1>3, <2>1
<1>8. DOMAIN log' = Sessions
  BY <1>1, <1>3
<1>9. {x \in Sessions : deletion[x] = "purged"}' = {x \in Sessions : deletion[x] = "purged"}
  BY <1>1
<1>10. s \notin {x \in Sessions : deletion[x] = "purged"}
  BY <1>1
<1> QED
  BY <1>0, <1>1, <1>4, <1>6, <1>7, <1>8, <1>9, <1>10 DEF Log!AppendEvents

LEMMA EmitIsALogStep ==
  ASSUME IInv, EmitEvent
  PROVE  Log!Publish(call.session)
<1>0. PICK s, old : s = call.session /\ old = call.events
  OBVIOUS
<1>1. /\ call.stage = "committed"
      /\ emitted' = [emitted EXCEPT ![s] = Append(@, Head(old))]
      /\ UNCHANGED <<deletion, log>>
  BY <1>0 DEF EmitEvent, durable
<1>2. /\ s \in Sessions /\ old \in Seq(Envelopes) /\ old # <<>>
      /\ log[s] \in Seq(Envelopes) /\ Len(log[s]) \in Nat
      /\ emitted[s] \in Seq(Envelopes) /\ Len(emitted[s]) \in Nat
  BY <1>0, <1>1 DEF IInv, TypeOK
<1>3. Len(old) \in Nat /\ Len(old) >= 1 /\ Head(old) = old[1]
  BY <1>2, NonEmptyFacts
<1>4. /\ Len(old) <= Len(log[s])
      /\ \A n \in 1..Len(old) : old[n] = log[s][Len(log[s]) - Len(old) + n]
      /\ \A n \in 1..Len(emitted[s]) : emitted[s][n].sequence < old[1].sequence
      /\ deletion[s] = "none"
  BY <1>0, <1>1 DEF IInv, CallIsPending
<1> DEFINE index == Len(log[s]) - Len(old) + 1
<1>5. index \in 1..Len(log[s]) /\ log[s][index] = old[1] /\ old[1].sequence = index
  <2>1. \A a, b \in Nat : b >= 1 /\ b <= a => a - b + 1 \in 1..a
    OBVIOUS
  <2>2. index \in 1..Len(log[s])
    BY <1>2, <1>3, <1>4, <2>1, Zenon
  <2>3. 1 \in 1..Len(old)
    BY <1>3
  <2>4. log[s][index] = old[1]
    BY <1>4, <2>3
  <2>5. log[s][index].sequence = index
    BY <1>2, <2>2 DEF IInv, IsHistory
  <2> QED
    BY <2>2, <2>4, <2>5
<1> HIDE DEF index
<1>6. Log!LastPublished(s) < index /\ Log!LastPublished(s) \in Nat
  <2>1. CASE emitted[s] = <<>>
    BY <1>2, <1>5, <2>1 DEF Log!LastPublished
  <2>2. CASE emitted[s] # <<>>
    <3>1. Log!LastPublished(s) = emitted[s][Len(emitted[s])].sequence
      BY <2>2 DEF Log!LastPublished
    <3>2. Len(emitted[s]) \in 1..Len(emitted[s]) /\ emitted[s][Len(emitted[s])] \in Envelopes
      BY <1>2, <2>2, NonEmptyFacts
    <3>3. emitted[s][Len(emitted[s])].sequence \in Nat
      BY <3>2, SequencerAssumption DEF Envelopes
    <3>4. emitted[s][Len(emitted[s])].sequence < index
      BY <1>4, <1>5, <3>2
    <3> QED
      BY <3>1, <3>3, <3>4
  <2> QED
    BY <2>1, <2>2
<1>7. index \in Log!LastPublished(s) + 1..Len(log[s])
  BY <1>2, <1>5, <1>6
<1>8. emitted' = [emitted EXCEPT ![s] = Append(@, log[s][index])]
  BY <1>1, <1>3, <1>5
<1>9. /\ {x \in Sessions : deletion[x] = "purged"}' = {x \in Sessions : deletion[x] = "purged"}
      /\ s \notin {x \in Sessions : deletion[x] = "purged"}
  BY <1>1, <1>4
<1> QED
  BY <1>0, <1>1, <1>7, <1>8, <1>9 DEF Log!Publish

LEMMA PurgeIsALogStep ==
  ASSUME IInv, NEW s \in Sessions, Purge(s)
  PROVE  Log!Close(s)
<1>1. /\ deletion' = [deletion EXCEPT ![s] = "purged"]
      /\ UNCHANGED <<log, emitted>>
  BY DEF Purge, SetDeletion
<1>2. \A x \in Sessions : deletion'[x] = "purged" <=> (deletion[x] = "purged" \/ x = s)
  BY <1>1 DEF IInv, TypeOK
<1>3. {x \in Sessions : deletion[x] = "purged"}'
        = {x \in Sessions : deletion[x] = "purged"} \cup {s}
  BY <1>2
<1> QED
  BY <1>1, <1>3 DEF Log!Close

LEMMA StepsImplementTheLog == IInv /\ IInv' /\ [Next]_vars => [Log!Next]_(Log!logVars)
<1> DEFINE purged == {x \in Sessions : deletion[x] = "purged"}
<1> SUFFICES ASSUME IInv, IInv', [Next]_vars PROVE [Log!Next]_(Log!logVars)
  OBVIOUS
<1>1. CASE AppendCall
  <2>1. call.session \in Sessions
    BY <1>1 DEF AppendCall, IInv, TypeOK
  <2> QED
    BY <1>1, <2>1, AppendIsALogStep DEF Log!Next
<1>2. CASE EmitEvent
  <2>1. call.session \in Sessions
    BY <1>2 DEF EmitEvent, IInv, TypeOK
  <2> QED
    BY <1>2, <2>1, EmitIsALogStep DEF Log!Next
<1>3. ASSUME NEW s \in Sessions, Purge(s) PROVE Log!Next
  BY <1>3, PurgeIsALogStep DEF Log!Next
<1>4. ASSUME UNCHANGED <<log, emitted>>, purged' = purged PROVE UNCHANGED Log!logVars
  BY <1>4 DEF Log!logVars
<1>5. ASSUME NEW s \in Sessions, NEW from \in {"none", "pending"}, NEW to \in {"none", "pending"},
             SetDeletion(s, from, to)
      PROVE  purged' = purged
  <2>1. \A x \in Sessions : deletion'[x] = "purged" <=> deletion[x] = "purged"
    BY <1>5 DEF SetDeletion, IInv, TypeOK
  <2> QED
    BY <2>1
<1>6. ASSUME NEW s \in Sessions, ScheduleDeletion(s) \/ UndoDeletion(s) PROVE UNCHANGED Log!logVars
  BY <1>4, <1>5, <1>6 DEF ScheduleDeletion, UndoDeletion
<1>7. ASSUME NEW s \in Sessions, NEW t \in Turns, NEW now \in Clock,
             (\E r \in Requests : PrepareEvent(s, t, r, now))
               \/ (\E items \in PreviewItems : PreparePreview(s, t, items, now))
      PROVE  UNCHANGED Log!logVars
  <2>1. UNCHANGED <<log, emitted, deletion>>
    BY <1>7 DEF PrepareEvent, PreparePreview, durable
  <2> QED
    BY <1>4, <2>1
<1>8. CASE AppendFails \/ CommitCall \/ PreviewResponseFails \/ Crash \/ Restart
  <2>1. UNCHANGED <<log, emitted, deletion>>
    BY <1>8 DEF AppendFails, CommitCall, PreviewResponseFails, Crash, Restart, durable
  <2> QED
    BY <1>4, <2>1
<1>9. ASSUME NEW s \in Sessions, NEW k \in 1..Len(rows[s]), Prune(s, k)
      PROVE  UNCHANGED Log!logVars
  BY <1>4, <1>9 DEF Prune
<1>10. CASE UNCHANGED vars
  <2>1. UNCHANGED <<log, emitted, deletion>>
    BY <1>10 DEF vars, durable
  <2> QED
    BY <1>4, <2>1
<1> QED
  BY <1>1, <1>2, <1>3, <1>6, <1>7, <1>8, <1>9, <1>10 DEF Next

(* The runtime, with its crashes, restarts, pruning and deletions,         *)
(* implements the append-only log its clients are promised (EventLog).     *)
THEOREM JournalImplementsTheLog == Spec => ImplementsEventLog
<1>1. Init => Log!Init
  BY DEF Init, Log!Init
<1>2. IInv /\ IInv' /\ [Next]_vars => [Log!Next]_(Log!logVars)
  BY StepsImplementTheLog
<1> QED
  BY <1>1, <1>2, IInvIsInvariant, PTL DEF Spec, ImplementsEventLog, Log!Spec

-----------------------------------------------------------------------------
(* Purged Sessions.                                                        *)
PurgedIsEmpty == \A s \in Sessions :
  deletion[s] = "purged" => rows[s] = <<>> /\ cursor[s].head = NoEvent

LEMMA StepsKeepPurgedEmpty == IInv /\ PurgedIsEmpty /\ [Next]_vars => PurgedIsEmpty'
<1> SUFFICES ASSUME IInv, PurgedIsEmpty, [Next]_vars PROVE PurgedIsEmpty'
  OBVIOUS
<1>1. ASSUME UNCHANGED <<rows, cursor, deletion>> PROVE PurgedIsEmpty'
  BY <1>1 DEF PurgedIsEmpty
<1>2. CASE AppendCall
  <2>1. PICK s : s = call.session
    OBVIOUS
  <2>2. \E new : /\ deletion[s] = "none" /\ deletion' = deletion
                 /\ rows' = [rows EXCEPT ![s] = @ \o new]
                 /\ cursor' = [cursor EXCEPT ![s].head = new[Len(new)]]
    BY <1>2, <2>1 DEF AppendCall, AppendIsPermitted, Writable
  <2> QED
    BY <2>2 DEF PurgedIsEmpty, IInv, TypeOK
<1>3. ASSUME NEW s \in Sessions, NEW k \in 1..Len(rows[s]), Prune(s, k) PROVE PurgedIsEmpty'
  <2>1. /\ deletion[s] = "none" /\ deletion' = deletion
        /\ \A x \in Sessions \ {s} : cursor'[x] = cursor[x] /\ rows'[x] = rows[x]
    BY <1>3 DEF Prune, Writable, IInv, TypeOK
  <2> QED
    BY <2>1 DEF PurgedIsEmpty
<1>4. ASSUME NEW s \in Sessions, NEW to \in {"none", "pending"}, NEW from,
             SetDeletion(s, from, to), UNCHANGED <<cursor, rows>>
      PROVE  PurgedIsEmpty'
  BY <1>4 DEF SetDeletion, PurgedIsEmpty, IInv, TypeOK
<1>5. ASSUME NEW s \in Sessions, ScheduleDeletion(s) \/ UndoDeletion(s) PROVE PurgedIsEmpty'
  BY <1>4, <1>5 DEF ScheduleDeletion, UndoDeletion
<1>6. ASSUME NEW s \in Sessions, Purge(s) PROVE PurgedIsEmpty'
  BY <1>6 DEF Purge, SetDeletion, PurgedIsEmpty, IInv, TypeOK
<1>7. CASE AppendFails \/ CommitCall \/ EmitEvent \/ PreviewResponseFails \/ Crash \/ Restart
  BY <1>1, <1>7 DEF AppendFails, CommitCall, EmitEvent, PreviewResponseFails, Crash, Restart, durable
<1>8. ASSUME NEW x \in Sessions, NEW t \in Turns, NEW now \in Clock,
             (\E r \in Requests : PrepareEvent(x, t, r, now))
               \/ (\E items \in PreviewItems : PreparePreview(x, t, items, now))
      PROVE  PurgedIsEmpty'
  BY <1>1, <1>8 DEF PrepareEvent, PreparePreview, durable
<1>9. CASE UNCHANGED vars
  BY <1>1, <1>9 DEF vars, durable
<1> QED
  BY <1>2, <1>3, <1>5, <1>6, <1>7, <1>8, <1>9 DEF Next

LEMMA StepsKeepPurged ==
  ASSUME IInv, IInv', [Next]_vars, NEW s \in Sessions, deletion[s] = "purged"
  PROVE  deletion'[s] = "purged" /\ emitted'[s] = emitted[s]
<1>1. CASE AppendCall \/ AppendFails \/ CommitCall \/ PreviewResponseFails \/ Crash \/ Restart
  BY <1>1 DEF AppendCall, AppendFails, CommitCall, PreviewResponseFails, Crash, Restart, durable
<1>2. CASE EmitEvent
  <2>1. call.session # s /\ emitted' = [emitted EXCEPT ![call.session] = Append(@, Head(call.events))]
    BY <1>2 DEF EmitEvent, IInv, CallIsPending
  <2>2. deletion' = deletion /\ s \in DOMAIN emitted
    BY <1>2 DEF EmitEvent, durable, IInv, TypeOK
  <2> QED
    BY <2>1, <2>2
<1>3. ASSUME NEW x \in Sessions, ScheduleDeletion(x) \/ UndoDeletion(x) \/ Purge(x)
      PROVE  deletion'[s] = "purged" /\ emitted'[s] = emitted[s]
  BY <1>3 DEF ScheduleDeletion, UndoDeletion, Purge, SetDeletion, IInv, TypeOK
<1>4. ASSUME NEW x \in Sessions, NEW k \in 1..Len(rows[x]), Prune(x, k)
      PROVE  deletion'[s] = "purged" /\ emitted'[s] = emitted[s]
  BY <1>4 DEF Prune
<1>5. ASSUME NEW x \in Sessions, NEW t \in Turns, NEW now \in Clock,
             (\E r \in Requests : PrepareEvent(x, t, r, now))
               \/ (\E items \in PreviewItems : PreparePreview(x, t, items, now))
      PROVE  deletion'[s] = "purged" /\ emitted'[s] = emitted[s]
  BY <1>5 DEF PrepareEvent, PreparePreview, durable
<1>6. CASE UNCHANGED vars
  BY <1>6 DEF vars, durable
<1> QED
  BY <1>1, <1>2, <1>3, <1>4, <1>5, <1>6 DEF Next

(* The journal of the specification is sound: what is durable is of the    *)
(* protocol, within its limits, without a gap, whatever call was cut off.  *)
THEOREM JournalStaysSound == Spec => []JournalIsSound
  BY TypeIsCorrect, HistoryIsContiguous, PTL DEF JournalIsSound

(* reset_session_tx is final: nothing comes back into the journal of a     *)
(* purged Session and nothing of it reaches a client, although the         *)
(* sequencer in memory was left where it was.                              *)
THEOREM PurgedStaysPurged == Spec => PurgeIsFinal
<1>1. Init => PurgedIsEmpty
  BY DEF Init, PurgedIsEmpty
<1>2. Spec => [](IInv /\ PurgedIsEmpty)
  BY <1>1, InitEstablishesIInv, NextKeepsIInv, StepsKeepPurgedEmpty, PTL DEF Spec
<1>3. IInv /\ IInv' /\ PurgedIsEmpty' /\ [Next]_vars =>
        [\A s \in Sessions : deletion[s] = "purged" =>
           /\ deletion'[s] = "purged" /\ rows'[s] = <<>> /\ cursor'[s].head = NoEvent
           /\ emitted'[s] = emitted[s]]_vars
  BY StepsKeepPurged DEF PurgedIsEmpty
<1> QED
  BY <1>2, <1>3, PTL DEF Spec, PurgeIsFinal

-----------------------------------------------------------------------------
(* Folds.  The library folds by choosing elements of a finite set; for the *)
(* three folds of the model (rows replayed, rows projected, numbers added) *)
(* that is a walk from the first element to the last.                      *)
LEMMA LeastSubset ==
  ASSUME NEW S, IsFiniteSet(S), NEW bad, bad \subseteq SUBSET S, bad # {}
  PROVE  \E T \in bad : \A u \in SUBSET T : u # T => u \notin bad
<1>1. IsWellFoundedOn(StrictSubsetOrdering(S), FiniteSubsetsOf(S))
  BY FS_StrictSubsetOrderingWellFounded
<1>2. bad \subseteq FiniteSubsetsOf(S)
  BY FS_FiniteSubsetsOfFinite
<1>3. PICK T \in bad : \A u \in bad : ~(<<u, T>> \in StrictSubsetOrdering(S))
  BY <1>1, <1>2, WFMin
<1> QED
  BY <1>3 DEF StrictSubsetOrdering

(* What 0 has and every number below a bound passes on, all up to it have. *)
LEMMA CountUp ==
  ASSUME NEW N \in Nat, NEW good, 0 \in good,
         \A n \in 0..N - 1 : n \in good => n + 1 \in good
  PROVE  0..N \subseteq good
<1> DEFINE bad == {0..n : n \in {m \in 0..N : m \notin good}}
<1>1. SUFFICES ASSUME NEW m \in 0..N, m \notin good PROVE FALSE
  OBVIOUS
<1>2. IsFiniteSet(0..N)
  BY FS_Interval
<1>3. bad \subseteq SUBSET (0..N) /\ 0..m \in bad
  BY <1>1
<1>4. PICK T \in bad : \A u \in SUBSET T : u # T => u \notin bad
  <2>1. PICK S : S = 0..N
    OBVIOUS
  <2>2. IsFiniteSet(S) /\ bad \subseteq SUBSET S /\ bad # {}
    BY <1>2, <1>3, <2>1
  <2> HIDE DEF bad
  <2> QED
    BY <2>2, LeastSubset
<1>5. PICK n \in 0..N : T = 0..n /\ n \notin good
  BY <1>4
<1>6. n # 0 /\ n - 1 \in 0..N - 1 /\ (n - 1) + 1 = n
  BY <1>5
<1>7. n - 1 \notin good
  BY <1>5, <1>6
<1>8. 0..(n - 1) \in bad
  BY <1>6, <1>7
<1>9. 0..(n - 1) \in SUBSET T /\ 0..(n - 1) # T
  <2>1. n \in T /\ n \notin 0..(n - 1)
    BY <1>5, <1>6
  <2> QED
    BY <1>5, <1>6, <2>1
<1> QED
  BY <1>4, <1>8, <1>9

Kinds == {"replay", "project", "sum"}
FoldStep(kind, v, e) ==
  IF kind = "replay" THEN ReplayStep(v, e)
  ELSE IF kind = "project" THEN ProjectStep(v, e) ELSE e + v
Choice(kind, s) ==
  IF kind = "sum" THEN CHOOSE x \in s : TRUE ELSE CHOOSE x \in s : \A y \in s : x >= y

FoldsTo(g, S, kind, base, seq) ==
  g = [s \in SUBSET S |->
         IF s = {} THEN base
         ELSE FoldStep(kind, g[s \ {Choice(kind, s)}], seq[Choice(kind, s)])]
MayFold(S, kind) == IsFiniteSet(S) /\ (kind # "sum" => S \subseteq Nat)

LEMMA LastOfNaturals ==
  ASSUME NEW s, IsFiniteSet(s), s \subseteq Nat, s # {}
  PROVE  \E x \in s : \A y \in s : x >= y
<1> DEFINE above(x) == {y \in s : y > x}
           bad == {above(x) : x \in s}
<1>1. bad \subseteq SUBSET s /\ bad # {}
  OBVIOUS
<1>2. PICK T \in bad : \A u \in SUBSET T : u # T => u \notin bad
  <2> HIDE DEF bad
  <2> QED
    BY <1>1, LeastSubset
<1>3. PICK x \in s : T = above(x)
  BY <1>2
<1>4. SUFFICES ASSUME NEW y \in s, ~(x >= y) PROVE FALSE
  OBVIOUS
<1>5. y \in T /\ y \notin above(y)
  BY <1>3, <1>4
<1>6. above(y) \in SUBSET T /\ above(y) # T
  <2>1. \A z \in s : z > y => z > x
    BY <1>4
  <2> QED
    BY <1>3, <1>5, <2>1
<1> QED
  BY <1>2, <1>6

LEMMA ChoiceFits ==
  ASSUME NEW S, NEW kind, MayFold(S, kind), NEW s \in SUBSET S, s # {}
  PROVE  Choice(kind, s) \in s
<1>1. CASE kind = "sum"
  BY <1>1 DEF Choice
<1>2. CASE kind # "sum"
  <2>1. IsFiniteSet(s) /\ s \subseteq Nat
    BY <1>2, FS_Subset DEF MayFold
  <2>2. \E x \in s : \A y \in s : x >= y
    BY <2>1, LastOfNaturals
  <2> QED
    BY <1>2, <2>2 DEF Choice
<1> QED
  BY <1>1, <1>2

LEMMA FoldIsUnique ==
  ASSUME NEW S, NEW kind, MayFold(S, kind), NEW base, NEW seq, NEW T \in SUBSET S,
         NEW g, FoldsTo(g, S, kind, base, seq), NEW h, FoldsTo(h, T, kind, base, seq)
  PROVE  \A s \in SUBSET T : g[s] = h[s]
<1> DEFINE bad == {s \in SUBSET T : g[s] # h[s]}
<1>1. SUFFICES ASSUME bad # {} PROVE FALSE
  OBVIOUS
<1>2. bad \subseteq SUBSET S
  OBVIOUS
<1>3. PICK s \in bad : \A u \in SUBSET s : u # s => u \notin bad
  <2>1. IsFiniteSet(S)
    BY DEF MayFold
  <2> HIDE DEF bad
  <2> QED
    BY <1>1, <1>2, <2>1, LeastSubset
<1> DEFINE x == Choice(kind, s)
           u == s \ {x}
<1>4. s \in SUBSET T /\ s \in SUBSET S /\ g[s] # h[s]
  OBVIOUS
<1>5. s # {}
  BY <1>4 DEF FoldsTo
<1>6. x \in s
  BY <1>4, <1>5, ChoiceFits
<1>7. g[u] = h[u]
  BY <1>3, <1>4, <1>6
<1>8. g[s] = FoldStep(kind, g[u], seq[x]) /\ h[s] = FoldStep(kind, h[u], seq[x])
  BY <1>4, <1>5 DEF FoldsTo
<1> QED
  BY <1>4, <1>7, <1>8

LEMMA FoldExists ==
  ASSUME NEW S, NEW kind, MayFold(S, kind), NEW base, NEW seq
  PROVE  \E g : FoldsTo(g, S, kind, base, seq)
<1> DEFINE Solves(T) == \E g : FoldsTo(g, T, kind, base, seq)
           bad == {T \in SUBSET S : ~Solves(T)}
<1>1. SUFFICES ASSUME bad # {} PROVE FALSE
  OBVIOUS
<1>2. PICK T \in bad : \A u \in SUBSET T : u # T => u \notin bad
  <2>1. bad \subseteq SUBSET S /\ IsFiniteSet(S)
    BY DEF MayFold
  <2> HIDE DEF bad
  <2> QED
    BY <1>1, <2>1, LeastSubset
<1>3. /\ T \in SUBSET S /\ ~Solves(T)
      /\ \A u \in SUBSET T : u # T => Solves(u)
  BY <1>2
<1> HIDE DEF bad
<1> DEFINE G(u) == CHOOSE g : FoldsTo(g, u, kind, base, seq)
           x == Choice(kind, T)
           f == [s \in SUBSET T |->
                   IF s = T THEN IF T = {} THEN base
                                 ELSE FoldStep(kind, G(T \ {x})[T \ {x}], seq[x])
                   ELSE G(s)[s]]
<1>4. ASSUME NEW u \in SUBSET T, u # T PROVE FoldsTo(G(u), u, kind, base, seq)
  BY <1>3, <1>4
<1>5. ASSUME NEW s \in SUBSET T, s # {}, NEW y, y = Choice(kind, s)
      PROVE  f[s] = FoldStep(kind, f[s \ {y}], seq[y])
  <2>0. y \in s
    BY <1>3, <1>5, ChoiceFits
  <2>1. y \in s /\ s \ {y} \in SUBSET T /\ s \ {y} # T /\ s \ {y} # s
    BY <2>0, <1>5
  <2>2. f[s \ {y}] = G(s \ {y})[s \ {y}]
    BY <2>1
  <2>3. CASE s = T
    BY <1>5, <2>2, <2>3
  <2>4. CASE s # T
    <3>1. f[s] = G(s)[s]
      BY <2>4
    <3>2. /\ FoldsTo(G(s), s, kind, base, seq)
          /\ FoldsTo(G(s \ {y}), s \ {y}, kind, base, seq)
      BY <1>4, <2>1, <2>4
    <3>3. G(s)[s] = FoldStep(kind, G(s)[s \ {y}], seq[y])
      <4> HIDE DEF G
      <4> QED
        BY <1>5, <3>2 DEF FoldsTo
    <3>4. MayFold(s, kind)
      BY <1>3, FS_Subset DEF MayFold
    <3>5. G(s)[s \ {y}] = G(s \ {y})[s \ {y}]
      <4> HIDE DEF G
      <4>1. s \ {y} \in SUBSET s
        OBVIOUS
      <4>2. \A u \in SUBSET (s \ {y}) : G(s)[u] = G(s \ {y})[u]
        BY <3>2, <3>4, <4>1, FoldIsUnique
      <4> QED
        BY <4>2
    <3> QED
      BY <2>2, <3>1, <3>3, <3>5
  <2> QED
    BY <2>3, <2>4
<1>6. f[{}] = base
  <2>1. CASE T = {}
    BY <2>1
  <2>2. CASE T # {}
    <3>1. FoldsTo(G({}), {}, kind, base, seq)
      BY <1>4, <2>2
    <3>2. G({})[{}] = base
      <4> HIDE DEF G
      <4> QED
        BY <3>1 DEF FoldsTo
    <3> QED
      BY <2>2, <3>2
  <2> QED
    BY <2>1, <2>2
<1>7. f = [s \in SUBSET T |-> f[s]]
  OBVIOUS
<1>8. FoldsTo(f, T, kind, base, seq)
  <2> HIDE DEF f
  <2>1. \A s \in SUBSET T : f[s] = IF s = {} THEN base
          ELSE FoldStep(kind, f[s \ {Choice(kind, s)}], seq[Choice(kind, s)])
    BY <1>5, <1>6
  <2> QED
    BY <1>7, <2>1 DEF FoldsTo
<1> QED
  BY <1>3, <1>8

-----------------------------------------------------------------------------
(* The library's folds are these.                                          *)
LEMMA ReplayIsFold ==
  ASSUME NEW base, NEW seq, IsFiniteSet(DOMAIN seq), DOMAIN seq \subseteq Nat
  PROVE  \E g : /\ FoldsTo(g, DOMAIN seq, "replay", base, seq)
                /\ FoldLeft(ReplayStep, base, seq) = g[DOMAIN seq]
<1> DEFINE Is(g) == g = [s \in SUBSET DOMAIN seq |->
                           IF s = {} THEN base
                           ELSE ReplayStep(g[s \ {Max(s)}], seq[Max(s)])]
<1>1. \A s : Choice("replay", s) = Max(s)
  BY DEF Choice, Max
<1>2. \A g : FoldsTo(g, DOMAIN seq, "replay", base, seq) <=> Is(g)
  BY <1>1 DEF FoldsTo, FoldStep
<1>3. \E g : Is(g)
  BY <1>2, FoldExists DEF MayFold
<1>4. Is(CHOOSE g : Is(g))
  BY <1>3
<1>5. FoldLeft(ReplayStep, base, seq) = (CHOOSE g : Is(g))[DOMAIN seq]
  BY DEF FoldLeft, MapThenFoldSet
<1> QED
  BY <1>2, <1>4, <1>5

LEMMA ProjectIsFold ==
  ASSUME NEW base, NEW seq, IsFiniteSet(DOMAIN seq), DOMAIN seq \subseteq Nat
  PROVE  \E g : /\ FoldsTo(g, DOMAIN seq, "project", base, seq)
                /\ FoldLeft(ProjectStep, base, seq) = g[DOMAIN seq]
<1> DEFINE Is(g) == g = [s \in SUBSET DOMAIN seq |->
                           IF s = {} THEN base
                           ELSE ProjectStep(g[s \ {Max(s)}], seq[Max(s)])]
<1>1. \A s : Choice("project", s) = Max(s)
  BY DEF Choice, Max
<1>2. \A g : FoldsTo(g, DOMAIN seq, "project", base, seq) <=> Is(g)
  BY <1>1 DEF FoldsTo, FoldStep
<1>3. \E g : Is(g)
  BY <1>2, FoldExists DEF MayFold
<1>4. Is(CHOOSE g : Is(g))
  BY <1>3
<1>5. FoldLeft(ProjectStep, base, seq) = (CHOOSE g : Is(g))[DOMAIN seq]
  BY DEF FoldLeft, MapThenFoldSet
<1> QED
  BY <1>2, <1>4, <1>5

LEMMA SumIsFold ==
  ASSUME NEW seq, IsFiniteSet(DOMAIN seq)
  PROVE  \E g : /\ FoldsTo(g, DOMAIN seq, "sum", 0, seq)
                /\ SumFunction(seq) = g[DOMAIN seq]
<1> DEFINE Is(g) == g = [s \in SUBSET DOMAIN seq |->
                           IF s = {} THEN 0
                           ELSE LET x == CHOOSE x \in s : TRUE IN seq[x] + g[s \ {x}]]
<1>1. \A s : Choice("sum", s) = CHOOSE x \in s : TRUE
  BY DEF Choice
<1>2. \A g : FoldsTo(g, DOMAIN seq, "sum", 0, seq) <=> Is(g)
  BY <1>1 DEF FoldsTo, FoldStep
<1>3. \E g : Is(g)
  <2>1. MayFold(DOMAIN seq, "sum")
    BY DEF MayFold
  <2>2. \E g : FoldsTo(g, DOMAIN seq, "sum", 0, seq)
    BY <2>1, FoldExists
  <2> HIDE DEF Is
  <2> QED
    BY <1>2, <2>2
<1>4. Is(CHOOSE g : Is(g))
  BY <1>3
<1>5. SumFunction(seq) = (CHOOSE g : Is(g))[DOMAIN seq]
  BY DEF SumFunction, SumFunctionOnSet, FoldFunctionOnSet, MapThenFoldSet
<1> QED
  BY <1>2, <1>4, <1>5

(* A walk along a sequence: what there is after each of its elements.      *)
IsList(seq) == Len(seq) \in Nat /\ DOMAIN seq = 1..Len(seq)
Walk(kind, r, base, seq) ==
  r[0] = base /\ \A n \in 1..Len(seq) : r[n] = FoldStep(kind, r[n - 1], seq[n])

LEMMA WalkIsUnique ==
  ASSUME NEW kind, NEW base, NEW seq, Len(seq) \in Nat,
         NEW r, Walk(kind, r, base, seq), NEW q, Walk(kind, q, base, seq)
  PROVE  \A n \in 0..Len(seq) : r[n] = q[n]
<1> DEFINE good == {n \in 0..Len(seq) : r[n] = q[n]}
<1>1. 0 \in good
  BY DEF Walk
<1>2. ASSUME NEW n \in 0..Len(seq) - 1, n \in good PROVE n + 1 \in good
  <2>1. n + 1 \in 1..Len(seq) /\ (n + 1) - 1 = n
    OBVIOUS
  <2>2. r[n + 1] = FoldStep(kind, r[n], seq[n + 1]) /\ q[n + 1] = FoldStep(kind, q[n], seq[n + 1])
    BY <2>1 DEF Walk
  <2> QED
    BY <1>2, <2>1, <2>2
<1>3. 0..Len(seq) \subseteq good
  <2> HIDE DEF good
  <2> QED
    BY <1>1, <1>2, CountUp
<1> QED
  BY <1>3

LEMMA FoldWalks ==
  ASSUME NEW seq, IsList(seq), NEW kind, kind # "sum", NEW base, NEW g,
         FoldsTo(g, DOMAIN seq, kind, base, seq)
  PROVE  \E r : Walk(kind, r, base, seq) /\ r[Len(seq)] = g[DOMAIN seq]
<1> DEFINE r == [n \in 0..Len(seq) |-> g[1..n]]
<1>1. r[0] = base
  BY DEF FoldsTo, IsList
<1>2. ASSUME NEW n \in 1..Len(seq) PROVE r[n] = FoldStep(kind, r[n - 1], seq[n])
  <2>1. n \in Nat /\ n >= 1 /\ 1..n \in SUBSET DOMAIN seq /\ 1..n # {} /\ n \in 1..n
    <3>1. n \in Nat /\ n >= 1 /\ n <= Len(seq) /\ Len(seq) \in Nat /\ DOMAIN seq = 1..Len(seq)
      BY DEF IsList
    <3>2. 1..n \subseteq 1..Len(seq) /\ n \in 1..n
      BY <3>1
    <3> QED
      BY <3>1, <3>2
  <2>2. Choice(kind, 1..n) = n
    <3>1. \A x \in 1..n : (\A y \in 1..n : x >= y) => x = n
      BY <2>1
    <3>2. \A y \in 1..n : n >= y
      BY <2>1
    <3> QED
      BY <2>1, <3>1, <3>2 DEF Choice
  <2>3. (1..n) \ {n} = 1..(n - 1) /\ n \in 0..Len(seq) /\ n - 1 \in 0..Len(seq)
    BY <2>1 DEF IsList
  <2>4. g[1..n] = FoldStep(kind, g[(1..n) \ {n}], seq[n])
    BY <2>1, <2>2 DEF FoldsTo
  <2> QED
    BY <2>3, <2>4
<1>3. r[Len(seq)] = g[DOMAIN seq]
  BY DEF IsList
<1> HIDE DEF r
<1> QED
  BY <1>1, <1>2, <1>3 DEF Walk

Fold(kind, base, seq) ==
  IF kind = "replay" THEN FoldLeft(ReplayStep, base, seq) ELSE FoldLeft(ProjectStep, base, seq)

LEMMA FoldIsWalk ==
  ASSUME NEW seq, IsList(seq), NEW kind \in {"replay", "project"}, NEW base
  PROVE  \E r : Walk(kind, r, base, seq) /\ r[Len(seq)] = Fold(kind, base, seq)
<1>1. IsFiniteSet(DOMAIN seq) /\ DOMAIN seq \subseteq Nat
  BY FS_Interval DEF IsList
<1>2. PICK g : FoldsTo(g, DOMAIN seq, kind, base, seq) /\ Fold(kind, base, seq) = g[DOMAIN seq]
  <2>1. CASE kind = "replay"
    BY <1>1, <2>1, ReplayIsFold DEF Fold
  <2>2. CASE kind = "project"
    BY <1>1, <2>2, ProjectIsFold DEF Fold
  <2> QED
    BY <2>1, <2>2
<1> QED
  BY <1>2, FoldWalks

LEMMA WalkIsFold ==
  ASSUME NEW seq, IsList(seq), NEW kind \in {"replay", "project"}, NEW base,
         NEW r, Walk(kind, r, base, seq)
  PROVE  Fold(kind, base, seq) = r[Len(seq)]
<1>1. PICK q : Walk(kind, q, base, seq) /\ q[Len(seq)] = Fold(kind, base, seq)
  BY FoldIsWalk
<1>2. Len(seq) \in 0..Len(seq) /\ Len(seq) \in Nat
  BY DEF IsList
<1> QED
  BY <1>1, <1>2, WalkIsUnique

(* Walking on from where a first walk ended.                               *)
Joins(pq, p, q) ==
  /\ IsList(p) /\ IsList(q) /\ IsList(pq) /\ Len(pq) = Len(p) + Len(q)
  /\ \A n \in 1..Len(p) : pq[n] = p[n]
  /\ \A n \in 1..Len(q) : pq[Len(p) + n] = q[n]

LEMMA WalkOn ==
  ASSUME NEW p, NEW q, NEW pq, Joins(pq, p, q), NEW kind \in {"replay", "project"}, NEW base
  PROVE  Fold(kind, base, pq) = Fold(kind, Fold(kind, base, p), q)
<1>0. /\ IsList(p) /\ IsList(q) /\ IsList(pq) /\ Len(pq) = Len(p) + Len(q)
      /\ \A n \in 1..Len(p) : pq[n] = p[n]
      /\ \A n \in 1..Len(q) : pq[Len(p) + n] = q[n]
  BY DEF Joins
<1>1. PICK r : Walk(kind, r, base, pq) /\ r[Len(pq)] = Fold(kind, base, pq)
  BY <1>0, FoldIsWalk
<1>2. Len(p) \in Nat /\ Len(q) \in Nat
  BY <1>0 DEF IsList
<1>3. Walk(kind, r, base, p)
  <2>1. ASSUME NEW n \in 1..Len(p) PROVE r[n] = FoldStep(kind, r[n - 1], p[n])
    <3>1. n \in 1..Len(pq)
      BY <1>0, <1>2
    <3> QED
      BY <1>0, <1>1, <3>1 DEF Walk
  <2> QED
    BY <1>1, <2>1 DEF Walk
<1>4. r[Len(p)] = Fold(kind, base, p)
  BY <1>0, <1>3, WalkIsFold
<1> DEFINE w == [n \in 0..Len(q) |-> r[Len(p) + n]]
<1>5. Walk(kind, w, r[Len(p)], q)
  <2>1. w[0] = r[Len(p)]
    BY <1>0, <1>2
  <2>2. ASSUME NEW n \in 1..Len(q) PROVE w[n] = FoldStep(kind, w[n - 1], q[n])
    <3>1. /\ Len(p) + n \in 1..Len(pq) /\ (Len(p) + n) - 1 = Len(p) + (n - 1)
          /\ n \in 0..Len(q) /\ n - 1 \in 0..Len(q)
      BY <1>0, <1>2
    <3>2. r[Len(p) + n] = FoldStep(kind, r[Len(p) + (n - 1)], pq[Len(p) + n])
      BY <1>0, <1>1, <3>1 DEF Walk
    <3> QED
      BY <1>0, <3>1, <3>2
  <2> HIDE DEF w
  <2> QED
    BY <2>1, <2>2 DEF Walk
<1>6. w[Len(q)] = r[Len(pq)]
  BY <1>0, <1>2
<1> HIDE DEF w
<1>7. Fold(kind, r[Len(p)], q) = w[Len(q)]
  BY <1>0, <1>5, WalkIsFold
<1> QED
  BY <1>1, <1>4, <1>6, <1>7

LEMMA ListFacts ==
  ASSUME NEW S, NEW p \in Seq(S)
  PROVE  IsList(p)
BY DEF IsList

LEMMA FoldOfConcat ==
  ASSUME NEW S, NEW p \in Seq(S), NEW q \in Seq(S), NEW kind \in {"replay", "project"}, NEW base
  PROVE  Fold(kind, base, p \o q) = Fold(kind, Fold(kind, base, p), q)
<1>1. PICK a, b, c : a = p /\ b = q /\ c = p \o q
  OBVIOUS
<1>2. c \in Seq(S) /\ a \in Seq(S) /\ b \in Seq(S) /\ Len(c) = Len(a) + Len(b)
  BY <1>1
<1>3. IsList(a) /\ IsList(b) /\ IsList(c) /\ Len(c) = Len(a) + Len(b)
  BY <1>2, ListFacts
<1>4. /\ \A n \in 1..Len(a) : c[n] = a[n]
      /\ \A n \in 1..Len(b) : c[Len(a) + n] = b[n]
  BY <1>1
<1>5. Joins(c, a, b)
  BY <1>3, <1>4 DEF Joins
<1>6. Fold(kind, base, c) = Fold(kind, Fold(kind, base, a), b)
  BY <1>5, WalkOn
<1> QED
  BY <1>1, <1>6

LEMMA FoldOfSplit ==
  ASSUME NEW S, NEW p \in Seq(S), NEW f \in 0..Len(p), NEW kind \in {"replay", "project"}, NEW base
  PROVE  Fold(kind, base, p)
           = Fold(kind, Fold(kind, base, SubSeq(p, 1, f)), SubSeq(p, f + 1, Len(p)))
<1>1. PICK a, b : a = SubSeq(p, 1, f) /\ b = SubSeq(p, f + 1, Len(p))
  OBVIOUS
<1>2. /\ a \in Seq(S) /\ Len(a) = f /\ b \in Seq(S) /\ Len(b) = Len(p) - f
      /\ \A n \in 1..f : a[n] = p[n]
      /\ \A n \in 1..Len(p) - f : b[n] = p[f + n]
  BY <1>1
<1>3. IsList(p) /\ IsList(a) /\ IsList(b) /\ Len(p) = Len(a) + Len(b)
  BY <1>2, ListFacts
<1>4. /\ \A n \in 1..Len(a) : p[n] = a[n]
      /\ \A n \in 1..Len(b) : p[Len(a) + n] = b[n]
  BY <1>2
<1>5. Joins(p, a, b)
  BY <1>3, <1>4 DEF Joins
<1>6. Fold(kind, base, p) = Fold(kind, Fold(kind, base, a), b)
  BY <1>5, WalkOn
<1> QED
  BY <1>1, <1>6

LEMMA FoldOfNone ==
  ASSUME NEW kind \in {"replay", "project"}, NEW base
  PROVE  Fold(kind, base, <<>>) = base
<1>1. PICK none : none = <<>>
  OBVIOUS
<1>2. IsList(none) /\ Len(none) = 0
  BY <1>1 DEF IsList
<1>3. PICK r : Walk(kind, r, base, none) /\ r[Len(none)] = Fold(kind, base, none)
  BY <1>2, FoldIsWalk
<1> QED
  BY <1>1, <1>2, <1>3 DEF Walk

-----------------------------------------------------------------------------
(* A fold that ends well took every element: there is a run, with a state  *)
(* after each of them.                                                     *)
Holder(kind, x) ==
  IF kind = "replay" THEN [ok |-> TRUE, session |-> x] ELSE [ok |-> TRUE, view |-> x]
Takes(kind, x, e) == IF kind = "replay" THEN CanReplay(x, e) ELSE Applies(x, e)
Moved(kind, x, e) == IF kind = "replay" THEN Replay(x, e) ELSE Project(x, e)
Held(kind, h) == IF kind = "replay" THEN h.session ELSE h.view

Runs(kind, r, x, seq) ==
  /\ r[0] = x
  /\ \A n \in 1..Len(seq) : Takes(kind, r[n - 1], seq[n]) /\ r[n] = Moved(kind, r[n - 1], seq[n])

LEMMA HolderFacts ==
  ASSUME NEW kind \in {"replay", "project"}, NEW x
  PROVE  Holder(kind, x).ok = TRUE /\ Held(kind, Holder(kind, x)) = x
BY DEF Holder, Held

LEMMA StepTakes ==
  ASSUME NEW kind \in {"replay", "project"}, NEW x, NEW e
  PROVE  /\ Takes(kind, x, e)
              => FoldStep(kind, Holder(kind, x), e) = Holder(kind, Moved(kind, x, e))
         /\ ~Takes(kind, x, e) => FoldStep(kind, Holder(kind, x), e).ok = FALSE
<1>1. CASE kind = "replay"
  BY <1>1 DEF Takes, FoldStep, ReplayStep, ProjectStep, Holder, Moved
<1>2. CASE kind = "project"
  BY <1>2 DEF Takes, FoldStep, ReplayStep, ProjectStep, Holder, Moved
<1> QED
  BY <1>1, <1>2

(* What has been refused stays refused.                                    *)
Refused(kind, h) ==
  h.ok = FALSE /\ IF kind = "replay" THEN h = [ok |-> FALSE, session |-> h.session]
                                     ELSE h = [ok |-> FALSE, view |-> h.view]

LEMMA StepRefuses ==
  ASSUME NEW kind \in {"replay", "project"}
  PROVE  /\ \A x, e : ~Takes(kind, x, e) => Refused(kind, FoldStep(kind, Holder(kind, x), e))
         /\ \A h, e : Refused(kind, h) => Refused(kind, FoldStep(kind, h, e))
<1>1. CASE kind = "replay"
  <2>1. ASSUME NEW x, NEW e, ~Takes(kind, x, e)
        PROVE  Refused(kind, FoldStep(kind, Holder(kind, x), e))
    BY <1>1, <2>1 DEF Takes, FoldStep, ReplayStep, Holder, Refused
  <2>2. ASSUME NEW h, NEW e, Refused(kind, h)
        PROVE  Refused(kind, FoldStep(kind, h, e))
    BY <1>1, <2>2 DEF FoldStep, ReplayStep, Refused
  <2> QED
    BY <2>1, <2>2
<1>2. CASE kind = "project"
  <2>1. ASSUME NEW x, NEW e, ~Takes(kind, x, e)
        PROVE  Refused(kind, FoldStep(kind, Holder(kind, x), e))
    BY <1>2, <2>1 DEF Takes, FoldStep, ProjectStep, Holder, Refused
  <2>2. ASSUME NEW h, NEW e, Refused(kind, h)
        PROVE  Refused(kind, FoldStep(kind, h, e))
    BY <1>2, <2>2 DEF FoldStep, ProjectStep, Refused
  <2> QED
    BY <2>1, <2>2
<1> QED
  BY <1>1, <1>2

LEMMA RunIsFold ==
  ASSUME NEW kind \in {"replay", "project"}, NEW x, NEW seq, IsList(seq),
         NEW r, Runs(kind, r, x, seq)
  PROVE  Fold(kind, Holder(kind, x), seq) = Holder(kind, r[Len(seq)])
<1> DEFINE w == [n \in 0..Len(seq) |-> Holder(kind, r[n])]
<1>1. Len(seq) \in Nat
  BY DEF IsList
<1>2. w[0] = Holder(kind, x) /\ w[Len(seq)] = Holder(kind, r[Len(seq)])
  BY <1>1 DEF Runs
<1>3. ASSUME NEW n \in 1..Len(seq) PROVE w[n] = FoldStep(kind, w[n - 1], seq[n])
  <2>1. n \in 0..Len(seq) /\ n - 1 \in 0..Len(seq)
    BY <1>1
  <2>2. Takes(kind, r[n - 1], seq[n]) /\ r[n] = Moved(kind, r[n - 1], seq[n])
    BY DEF Runs
  <2>3. FoldStep(kind, Holder(kind, r[n - 1]), seq[n]) = Holder(kind, r[n])
    <3>1. PICK y, e : y = r[n - 1] /\ e = seq[n]
      OBVIOUS
    <3>2. FoldStep(kind, Holder(kind, y), e) = Holder(kind, Moved(kind, y, e))
      BY <2>2, <3>1, StepTakes
    <3> QED
      BY <2>2, <3>1, <3>2
  <2> QED
    BY <2>1, <2>3
<1> HIDE DEF w
<1>4. Walk(kind, w, Holder(kind, x), seq)
  BY <1>2, <1>3 DEF Walk
<1> QED
  BY <1>2, <1>4, WalkIsFold

LEMMA FoldIsRun ==
  ASSUME NEW kind \in {"replay", "project"}, NEW x, NEW seq, IsList(seq),
         Fold(kind, Holder(kind, x), seq).ok
  PROVE  \E r : /\ Runs(kind, r, x, seq)
                /\ Fold(kind, Holder(kind, x), seq) = Holder(kind, r[Len(seq)])
<1>1. PICK w : Walk(kind, w, Holder(kind, x), seq) /\ w[Len(seq)] = Fold(kind, Holder(kind, x), seq)
  BY FoldIsWalk
<1>2. Len(seq) \in Nat
  BY DEF IsList
<1> DEFINE r == [n \in 0..Len(seq) |-> Held(kind, w[n])]
           Good(n) == /\ w[n] = Holder(kind, r[n])
                      /\ \A m \in 1..n : /\ Takes(kind, r[m - 1], seq[m])
                                         /\ r[m] = Moved(kind, r[m - 1], seq[m])
           good == {n \in 0..Len(seq) : Good(n) \/ Refused(kind, w[n])}
<1>3. 0 \in good
  <2>1. w[0] = Holder(kind, x)
    BY <1>1 DEF Walk
  <2>2. r[0] = x
    <3>1. r[0] = Held(kind, w[0])
      BY <1>2
    <3> HIDE DEF r
    <3> QED
      BY <2>1, <3>1, HolderFacts
  <2>3. Good(0)
    <3> HIDE DEF r
    <3> QED
      BY <2>1, <2>2
  <2> HIDE DEF Good
  <2> QED
    BY <1>2, <2>3
<1>4. ASSUME NEW n \in 0..Len(seq) - 1, n \in good PROVE n + 1 \in good
  <2>1. n + 1 \in 1..Len(seq) /\ (n + 1) - 1 = n /\ n + 1 \in 0..Len(seq) /\ n \in 0..Len(seq)
    BY <1>2
  <2>2. w[n + 1] = FoldStep(kind, w[n], seq[n + 1])
    BY <1>1, <2>1 DEF Walk
  <2>3. CASE Refused(kind, w[n])
    <3>1. Refused(kind, w[n + 1])
      BY <2>2, <2>3, StepRefuses
    <3> HIDE DEF Good
    <3> QED
      BY <2>1, <3>1
  <2>4. CASE Good(n) /\ ~Takes(kind, r[n], seq[n + 1])
    <3>1. Refused(kind, w[n + 1])
      <4> HIDE DEF r
      <4> QED
        BY <2>2, <2>4, StepRefuses
    <3> HIDE DEF Good
    <3> QED
      BY <2>1, <3>1
  <2>5. CASE Good(n) /\ Takes(kind, r[n], seq[n + 1])
    <3>1. w[n + 1] = Holder(kind, Moved(kind, r[n], seq[n + 1]))
      <4>1. PICK y, e : y = r[n] /\ e = seq[n + 1]
        OBVIOUS
      <4>2. FoldStep(kind, Holder(kind, y), e) = Holder(kind, Moved(kind, y, e))
        <5>1. Takes(kind, y, e)
          BY <2>5, <4>1
        <5> QED
          BY <5>1, StepTakes
      <4>3. w[n] = Holder(kind, y)
        <5> HIDE DEF r
        <5> QED
          BY <2>5, <4>1
      <4> HIDE DEF r
      <4> QED
        BY <2>2, <4>1, <4>2, <4>3
    <3>2. r[n + 1] = Moved(kind, r[n], seq[n + 1])
      <4>1. r[n + 1] = Held(kind, w[n + 1])
        BY <2>1
      <4> HIDE DEF r
      <4> QED
        BY <3>1, <4>1, HolderFacts
    <3>3. \A m \in 1..n + 1 : m \in 1..n \/ m = n + 1
      BY <2>1
    <3>4. Good(n + 1)
      <4> HIDE DEF r
      <4> QED
        BY <2>1, <2>5, <3>1, <3>2, <3>3
    <3> HIDE DEF Good
    <3> QED
      BY <2>1, <3>4
  <2>6. Good(n) \/ Refused(kind, w[n])
    BY <1>4
  <2> HIDE DEF Good, good, r
  <2> QED
    BY <2>3, <2>4, <2>5, <2>6
<1>5. 0..Len(seq) \subseteq good
  <2> HIDE DEF good
  <2> QED
    BY <1>2, <1>3, <1>4, CountUp
<1>6. Good(Len(seq))
  <2>1. Good(Len(seq)) \/ Refused(kind, w[Len(seq)])
    <3>1. Len(seq) \in 0..Len(seq)
      BY <1>2
    <3> HIDE DEF Good
    <3> QED
      BY <1>5, <3>1
  <2>2. ~Refused(kind, w[Len(seq)])
    BY <1>1 DEF Refused
  <2> QED
    BY <2>1, <2>2
<1>7. r[0] = x
  <2>1. r[0] = Held(kind, w[0]) /\ w[0] = Holder(kind, x)
    BY <1>1, <1>2 DEF Walk
  <2> HIDE DEF r
  <2> QED
    BY <2>1, HolderFacts
<1> HIDE DEF r
<1>8. Runs(kind, r, x, seq)
  BY <1>6, <1>7 DEF Runs
<1> QED
  BY <1>1, <1>6, <1>8

-----------------------------------------------------------------------------
(* The Session states a sequencer can hold, and when two of them cannot be *)
(* told apart by what comes after: the Items of a finished Turn, which a   *)
(* checkpoint drops, play no part any more.                                *)
IsSession(x) ==
  /\ SessionFits(x)
  /\ x = [sequence |-> x.sequence, timestamp |-> x.timestamp, lastEvent |-> x.lastEvent,
          turns |-> x.turns]
  /\ \A t \in Turns : x.turns[t].phase = "absent" => x.turns[t] = AbsentTurn
Same(a, b) ==
  /\ a.sequence = b.sequence /\ a.timestamp = b.timestamp /\ a.lastEvent = b.lastEvent
  /\ \A t \in Turns : /\ a.turns[t].phase = b.turns[t].phase
                      /\ a.turns[t].phase \notin TerminalPhases => a.turns[t] = b.turns[t]

LEMMA EmptyIsSession == IsSession(EmptySession)
BY EmptySessionFits DEF IsSession, EmptySession

LEMMA CheckpointIsSame ==
  ASSUME NEW a, IsSession(a)
  PROVE  IsSession(CheckpointOf(a)) /\ Same(CheckpointOf(a), a)
<1> DEFINE kept(t) == IF Running(a.turns[t]) THEN a.turns[t]
                      ELSE [AbsentTurn EXCEPT !.phase = a.turns[t].phase]
           turns == [t \in Turns |-> kept(t)]
           c == CheckpointOf(a)
<1>1. c = [sequence |-> a.sequence, timestamp |-> a.timestamp, lastEvent |-> a.lastEvent,
           turns |-> turns]
  BY DEF CheckpointOf, IsSession
<1>2. a.turns \in [Turns -> TurnSequence]
  BY DEF IsSession, SessionFits
<1>3. ASSUME NEW t \in Turns
      PROVE  /\ kept(t) \in TurnSequence /\ kept(t).phase = a.turns[t].phase
             /\ kept(t).phase = "absent" => kept(t) = AbsentTurn
             /\ a.turns[t].phase \notin TerminalPhases => kept(t) = a.turns[t]
  <2>1. PICK u : u = a.turns[t]
    OBVIOUS
  <2>2. u \in TurnSequence /\ u.phase \in TurnPhases
    BY <1>2, <2>1 DEF TurnSequence
  <2>3. [AbsentTurn EXCEPT !.phase = u.phase]
          = [phase |-> u.phase, items |-> [i \in Items |-> AbsentItem]]
    BY DEF AbsentTurn
  <2>4. EmptySession.turns[t] = AbsentTurn /\ EmptySession.turns \in [Turns -> TurnSequence]
    BY EmptySessionFits DEF EmptySession, SessionFits
  <2>5. AbsentTurn \in TurnSequence
    BY <2>4
  <2>6. [phase |-> u.phase, items |-> [i \in Items |-> AbsentItem]] \in TurnSequence
    BY <2>2, <2>5 DEF AbsentTurn, TurnSequence
  <2>7. u.phase = "absent" => u = AbsentTurn
    BY <2>1 DEF IsSession
  <2>8. u.phase = "absent"
          => [phase |-> u.phase, items |-> [i \in Items |-> AbsentItem]] = AbsentTurn
    BY DEF AbsentTurn
  <2>9. CASE Running(u)
    BY <2>1, <2>2, <2>9 DEF Running
  <2>10. CASE ~Running(u)
    <3>1. kept(t) = [phase |-> u.phase, items |-> [i \in Items |-> AbsentItem]]
      BY <2>1, <2>3, <2>10
    <3>2. u.phase \notin TerminalPhases => u.phase = "absent"
      BY <2>2, <2>10 DEF Running, TurnPhases
    <3> HIDE DEF kept
    <3> QED
      BY <2>1, <2>6, <2>7, <2>8, <3>1, <3>2
  <2> QED
    BY <2>9, <2>10
<1> HIDE DEF kept
<1>4. /\ turns \in [Turns -> TurnSequence]
      /\ \A t \in Turns : turns[t] = kept(t)
  BY <1>3
<1> HIDE DEF turns, c
<1>5. SessionFits(c)
  BY <1>1, <1>4 DEF SessionFits, IsSession
<1>6. /\ c.sequence = a.sequence /\ c.timestamp = a.timestamp /\ c.lastEvent = a.lastEvent
      /\ c.turns = turns
  BY <1>1
<1>7. IsSession(c)
  BY <1>1, <1>3, <1>4, <1>5, <1>6 DEF IsSession
<1>8. Same(c, a)
  BY <1>3, <1>4, <1>6 DEF Same
<1> QED
  BY <1>7, <1>8 DEF c

LEMMA SameIsEquivalence ==
  /\ \A a : Same(a, a)
  /\ \A a, b : Same(a, b) => Same(b, a)
  /\ \A a, b, c : Same(a, b) /\ Same(b, c) => Same(a, c)
<1>1. \A a : Same(a, a)
  BY DEF Same
<1>2. ASSUME NEW a, NEW b, Same(a, b) PROVE Same(b, a)
  BY <1>2 DEF Same
<1>3. ASSUME NEW a, NEW b, NEW c, Same(a, b), Same(b, c) PROVE Same(a, c)
  BY <1>3 DEF Same
<1> QED
  BY <1>1, <1>2, <1>3

(* Two states are the same exactly if their checkpoints are equal.         *)
LEMMA SameCheckpoints ==
  ASSUME NEW a, IsSession(a), NEW b, IsSession(b), Same(a, b)
  PROVE  CheckpointOf(a) = CheckpointOf(b)
<1> DEFINE kept(x, t) == IF Running(x.turns[t]) THEN x.turns[t]
                         ELSE [AbsentTurn EXCEPT !.phase = x.turns[t].phase]
           of(x) == [sequence |-> x.sequence, timestamp |-> x.timestamp,
                     lastEvent |-> x.lastEvent, turns |-> [t \in Turns |-> kept(x, t)]]
<1>1. CheckpointOf(a) = of(a) /\ CheckpointOf(b) = of(b)
  BY DEF CheckpointOf, IsSession
<1>2. ASSUME NEW t \in Turns PROVE kept(a, t) = kept(b, t)
  BY DEF Same, Running, TerminalPhases
<1> HIDE DEF kept
<1>3. of(a) = of(b)
  BY <1>2 DEF Same
<1> QED
  BY <1>1, <1>3

(* The same states take the same events, and stay the same.                *)
LEMMA SameTakes ==
  ASSUME NEW a, IsSession(a), NEW b, IsSession(b), Same(a, b),
         NEW e, e.turn \in Turns, CanReplay(a, e)
  PROVE  /\ CanReplay(b, e)
         /\ IsSession(Replay(a, e)) /\ IsSession(Replay(b, e)) /\ Same(Replay(a, e), Replay(b, e))
<1>1. PICK t, u : t = e.turn /\ u = a.turns[t] /\ t \in Turns
  OBVIOUS
<1>2. SessionFits(a) /\ SessionFits(b)
  BY DEF IsSession
<1>3. /\ Acceptable(a, t, e.event, e.item, e.timestamp)
      /\ e = EventAfter(e.session, a, t, e.event, e.item, e.timestamp)
      /\ Replay(a, e) = SessionAfter(a, e)
  BY <1>1, <1>2, ReplayExactly
<1>4. u.phase \notin TerminalPhases
  BY <1>1, <1>3 DEF Acceptable, Allowed, Running, TerminalPhases
<1>5. b.turns[t] = u /\ RunningTurns(a) = RunningTurns(b)
  BY <1>1, <1>4 DEF Same, RunningTurns, Running
<1>6. Acceptable(b, t, e.event, e.item, e.timestamp)
  BY <1>1, <1>3, <1>5 DEF Acceptable, Allowed, Same
<1>7. EventAfter(e.session, a, t, e.event, e.item, e.timestamp)
        = EventAfter(e.session, b, t, e.event, e.item, e.timestamp)
  BY <1>1, <1>5 DEF EventAfter, Same
<1>8. CanReplay(b, e) /\ Replay(b, e) = SessionAfter(b, e)
  BY <1>1, <1>2, <1>3, <1>6, <1>7, ReplayExactly
<1>9. ASSUME NEW x \in {a, b} PROVE IsSession(Replay(x, e)) /\ Replay(x, e) = SessionAfter(x, e)
  <2>1. IsSession(x) /\ CanReplay(x, e) /\ Replay(x, e) = SessionAfter(x, e)
    BY <1>3, <1>8
  <2>2. /\ SessionFits(Replay(x, e))
        /\ Replay(x, e).turns[t].phase \in {"running"} \cup TerminalPhases
        /\ \A other \in Turns \ {t} : Replay(x, e).turns[other] = x.turns[other]
    <3> DEFINE again == Prepare(e.session, x, e.turn, e.event, e.item, e.timestamp)
    <3>1. again.outcome = "ok" /\ Replay(x, e) = again.session
      BY <2>1 DEF CanReplay, Replay
    <3>2. SessionFits(x)
      BY <2>1 DEF IsSession
    <3>3. /\ SessionFits(again.session)
          /\ again.session.turns[t].phase
               = IF IsTerminal(e.event) THEN TerminalPhase[e.event] ELSE "running"
          /\ \A other \in Turns \ {t} : again.session.turns[other] = x.turns[other]
      BY <1>1, <3>1, <3>2, PreparedMoves
    <3> HIDE DEF again
    <3> QED
      BY <3>1, <3>3, TerminalEvents DEF IsTerminal
  <2>3. \A v \in Turns :
          Replay(x, e).turns[v].phase = "absent" => Replay(x, e).turns[v] = AbsentTurn
    BY <2>1, <2>2 DEF IsSession, TerminalPhases
  <2> QED
    BY <2>1, <2>2, <2>3 DEF IsSession, SessionAfter
<1>10. Same(Replay(a, e), Replay(b, e))
  <2>1. a.turns \in [Turns -> TurnSequence] /\ b.turns \in [Turns -> TurnSequence]
    BY <1>2 DEF SessionFits
  <2>2. PICK next : next = TurnAfter(u, e.event, e.item)
    OBVIOUS
  <2>3. /\ Replay(a, e).turns = [a.turns EXCEPT ![t] = next]
        /\ Replay(b, e).turns = [b.turns EXCEPT ![t] = next]
    BY <1>1, <1>3, <1>5, <1>8, <2>2 DEF SessionAfter
  <2>4. /\ Replay(a, e).sequence = Replay(b, e).sequence
        /\ Replay(a, e).timestamp = Replay(b, e).timestamp
        /\ Replay(a, e).lastEvent = Replay(b, e).lastEvent
    BY <1>3, <1>8 DEF SessionAfter
  <2>5. \A v \in Turns : /\ Replay(a, e).turns[v] = IF v = t THEN next ELSE a.turns[v]
                         /\ Replay(b, e).turns[v] = IF v = t THEN next ELSE b.turns[v]
    BY <1>1, <2>1, <2>3
  <2> QED
    BY <2>4, <2>5 DEF Same
<1> QED
  BY <1>8, <1>9, <1>10

(* Replaying a list of events from the same states.                        *)
OfTurns(seq) == \A n \in 1..Len(seq) : seq[n].turn \in Turns

LEMMA RunKeepsSessions ==
  ASSUME NEW seq, IsList(seq), OfTurns(seq), NEW a, IsSession(a), NEW r, Runs("replay", r, a, seq)
  PROVE  \A n \in 0..Len(seq) : IsSession(r[n])
<1> DEFINE good == {n \in 0..Len(seq) : IsSession(r[n])}
<1>1. Len(seq) \in Nat
  BY DEF IsList
<1>2. 0 \in good
  BY <1>1 DEF Runs
<1>3. ASSUME NEW n \in 0..Len(seq) - 1, n \in good PROVE n + 1 \in good
  <2>1. n + 1 \in 1..Len(seq) /\ (n + 1) - 1 = n /\ n + 1 \in 0..Len(seq)
    BY <1>1
  <2>2. PICK x, e : x = r[n] /\ e = seq[n + 1]
    OBVIOUS
  <2>3. CanReplay(x, e) /\ r[n + 1] = Replay(x, e) /\ e.turn \in Turns /\ IsSession(x)
    BY <1>3, <2>1, <2>2 DEF Runs, Takes, Moved, OfTurns
  <2>4. IsSession(Replay(x, e))
    BY <2>3, SameIsEquivalence, SameTakes
  <2> QED
    BY <2>1, <2>3, <2>4
<1>4. 0..Len(seq) \subseteq good
  <2> HIDE DEF good
  <2> QED
    BY <1>1, <1>2, <1>3, CountUp
<1> QED
  BY <1>4

LEMMA SameReplays ==
  ASSUME NEW seq, IsList(seq), OfTurns(seq),
         NEW a, IsSession(a), NEW b, IsSession(b), Same(a, b),
         NEW r, Runs("replay", r, a, seq)
  PROVE  \E q : /\ Runs("replay", q, b, seq)
                /\ \A n \in 0..Len(seq) : IsSession(q[n]) /\ Same(r[n], q[n])
<1>1. Len(seq) \in Nat
  BY DEF IsList
<1>2. PICK w : Walk("replay", w, Holder("replay", b), seq)
  BY FoldIsWalk
<1> DEFINE q == [n \in 0..Len(seq) |-> w[n].session]
           Good(n) == /\ w[n] = Holder("replay", q[n]) /\ IsSession(q[n]) /\ Same(r[n], q[n])
                      /\ n # 0 => CanReplay(q[n - 1], seq[n]) /\ q[n] = Replay(q[n - 1], seq[n])
           good == {n \in 0..Len(seq) : Good(n)}
<1>3. 0 \in good
  <2>1. w[0] = Holder("replay", b) /\ r[0] = a
    BY <1>2 DEF Walk, Runs
  <2>2. q[0] = b
    BY <1>1, <2>1 DEF Holder
  <2>3. Good(0)
    <3> HIDE DEF q
    <3> QED
      BY <2>1, <2>2
  <2> HIDE DEF Good
  <2> QED
    BY <1>1, <2>3
<1>4. ASSUME NEW n \in 0..Len(seq) - 1, n \in good PROVE n + 1 \in good
  <2>1. n + 1 \in 1..Len(seq) /\ (n + 1) - 1 = n /\ n + 1 \in 0..Len(seq) /\ n + 1 # 0
    BY <1>1
  <2>2. PICK x, y, e : x = r[n] /\ y = q[n] /\ e = seq[n + 1]
    OBVIOUS
  <2>3. w[n] = Holder("replay", y) /\ IsSession(y) /\ Same(x, y)
    BY <1>4, <2>2
  <2>4. CanReplay(x, e) /\ r[n + 1] = Replay(x, e) /\ e.turn \in Turns /\ IsSession(x)
    <3>1. \A m \in 0..Len(seq) : IsSession(r[m])
      BY RunKeepsSessions
    <3> QED
      BY <2>1, <2>2, <3>1 DEF Runs, Takes, Moved, OfTurns
  <2>5. /\ CanReplay(y, e) /\ IsSession(Replay(y, e)) /\ Same(Replay(x, e), Replay(y, e))
    BY <2>3, <2>4, SameTakes
  <2>6. w[n + 1] = Holder("replay", Replay(y, e))
    <3>1. w[n + 1] = FoldStep("replay", w[n], e)
      BY <1>2, <2>1, <2>2 DEF Walk
    <3> QED
      BY <2>3, <2>5, <3>1 DEF FoldStep, ReplayStep, Holder
  <2>7. q[n + 1] = Replay(y, e)
    BY <2>1, <2>6 DEF Holder
  <2>8. Good(n + 1)
    <3> HIDE DEF q
    <3> QED
      BY <2>1, <2>2, <2>4, <2>5, <2>6, <2>7
  <2> HIDE DEF Good
  <2> QED
    BY <2>1, <2>8
<1>5. 0..Len(seq) \subseteq good
  <2> HIDE DEF good
  <2> QED
    BY <1>1, <1>3, <1>4, CountUp
<1>6. q[0] = b
  BY <1>1, <1>2 DEF Walk, Holder
<1> HIDE DEF q
<1>7. Runs("replay", q, b, seq)
  <2>1. \A n \in 1..Len(seq) : CanReplay(q[n - 1], seq[n]) /\ q[n] = Replay(q[n - 1], seq[n])
    <3>1. \A n \in 1..Len(seq) : n \in 0..Len(seq) /\ n # 0
      BY <1>1
    <3> QED
      BY <1>5, <3>1
  <2> QED
    BY <1>6, <2>1 DEF Runs, Takes, Moved
<1> QED
  BY <1>5, <1>7

-----------------------------------------------------------------------------
(* Along a replayed history the phases of the Turns tell its events apart. *)
LEMMA TakenMoves ==
  ASSUME NEW x, IsSession(x), NEW e, e.turn \in Turns, CanReplay(x, e)
  PROVE  LET next == Replay(x, e)
         IN  /\ x.turns[e.turn].phase = IF e.event = "turn.started" THEN "absent" ELSE "running"
             /\ e.event = "turn.started" => RunningTurns(x) = {}
             /\ next.turns[e.turn].phase = PhaseAfter(e.event)
             /\ \A t \in Turns \ {e.turn} : next.turns[t] = x.turns[t]
             /\ next.lastEvent = e /\ next.sequence = e.sequence /\ next.timestamp = e.timestamp
             /\ e.sequence = x.sequence + 1 /\ e.timestamp >= x.timestamp
             /\ e.timestamp \in 1..MaxSafe /\ e.sequence <= MaxSafe
<1> DEFINE again == Prepare(e.session, x, e.turn, e.event, e.item, e.timestamp)
           next == Replay(x, e)
<1>1. again.outcome = "ok" /\ next = again.session /\ SessionFits(x)
  BY DEF CanReplay, Replay, IsSession
<1>2. /\ x.turns[e.turn].phase = IF e.event = "turn.started" THEN "absent" ELSE "running"
      /\ again.session.turns[e.turn].phase
           = IF IsTerminal(e.event) THEN TerminalPhase[e.event] ELSE "running"
      /\ \A t \in Turns \ {e.turn} : again.session.turns[t] = x.turns[t]
  BY <1>1, PreparedMoves
<1>3. /\ Acceptable(x, e.turn, e.event, e.item, e.timestamp) /\ next = SessionAfter(x, e)
      /\ e = EventAfter(e.session, x, e.turn, e.event, e.item, e.timestamp)
  BY <1>1, ReplayExactly
<1>4. e.event = "turn.started" => RunningTurns(x) = {}
  BY <1>3 DEF Acceptable, Allowed
<1>5. next.lastEvent = e /\ next.sequence = e.sequence /\ next.timestamp = e.timestamp
  BY <1>3 DEF SessionAfter
<1>6. /\ e.sequence = x.sequence + 1 /\ e.timestamp \in 1..MaxSafe /\ e.sequence <= MaxSafe
      /\ e.timestamp = LargerOf(e.timestamp, x.timestamp)
  BY <1>3 DEF Acceptable, EventAfter
<1>7. e.timestamp >= x.timestamp
  BY <1>1, <1>6, SequencerAssumption DEF LargerOf, SessionFits
<1> HIDE DEF again, next
<1> QED
  BY <1>1, <1>2, <1>4, <1>5, <1>6, <1>7 DEF PhaseAfter, next

WellFormed(p) ==
  \A m, n \in 1..Len(p) : m < n =>
    LET a == p[m]
        b == p[n]
    IN  /\ b.turn = a.turn => ~IsTerminal(a.event) /\ b.event # "turn.started"
        /\ b.turn # a.turn => \E k \in m..(n - 1) : p[k].turn = a.turn /\ IsTerminal(p[k].event)

(* What the phases after n events say of these events.                     *)
PhasesTell(x, p, n) ==
  /\ \A t \in Turns : x.turns[t].phase = "absent" => \A m \in 1..n : p[m].turn # t
  /\ \A t \in Turns : x.turns[t].phase \in TerminalPhases =>
        \E k \in 1..n : p[k].turn = t /\ IsTerminal(p[k].event)
  /\ \A k \in 1..n : IsTerminal(p[k].event) => x.turns[p[k].turn].phase \in TerminalPhases
  /\ \A t, u \in RunningTurns(x) : t = u

LEMMA PhasesAlwaysTell ==
  ASSUME NEW p, IsList(p), OfTurns(p), NEW r, Runs("replay", r, EmptySession, p)
  PROVE  \A n \in 0..Len(p) : PhasesTell(r[n], p, n)
<1> DEFINE good == {n \in 0..Len(p) : PhasesTell(r[n], p, n)}
<1>1. Len(p) \in Nat /\ \A n \in 0..Len(p) : IsSession(r[n])
  BY EmptyIsSession, RunKeepsSessions DEF IsList
<1>2. 0 \in good
  <2>1. r[0] = EmptySession
    BY DEF Runs
  <2>2. \A t \in Turns : r[0].turns[t].phase = "absent"
    BY <2>1 DEF EmptySession, AbsentTurn
  <2>3. PhasesTell(r[0], p, 0)
    BY <2>2 DEF PhasesTell, TerminalPhases, RunningTurns, Running
  <2> QED
    BY <1>1, <2>3
<1>3. ASSUME NEW n \in 0..Len(p) - 1, n \in good PROVE n + 1 \in good
  <2>1. /\ n + 1 \in 1..Len(p) /\ (n + 1) - 1 = n
        /\ n + 1 \in 0..Len(p) /\ n \in 0..Len(p) /\ n \in Nat
    BY <1>1
  <2>2. PICK x, e, y, t : x = r[n] /\ e = p[n + 1] /\ y = r[n + 1] /\ t = e.turn
    OBVIOUS
  <2>3. IsSession(x) /\ t \in Turns /\ CanReplay(x, e) /\ y = Replay(x, e) /\ PhasesTell(x, p, n)
    BY <1>1, <1>3, <2>1, <2>2 DEF Runs, Takes, Moved, OfTurns
  <2>4. /\ x.turns[t].phase = IF e.event = "turn.started" THEN "absent" ELSE "running"
        /\ e.event = "turn.started" => RunningTurns(x) = {}
        /\ y.turns[t].phase = PhaseAfter(e.event)
        /\ \A u \in Turns \ {t} : y.turns[u] = x.turns[u]
    BY <2>2, <2>3, TakenMoves
  <2>5. /\ IsTerminal(e.event) => y.turns[t].phase \in TerminalPhases
        /\ ~IsTerminal(e.event) => y.turns[t].phase = "running"
    BY <2>4, TerminalEvents DEF PhaseAfter, IsTerminal
  <2>6. \A m \in 1..n + 1 : m \in 1..n \/ m = n + 1
    BY <2>1
  <2>7. \A m \in 1..n : m \in 1..n + 1
    BY <2>1
  <2>8. \A u \in Turns : y.turns[u].phase = "absent" => \A m \in 1..n + 1 : p[m].turn # u
    BY <2>2, <2>3, <2>4, <2>5, <2>6 DEF PhasesTell, TerminalPhases
  <2>9. ASSUME NEW u \in Turns, y.turns[u].phase \in TerminalPhases
        PROVE  \E k \in 1..n + 1 : p[k].turn = u /\ IsTerminal(p[k].event)
    <3>1. CASE u = t
      <4>1. IsTerminal(e.event)
        BY <2>5, <2>9, <3>1 DEF TerminalPhases
      <4> QED
        BY <2>1, <2>2, <3>1, <4>1
    <3>2. CASE u # t
      <4>1. \E k \in 1..n : p[k].turn = u /\ IsTerminal(p[k].event)
        BY <2>3, <2>4, <2>9, <3>2 DEF PhasesTell
      <4> QED
        BY <2>7, <4>1
    <3> QED
      BY <3>1, <3>2
  <2>10. ASSUME NEW k \in 1..n + 1, IsTerminal(p[k].event)
         PROVE  y.turns[p[k].turn].phase \in TerminalPhases
    <3>1. CASE k = n + 1
      BY <2>2, <2>5, <2>10, <3>1
    <3>2. CASE k \in 1..n
      <4>1. x.turns[p[k].turn].phase \in TerminalPhases /\ p[k].turn \in Turns
        BY <2>1, <2>3, <2>10, <3>2 DEF PhasesTell, OfTurns
      <4>2. p[k].turn # t
        BY <2>4, <4>1 DEF TerminalPhases
      <4> QED
        BY <2>4, <4>1, <4>2
    <3> QED
      BY <2>6, <3>1, <3>2
  <2>11. ASSUME NEW u \in RunningTurns(y), NEW v \in RunningTurns(y) PROVE u = v
    <3>1. /\ u \in Turns /\ v \in Turns
          /\ (u # t => u \in RunningTurns(x)) /\ (v # t => v \in RunningTurns(x))
      BY <2>4 DEF RunningTurns, Running
    <3>2. e.event # "turn.started" => t \in RunningTurns(x)
      BY <2>3, <2>4 DEF RunningTurns, Running
    <3> QED
      BY <2>3, <2>4, <3>1, <3>2 DEF PhasesTell
  <2>12. PhasesTell(y, p, n + 1)
    BY <2>8, <2>9, <2>10, <2>11 DEF PhasesTell
  <2> QED
    BY <2>1, <2>2, <2>12
<1>4. 0..Len(p) \subseteq good
  <2> HIDE DEF good
  <2> QED
    BY <1>1, <1>2, <1>3, CountUp
<1> QED
  BY <1>4

LEMMA RunIsWellFormed ==
  ASSUME NEW p, IsList(p), OfTurns(p), NEW r, Runs("replay", r, EmptySession, p)
  PROVE  WellFormed(p)
<1>1. Len(p) \in Nat /\ \A n \in 0..Len(p) : IsSession(r[n]) /\ PhasesTell(r[n], p, n)
  BY EmptyIsSession, RunKeepsSessions, PhasesAlwaysTell DEF IsList
<1>2. ASSUME NEW m \in 1..Len(p), NEW n \in 1..Len(p), m < n, p[n].turn = p[m].turn
      PROVE  ~IsTerminal(p[m].event) /\ p[n].event # "turn.started"
  <2>1. n - 1 \in 0..Len(p) /\ m \in 1..n - 1
    BY <1>1, <1>2
  <2>2. PICK x, e : x = r[n - 1] /\ e = p[n]
    OBVIOUS
  <2>3. IsSession(x) /\ e.turn \in Turns /\ CanReplay(x, e) /\ PhasesTell(x, p, n - 1)
    BY <1>1, <2>1, <2>2 DEF Runs, Takes, OfTurns
  <2>4. x.turns[e.turn].phase = IF e.event = "turn.started" THEN "absent" ELSE "running"
    BY <2>3, TakenMoves
  <2>5. x.turns[e.turn].phase # "absent"
    BY <1>2, <2>1, <2>2, <2>3 DEF PhasesTell
  <2>6. IsTerminal(p[m].event) => x.turns[e.turn].phase \in TerminalPhases
    BY <1>2, <2>1, <2>2, <2>3 DEF PhasesTell
  <2> QED
    BY <2>2, <2>4, <2>5, <2>6 DEF TerminalPhases
<1>3. ASSUME NEW m \in 1..Len(p), NEW n \in 1..Len(p), m < n, p[n].turn # p[m].turn
      PROVE  \E k \in m..(n - 1) : p[k].turn = p[m].turn /\ IsTerminal(p[k].event)
  <2>1. n - 1 \in 0..Len(p) /\ m \in 1..n - 1
    BY <1>1, <1>3
  <2>2. PICK x, e, t : x = r[n - 1] /\ e = p[n] /\ t = p[m].turn
    OBVIOUS
  <2>3. /\ IsSession(x) /\ e.turn \in Turns /\ t \in Turns /\ t # e.turn
        /\ CanReplay(x, e) /\ PhasesTell(x, p, n - 1)
    BY <1>1, <1>3, <2>1, <2>2 DEF Runs, Takes, OfTurns
  <2>4. /\ x.turns[e.turn].phase = IF e.event = "turn.started" THEN "absent" ELSE "running"
        /\ e.event = "turn.started" => RunningTurns(x) = {}
    BY <2>3, TakenMoves
  <2>5. x.turns[t].phase # "absent"
    BY <2>1, <2>2, <2>3 DEF PhasesTell
  <2>6. x.turns[t].phase # "running"
    <3>1. e.event # "turn.started" => e.turn \in RunningTurns(x)
      BY <2>3, <2>4 DEF RunningTurns, Running
    <3> QED
      BY <2>3, <2>4, <3>1 DEF PhasesTell, RunningTurns, Running
  <2>7. x.turns[t].phase \in TurnPhases
    BY <2>3 DEF IsSession, SessionFits, TurnSequence
  <2>8. x.turns[t].phase \in TerminalPhases
    BY <2>5, <2>6, <2>7 DEF TurnPhases
  <2>9. PICK k \in 1..(n - 1) : p[k].turn = t /\ IsTerminal(p[k].event)
    BY <2>3, <2>8 DEF PhasesTell
  <2>10. k >= m
    <3>1. SUFFICES ASSUME ~(k >= m) PROVE FALSE
      OBVIOUS
    <3>2. k \in 1..Len(p) /\ k < m
      BY <1>1, <2>1, <2>9, <3>1
    <3> QED
      BY <1>2, <2>2, <2>9, <3>2
  <2>11. k \in m..(n - 1)
    BY <2>9, <2>10
  <2> QED
    BY <2>2, <2>9, <2>11
<1> QED
  BY <1>2, <1>3 DEF WellFormed

-----------------------------------------------------------------------------
(* A prepared event replays as it was prepared, and is of the protocol.    *)
LEMMA PreparedReplays ==
  ASSUME NEW s, NEW x, IsSession(x), NEW t \in Turns, NEW event, NEW item, NEW now,
         Prepare(s, x, t, event, item, now).outcome = "ok"
  PROVE  LET prepared == Prepare(s, x, t, event, item, now)
         IN  /\ CanReplay(x, prepared.envelope) /\ Replay(x, prepared.envelope) = prepared.session
             /\ prepared.envelope.turn = t /\ IsSession(prepared.session)
<1> DEFINE prepared == Prepare(s, x, t, event, item, now)
<1>0. SessionFits(x) /\ x.timestamp \in Nat /\ now \in Nat /\ MaxSafe \in Nat
  <2>1. SessionFits(x) /\ x.timestamp \in Nat /\ MaxSafe \in Nat
    BY SequencerAssumption DEF IsSession, SessionFits
  <2>2. now \in 1..MaxSafe
    BY <2>1, PreparedExactly DEF Acceptable
  <2> QED
    BY <2>1, <2>2
<1>1. PICK e : e = EventAfter(s, x, t, event, item, now)
  OBVIOUS
<1>2. /\ Acceptable(x, t, event, item, now)
      /\ prepared.envelope = e /\ prepared.session = SessionAfter(x, e)
  BY <1>0, <1>1, PreparedExactly
<1> HIDE DEF prepared
<1>3. /\ e.session = s /\ e.turn = t /\ e.event = event /\ e.item = item
      /\ e.timestamp = LargerOf(now, x.timestamp)
  BY <1>1 DEF EventAfter
<1>4. e.timestamp \in 1..MaxSafe /\ LargerOf(e.timestamp, x.timestamp) = e.timestamp
  <2>1. now \in 1..MaxSafe /\ x.timestamp \in 0..MaxSafe
    BY <1>0, <1>2 DEF Acceptable, SessionFits
  <2> QED
    BY <1>3, <2>1 DEF LargerOf
<1>5. e = EventAfter(e.session, x, e.turn, e.event, e.item, e.timestamp)
  BY <1>1, <1>3, <1>4 DEF EventAfter
<1>6. Acceptable(x, e.turn, e.event, e.item, e.timestamp)
  BY <1>2, <1>3, <1>4 DEF Acceptable
<1>7. CanReplay(x, e) /\ Replay(x, e) = SessionAfter(x, e)
  BY <1>0, <1>3, <1>5, <1>6, ReplayExactly
<1>8. IsSession(Replay(x, e))
  BY <1>3, <1>7, SameIsEquivalence, SameTakes
<1> QED
  BY <1>2, <1>3, <1>7, <1>8 DEF prepared

LEMMA PreparedIsEnvelope ==
  ASSUME NEW s \in Sessions, NEW x, IsSession(x), NEW t \in Turns, NEW event \in STRING,
         NEW item \in ItemRequests \cup {NoItem}, NEW now,
         Prepare(s, x, t, event, item, now).outcome = "ok"
  PROVE  ValidEnvelope(Prepare(s, x, t, event, item, now).envelope)
<1> DEFINE prepared == Prepare(s, x, t, event, item, now)
<1>0. SessionFits(x) /\ x.sequence \in 0..MaxSafe /\ x.timestamp \in 0..MaxSafe /\ MaxSafe \in Nat
  BY SequencerAssumption DEF IsSession, SessionFits
<1>1. PICK e : e = EventAfter(s, x, t, event, item, now)
  OBVIOUS
<1>2. Acceptable(x, t, event, item, now) /\ prepared.envelope = e
  BY <1>0, <1>1, PreparedExactly
<1> HIDE DEF prepared
<1>3. PICK phase, revision, sequence, timestamp :
        /\ phase = PhaseAfter(event) /\ revision = RevisionAfter(x.turns[t], event, item)
        /\ sequence = x.sequence + 1 /\ timestamp = LargerOf(now, x.timestamp)
  OBVIOUS
<1>4. e = [session |-> s, turn |-> t, event |-> event, item |-> item, state |-> phase,
           revision |-> revision, sequence |-> sequence, timestamp |-> timestamp]
  BY <1>1, <1>3 DEF EventAfter
<1>5. phase \in TurnPhases \ {"absent"}
  BY <1>3, TerminalEvents DEF PhaseAfter, TurnPhases, IsTerminal, TerminalPhases
<1>6. sequence \in 1..MaxSafe /\ timestamp \in 1..MaxSafe
  BY <1>0, <1>2, <1>3 DEF Acceptable, LargerOf
<1>7. revision \in 0..MaxSafe /\ ((item = NoItem) <=> (revision = 0))
  <2>1. CASE item = NoItem
    BY <1>0, <1>3, <2>1 DEF RevisionAfter
  <2>2. CASE item # NoItem
    <3>1. PICK turn : turn = x.turns[t] /\ turn \in TurnSequence
      BY <1>0 DEF SessionFits
    <3>2. item.id \in Items /\ item.shape \in Shapes /\ ShapeIsValid(event, item)
      BY <1>2, <2>2 DEF ItemRequests, Acceptable, Allowed
    <3>3. event # "turn.started"
      BY <2>2, <3>2, ValidShapes
    <3>4. PICK evt : /\ evt = IF IsTerminal(event) THEN "item.completed" ELSE event
                     /\ ItemApplied(turn, event, item) = ApplyItem(turn, evt, item)
      BY DEF ItemApplied
    <3>5. ApplyItem(turn, evt, item).outcome = "ok"
      BY <1>2, <2>2, <3>1, <3>3, <3>4 DEF Acceptable, Allowed
    <3>6. PICK current, next : /\ current = turn.items[item.id]
                               /\ ApplyItem(turn, evt, item)
                                    = ItemOk(current.revision + 1, next, item.shape)
      BY <3>5 DEF ApplyItem, ItemRefused
    <3>7. current.revision \in 0..MaxSafe
      BY <3>1, <3>2, <3>6 DEF TurnSequence, ItemSequence
    <3>8. /\ current.revision + 1 <= MaxSafe
          /\ ApplyItem(turn, evt, item).item.revision = current.revision + 1
      BY <3>5, <3>6 DEF ItemOk
    <3>9. revision = current.revision + 1
      BY <1>3, <2>2, <3>1, <3>4, <3>8 DEF RevisionAfter
    <3> QED
      BY <1>0, <2>2, <3>7, <3>8, <3>9
  <2> QED
    BY <2>1, <2>2
<1>8. e \in Envelopes
  BY <1>4, <1>5, <1>6, <1>7 DEF Envelopes
<1>9. e.event = event /\ e.item = item /\ e.revision = revision /\ e.state = phase
  BY <1>4
<1>10. ShapeIsValid(e.event, e.item)
  BY <1>2, <1>9 DEF Acceptable, Allowed
<1>11. ValidEnvelope(e)
  BY <1>3, <1>7, <1>8, <1>9, <1>10 DEF ValidEnvelope, PhaseAfter
<1> QED
  BY <1>2, <1>11 DEF prepared

-----------------------------------------------------------------------------
(* Runs along the two parts of a history.                                  *)
LEMMA RunSplits ==
  ASSUME NEW S, NEW p \in Seq(S), NEW f \in 0..Len(p), NEW kind, NEW x, NEW r, Runs(kind, r, x, p)
  PROVE  /\ Runs(kind, r, x, SubSeq(p, 1, f))
         /\ \E q : /\ Runs(kind, q, r[f], SubSeq(p, f + 1, Len(p)))
                   /\ \A n \in 0..Len(p) - f : q[n] = r[f + n]
<1>1. PICK a, b : a = SubSeq(p, 1, f) /\ b = SubSeq(p, f + 1, Len(p))
  OBVIOUS
<1>2. /\ Len(a) = f /\ \A n \in 1..f : a[n] = p[n]
      /\ Len(b) = Len(p) - f /\ \A n \in 1..Len(p) - f : b[n] = p[f + n]
  BY <1>1
<1>3. Len(p) \in Nat /\ f \in Nat /\ f <= Len(p)
  OBVIOUS
<1>4. Runs(kind, r, x, a)
  <2>1. \A n \in 1..f : n \in 1..Len(p)
    BY <1>3
  <2> QED
    BY <1>2, <2>1 DEF Runs
<1> DEFINE q == [n \in 0..Len(p) - f |-> r[f + n]]
<1>5. \A n \in 0..Len(p) - f : q[n] = r[f + n]
  OBVIOUS
<1>6. q[0] = r[f]
  BY <1>3
<1> HIDE DEF q
<1>7. ASSUME NEW n \in 1..Len(b)
      PROVE  Takes(kind, q[n - 1], b[n]) /\ q[n] = Moved(kind, q[n - 1], b[n])
  <2>1. /\ f + n \in 1..Len(p) /\ (f + n) - 1 = f + (n - 1)
        /\ n \in 0..Len(p) - f /\ n - 1 \in 0..Len(p) - f /\ n \in 1..Len(p) - f
    BY <1>2, <1>3
  <2>2. b[n] = p[f + n] /\ q[n - 1] = r[f + (n - 1)] /\ q[n] = r[f + n]
    BY <1>2, <1>5, <2>1
  <2>3. Takes(kind, r[f + (n - 1)], p[f + n]) /\ r[f + n] = Moved(kind, r[f + (n - 1)], p[f + n])
    BY <2>1 DEF Runs
  <2> QED
    BY <2>2, <2>3
<1>8. Runs(kind, q, r[f], b)
  BY <1>6, <1>7 DEF Runs
<1> QED
  BY <1>1, <1>4, <1>5, <1>8

(* What a replayed Session holds of the last event.                        *)
LEMMA RunIsAtLast ==
  ASSUME NEW p, IsList(p), OfTurns(p), NEW x, IsSession(x), NEW r, Runs("replay", r, x, p),
         NEW n \in 1..Len(p)
  PROVE  /\ r[n].lastEvent = p[n]
         /\ r[n].sequence = p[n].sequence /\ r[n].timestamp = p[n].timestamp
         /\ p[n].sequence = r[n - 1].sequence + 1 /\ p[n].timestamp >= r[n - 1].timestamp
         /\ p[n].sequence > 0 /\ p[n].timestamp > 0
<1>1. Len(p) \in Nat /\ n - 1 \in 0..Len(p) /\ \A m \in 0..Len(p) : IsSession(r[m])
  BY RunKeepsSessions DEF IsList
<1>2. PICK y, e : y = r[n - 1] /\ e = p[n]
  OBVIOUS
<1>3. IsSession(y) /\ e.turn \in Turns /\ CanReplay(y, e) /\ r[n] = Replay(y, e)
  BY <1>1, <1>2 DEF Runs, Takes, Moved, OfTurns
<1>4. /\ Replay(y, e).lastEvent = e /\ Replay(y, e).sequence = e.sequence
      /\ Replay(y, e).timestamp = e.timestamp
      /\ e.sequence = y.sequence + 1 /\ e.timestamp >= y.timestamp /\ e.timestamp \in 1..MaxSafe
  BY <1>3, TakenMoves
<1>5. y.sequence \in Nat /\ MaxSafe \in Nat
  BY <1>3, SequencerAssumption DEF IsSession, SessionFits
<1>6. e.sequence > 0 /\ e.timestamp > 0
  BY <1>4, <1>5
<1> QED
  BY <1>2, <1>3, <1>4, <1>6

-----------------------------------------------------------------------------
(* The checkpoint of a Session nothing happened in.                        *)
LEMMA SumOfZeros ==
  ASSUME NEW w, IsFiniteSet(DOMAIN w), \A i \in DOMAIN w : w[i] = 0
  PROVE  SumFunction(w) = 0
<1>1. PICK g : FoldsTo(g, DOMAIN w, "sum", 0, w) /\ SumFunction(w) = g[DOMAIN w]
  BY SumIsFold
<1> DEFINE bad == {s \in SUBSET DOMAIN w : g[s] # 0}
<1>2. SUFFICES ASSUME bad # {} PROVE FALSE
  BY <1>1
<1>3. PICK s \in bad : \A u \in SUBSET s : u # s => u \notin bad
  <2>1. bad \subseteq SUBSET DOMAIN w
    OBVIOUS
  <2> HIDE DEF bad
  <2> QED
    BY <1>2, <2>1, LeastSubset
<1> DEFINE x == Choice("sum", s)
<1>4. s # {} /\ s \in SUBSET DOMAIN w
  BY <1>1 DEF FoldsTo
<1>5. x \in s
  BY <1>4, ChoiceFits DEF MayFold
<1>6. g[s] = w[x] + g[s \ {x}]
  BY <1>1, <1>4 DEF FoldsTo, FoldStep
<1>7. s \ {x} \in SUBSET s /\ s \ {x} # s
  BY <1>5
<1>8. g[s \ {x}] = 0
  BY <1>3, <1>4, <1>7
<1> HIDE DEF x
<1>9. w[x] = 0
  BY <1>4, <1>5
<1> QED
  BY <1>3, <1>6, <1>8, <1>9

LEMMA EmptyCheckpointIsValid ==
  ValidCheckpoint(EmptySession) /\ CheckpointOf(EmptySession) = EmptySession
<1>1. \A t \in Turns : EmptySession.turns[t] = AbsentTurn
  BY DEF EmptySession
<1>2. AbsentTurn.phase = "absent" /\ \A i \in Items : AbsentTurn.items[i] = AbsentItem
  BY DEF AbsentTurn
<1>3. RunningTurns(EmptySession) = {}
  BY <1>1, <1>2 DEF RunningTurns, Running
<1>4. Cardinality(RunningTurns(EmptySession)) <= 1
  BY <1>3, FS_EmptySet
<1>5. MinimumSequence(EmptySession) = 0
  <2> DEFINE w == [t \in Turns |-> LeastEvents(EmptySession.turns[t])]
  <2>1. IsFiniteSet(DOMAIN w) /\ \A t \in DOMAIN w : w[t] = 0
    BY <1>1, <1>2, SequencerAssumption DEF LeastEvents
  <2>2. SumFunction(w) = 0
    <3> HIDE DEF w
    <3> QED
      BY <2>1, SumOfZeros
  <2> QED
    BY <2>2 DEF MinimumSequence
<1>6. /\ EmptySession.sequence = 0 /\ EmptySession.timestamp = 0
      /\ EmptySession.lastEvent = NoEvent
  BY DEF EmptySession
<1>7. AbsentItem.revision <= MaxSafe
  BY SequencerAssumption DEF AbsentItem
<1>8. ValidCheckpoint(EmptySession)
  <2>1. CheckpointIsSound(EmptySession)
    BY <1>1, <1>2, <1>4, <1>5, <1>6, <1>7 DEF CheckpointIsSound
  <2>2. CheckpointTurns(EmptySession) = {}
    BY <1>1, <1>2 DEF CheckpointTurns
  <2>3. CheckpointItems(EmptySession) = {}
    <3>1. \A t \in Turns, i \in Items : EmptySession.turns[t].items[i].revision = 0
      BY <1>1, <1>2 DEF AbsentItem
    <3>2. \A x \in Turns \X Items : x[1] \in Turns /\ x[2] \in Items
      OBVIOUS
    <3> QED
      BY <3>1, <3>2 DEF CheckpointItems
  <2>4. CheckpointFits(EmptySession)
    BY <2>2, <2>3, FS_EmptySet, SequencerAssumption DEF CheckpointFits
  <2> QED
    BY <2>1, <2>4 DEF ValidCheckpoint
<1>9. CheckpointOf(EmptySession) = EmptySession
  <2>1. \A t \in Turns :
          (IF Running(EmptySession.turns[t]) THEN EmptySession.turns[t]
           ELSE [AbsentTurn EXCEPT !.phase = EmptySession.turns[t].phase]) = AbsentTurn
    BY <1>1, <1>2 DEF Running, AbsentTurn
  <2> QED
    BY <2>1 DEF CheckpointOf, EmptySession
<1> QED
  BY <1>8, <1>9

StateAfter(events) == FoldLeft(ReplayStep, [ok |-> TRUE, session |-> EmptySession], events)
Floor(s) == cursor[s].floor.sequence

HistoryReplays(s) == StateAfter(log[s]).ok
FloorIsReached(s) ==
  /\ ValidCheckpoint(checkpoint[s])
  /\ IF deletion[s] = "purged"
     THEN /\ checkpoint[s] = EmptySession /\ rows[s] = <<>>
          /\ cursor[s] = [head |-> NoEvent, floor |-> NoEvent]
     ELSE /\ checkpoint[s] = CheckpointOf(StateAfter(SubSeq(log[s], 1, Floor(s))).session)
          /\ cursor[s].floor = IF Floor(s) = 0 THEN NoEvent ELSE log[s][Floor(s)]
SequencerIsReached(s) ==
  runtime = "up" =>
    /\ IsSession(sequencer[s])
    /\ deletion[s] # "purged" =>
         Same(IF call.stage = "appended" /\ call.session = s THEN call.candidate ELSE sequencer[s],
              StateAfter(log[s]).session)
CallReplays ==
  /\ call.stage = "prepared" =>
       /\ call.events \in Seq(Envelopes)
       /\ \A n \in 1..Len(call.events) : ValidEnvelope(call.events[n])
       /\ FoldLeft(ReplayStep, [ok |-> TRUE, session |-> sequencer[call.session]], call.events)
            = [ok |-> TRUE, session |-> call.candidate]
  /\ call.stage = "appended" => IsSession(call.candidate)
ReplayInv ==
  /\ IInv
  /\ \A s \in Sessions : HistoryReplays(s) /\ FloorIsReached(s) /\ SequencerIsReached(s)
  /\ CallReplays

LEMMA EventsAreOfTurns ==
  ASSUME NEW p \in Seq(Envelopes)
  PROVE  IsList(p) /\ OfTurns(p)
<1>1. Len(p) \in Nat /\ DOMAIN p = 1..Len(p) /\ \A n \in 1..Len(p) : p[n] \in Envelopes
  OBVIOUS
<1>2. \A e \in Envelopes : e.turn \in Turns
  BY DEF Envelopes
<1> QED
  BY <1>1, <1>2 DEF IsList, OfTurns

LEMMA StateIsFold ==
  /\ \A x, p : FoldLeft(ReplayStep, [ok |-> TRUE, session |-> x], p)
                 = Fold("replay", Holder("replay", x), p)
  /\ \A p : StateAfter(p) = Fold("replay", Holder("replay", EmptySession), p)
  /\ \A x, p : ValidCheckpoint(x) => ReplayFrom(x, p) = Fold("replay", Holder("replay", x), p)
  /\ \A x : Holder("replay", x) = [ok |-> TRUE, session |-> x]
<1>1. \A x : Holder("replay", x) = [ok |-> TRUE, session |-> x]
  BY DEF Holder
<1>2. \A x, p : FoldLeft(ReplayStep, [ok |-> TRUE, session |-> x], p)
                 = Fold("replay", Holder("replay", x), p)
  BY <1>1 DEF Fold
<1>3. \A p : StateAfter(p) = Fold("replay", Holder("replay", EmptySession), p)
  BY <1>2 DEF StateAfter
<1>4. ASSUME NEW x, NEW p, ValidCheckpoint(x)
      PROVE  ReplayFrom(x, p) = Fold("replay", Holder("replay", x), p)
  <2>1. [ok |-> ValidCheckpoint(x), session |-> x] = [ok |-> TRUE, session |-> x]
    <3>1. ValidCheckpoint(x) = TRUE
      BY <1>4 DEF ValidCheckpoint
    <3> QED
      BY <3>1
  <2> QED
    BY <1>2, <2>1 DEF ReplayFrom
<1> QED
  BY <1>1, <1>2, <1>3, <1>4

(* The state after each event of a history, and what is replayed from the  *)
(* checkpoint at any floor of it.                                          *)
LEMMA FloorReplays ==
  ASSUME NEW p \in Seq(Envelopes), StateAfter(p).ok, NEW f \in 0..Len(p), NEW c,
         c = CheckpointOf(StateAfter(SubSeq(p, 1, f)).session), ValidCheckpoint(c)
  PROVE  \E r : /\ Runs("replay", r, EmptySession, p)
                /\ \A n \in 0..Len(p) : /\ IsSession(r[n])
                                        /\ StateAfter(SubSeq(p, 1, n)) = Holder("replay", r[n])
                /\ StateAfter(p) = Holder("replay", r[Len(p)])
                /\ IsSession(c) /\ c = CheckpointOf(r[f])
                /\ \A k \in 0..Len(p) - f : \E y :
                      /\ ReplayFrom(c, SubSeq(SubSeq(p, f + 1, Len(p)), 1, k)) = Holder("replay", y)
                      /\ IsSession(y) /\ Same(y, r[f + k])
<1>1. IsList(p) /\ OfTurns(p) /\ Len(p) \in Nat
  BY EventsAreOfTurns
<1>2. PICK r : /\ Runs("replay", r, EmptySession, p)
               /\ StateAfter(p) = Holder("replay", r[Len(p)])
  <2>1. Fold("replay", Holder("replay", EmptySession), p).ok
    BY StateIsFold
  <2> QED
    BY <1>1, <2>1, FoldIsRun, StateIsFold
<1>3. ASSUME NEW n \in 0..Len(p)
      PROVE  IsSession(r[n]) /\ StateAfter(SubSeq(p, 1, n)) = Holder("replay", r[n])
  <2>1. IsSession(r[n])
    BY <1>1, <1>2, EmptyIsSession, RunKeepsSessions
  <2>2. PICK a : a = SubSeq(p, 1, n)
    OBVIOUS
  <2>3. a \in Seq(Envelopes) /\ Len(a) = n
    BY <1>1, <2>2
  <2>4. Runs("replay", r, EmptySession, a) /\ IsList(a)
    BY <1>2, <2>2, <2>3, RunSplits, EventsAreOfTurns
  <2>5. Fold("replay", Holder("replay", EmptySession), a) = Holder("replay", r[n])
    BY <2>3, <2>4, RunIsFold
  <2> QED
    BY <2>1, <2>2, <2>5, StateIsFold
<1>4. IsSession(r[f]) /\ c = CheckpointOf(r[f])
  <2>1. StateAfter(SubSeq(p, 1, f)).session = r[f]
    BY <1>3, StateIsFold
  <2> QED
    BY <1>3, <2>1
<1>5. IsSession(c) /\ Same(c, r[f]) /\ Same(r[f], c)
  BY <1>4, CheckpointIsSame, SameIsEquivalence
<1>6. PICK b : b = SubSeq(p, f + 1, Len(p))
  OBVIOUS
<1>7. b \in Seq(Envelopes) /\ Len(b) = Len(p) - f /\ IsList(b) /\ OfTurns(b) /\ Len(b) \in Nat
  <2>1. b \in Seq(Envelopes) /\ Len(b) = Len(p) - f
    BY <1>1, <1>6, SuffixFacts
  <2> QED
    BY <1>1, <2>1, EventsAreOfTurns
<1>8. PICK q : Runs("replay", q, r[f], b) /\ \A n \in 0..Len(p) - f : q[n] = r[f + n]
  BY <1>2, <1>6, RunSplits
<1>9. PICK w : /\ Runs("replay", w, c, b)
               /\ \A n \in 0..Len(b) : IsSession(w[n]) /\ Same(q[n], w[n])
  BY <1>4, <1>5, <1>7, <1>8, SameReplays
<1>10. ASSUME NEW k \in 0..Len(p) - f
       PROVE  \E y : /\ ReplayFrom(c, SubSeq(b, 1, k)) = Holder("replay", y)
                     /\ IsSession(y) /\ Same(y, r[f + k])
  <2>1. PICK a : a = SubSeq(b, 1, k)
    OBVIOUS
  <2>2. k \in 0..Len(b)
    BY <1>7
  <2>3. a \in Seq(Envelopes) /\ Len(a) = k
    BY <1>7, <2>1, <2>2
  <2>4. Runs("replay", w, c, a) /\ IsList(a)
    BY <1>7, <1>9, <2>1, <2>2, <2>3, RunSplits, EventsAreOfTurns
  <2>5. Fold("replay", Holder("replay", c), a) = Holder("replay", w[k])
    BY <2>3, <2>4, RunIsFold
  <2>6. IsSession(w[k]) /\ Same(w[k], r[f + k])
    BY <1>8, <1>9, <2>2, SameIsEquivalence
  <2> QED
    BY <2>1, <2>5, <2>6, StateIsFold
<1> QED
  BY <1>2, <1>3, <1>4, <1>5, <1>6, <1>10

(* Events replayed on the same state lengthen a history.                   *)
LEMMA AppendReplays ==
  ASSUME NEW p \in Seq(Envelopes), StateAfter(p).ok, NEW q \in Seq(Envelopes),
         NEW x, IsSession(x), Same(x, StateAfter(p).session), NEW c,
         FoldLeft(ReplayStep, [ok |-> TRUE, session |-> x], q) = [ok |-> TRUE, session |-> c]
  PROVE  /\ StateAfter(p \o q).ok
         /\ IsSession(c) /\ Same(c, StateAfter(p \o q).session)
<1>1. IsList(p) /\ OfTurns(p) /\ Len(p) \in Nat /\ IsList(q) /\ OfTurns(q) /\ Len(q) \in Nat
  BY EventsAreOfTurns
<1>2. PICK r : /\ Runs("replay", r, EmptySession, p)
               /\ StateAfter(p) = Holder("replay", r[Len(p)])
  <2>1. Fold("replay", Holder("replay", EmptySession), p).ok
    BY StateIsFold
  <2> QED
    BY <1>1, <2>1, FoldIsRun, StateIsFold
<1>3. PICK z : z = r[Len(p)] /\ IsSession(z) /\ Same(x, z)
  <2>1. IsSession(r[Len(p)])
    BY <1>1, <1>2, EmptyIsSession, RunKeepsSessions
  <2>2. StateAfter(p).session = r[Len(p)]
    BY <1>2, StateIsFold
  <2> QED
    BY <2>1, <2>2
<1>4. PICK w : /\ Runs("replay", w, x, q)
               /\ Fold("replay", Holder("replay", x), q) = Holder("replay", w[Len(q)])
  <2>1. Fold("replay", Holder("replay", x), q).ok
    BY StateIsFold
  <2> QED
    BY <1>1, <2>1, FoldIsRun
<1>5. c = w[Len(q)]
  <2>1. Holder("replay", w[Len(q)]) = Holder("replay", c)
    BY <1>4, StateIsFold
  <2>2. \A y : Holder("replay", y).session = y
    BY StateIsFold
  <2> QED
    BY <2>1, <2>2
<1>6. IsSession(c)
  BY <1>1, <1>4, <1>5, RunKeepsSessions
<1>7. PICK v : /\ Runs("replay", v, z, q)
               /\ \A n \in 0..Len(q) : IsSession(v[n]) /\ Same(w[n], v[n])
  BY <1>1, <1>3, <1>4, SameReplays
<1>8. StateAfter(p \o q) = Holder("replay", v[Len(q)])
  <2>1. Fold("replay", Holder("replay", EmptySession), p \o q)
          = Fold("replay", Fold("replay", Holder("replay", EmptySession), p), q)
    BY FoldOfConcat
  <2>2. Fold("replay", Holder("replay", EmptySession), p) = Holder("replay", z)
    BY <1>2, <1>3, StateIsFold
  <2>3. Fold("replay", Holder("replay", z), q) = Holder("replay", v[Len(q)])
    BY <1>1, <1>7, RunIsFold
  <2> QED
    BY <2>1, <2>2, <2>3, StateIsFold
<1>9. Same(c, v[Len(q)])
  BY <1>1, <1>5, <1>7
<1> QED
  BY <1>6, <1>8, <1>9, StateIsFold

LEMMA NothingReplays ==
  /\ StateAfter(<<>>) = Holder("replay", EmptySession)
  /\ ReplayFrom(EmptySession, <<>>) = Holder("replay", EmptySession)
<1>1. Fold("replay", Holder("replay", EmptySession), <<>>) = Holder("replay", EmptySession)
  BY FoldOfNone
<1> QED
  BY <1>1, StateIsFold, EmptyCheckpointIsValid

LEMMA InitReplays == Init => ReplayInv
<1> SUFFICES ASSUME Init PROVE ReplayInv
  OBVIOUS
<1>1. IInv
  BY InitEstablishesIInv
<1>2. ASSUME NEW s \in Sessions
      PROVE  HistoryReplays(s) /\ FloorIsReached(s) /\ SequencerIsReached(s)
  <2>1. /\ log[s] = <<>> /\ cursor[s] = [head |-> NoEvent, floor |-> NoEvent]
        /\ checkpoint[s] = EmptySession /\ deletion[s] = "none" /\ call = NoCall
        /\ sequencer[s] = EmptySession
    BY DEF Init
  <2>2. StateAfter(log[s]) = Holder("replay", EmptySession)
    BY <2>1, NothingReplays
  <2>3. StateAfter(log[s]).ok /\ StateAfter(log[s]).session = EmptySession
    BY <2>2, StateIsFold
  <2>4. Floor(s) = 0 /\ SubSeq(log[s], 1, Floor(s)) = log[s]
    BY <2>1 DEF Floor, NoEvent
  <2>5. HistoryReplays(s)
    BY <2>3 DEF HistoryReplays
  <2>6. FloorIsReached(s)
    <3>1. checkpoint[s] = CheckpointOf(StateAfter(SubSeq(log[s], 1, Floor(s))).session)
      BY <2>1, <2>3, <2>4, EmptyCheckpointIsValid
    <3>2. cursor[s].floor = NoEvent /\ ValidCheckpoint(checkpoint[s]) /\ deletion[s] # "purged"
      BY <2>1, EmptyCheckpointIsValid
    <3> QED
      BY <2>4, <3>1, <3>2 DEF FloorIsReached
  <2>7. SequencerIsReached(s)
    BY <2>1, <2>3, EmptyIsSession, SameIsEquivalence DEF SequencerIsReached, NoCall
  <2> QED
    BY <2>5, <2>6, <2>7
<1>3. CallReplays
  BY DEF Init, CallReplays, NoCall
<1> QED
  BY <1>1, <1>2, <1>3 DEF ReplayInv

-----------------------------------------------------------------------------
(* Steps that leave the journal alone.                                     *)
LEMMA JournalIsKept ==
  ASSUME ReplayInv, UNCHANGED <<cursor, rows, checkpoint, log>>,
         NEW s \in Sessions, (deletion'[s] = "purged") <=> (deletion[s] = "purged")
  PROVE  HistoryReplays(s)' /\ FloorIsReached(s)'
<1>1. HistoryReplays(s) /\ FloorIsReached(s)
  BY DEF ReplayInv
<1>2. HistoryReplays(s)'
  BY <1>1 DEF HistoryReplays
<1>3. FloorIsReached(s)'
  BY <1>1 DEF FloorIsReached, Floor
<1> QED
  BY <1>2, <1>3

LEMMA PrepareEventReplays ==
  ASSUME ReplayInv, IInv', NEW s \in Sessions, NEW t \in Turns, NEW r \in Requests,
         NEW now \in Clock,
         PrepareEvent(s, t, r, now)
  PROVE  ReplayInv'
<1>1. PICK x : x = sequencer[s]
  OBVIOUS
<1> DEFINE prepared == Prepare(s, x, t, r.event, r.item, now)
<1>2. /\ Idle /\ prepared.outcome = "ok"
      /\ call' = Call(s, <<prepared.envelope>>, prepared.session, prepared.expected)
      /\ UNCHANGED <<durable, runtime, sequencer, emitted, log, crashes>>
  BY <1>1, Zenon DEF PrepareEvent
<1>3. IsSession(x)
  BY <1>1, <1>2 DEF ReplayInv, SequencerIsReached, Idle
<1>4. r.event \in STRING /\ r.item \in ItemRequests \cup {NoItem}
  BY JournalAssumption
<1>5. PICK e, c : e = prepared.envelope /\ c = prepared.session
  OBVIOUS
<1>6. CanReplay(x, e) /\ Replay(x, e) = c /\ ValidEnvelope(e)
  <2>1. CanReplay(x, e) /\ Replay(x, e) = c
    BY <1>2, <1>3, <1>5, PreparedReplays
  <2>2. ValidEnvelope(e)
    BY <1>2, <1>3, <1>4, <1>5, PreparedIsEnvelope
  <2> QED
    BY <2>1, <2>2
<1>7. /\ call'.stage = "prepared" /\ call'.session = s
      /\ call'.events = <<e>> /\ call'.candidate = c
      /\ call = NoCall /\ UNCHANGED <<cursor, rows, checkpoint, deletion, log, runtime, sequencer>>
  BY <1>2, <1>5 DEF Call, durable, Idle
<1> HIDE DEF prepared
<1>8. ASSUME NEW z \in Sessions
      PROVE  HistoryReplays(z)' /\ FloorIsReached(z)' /\ SequencerIsReached(z)'
  <2>1. HistoryReplays(z)' /\ FloorIsReached(z)'
    BY <1>7, JournalIsKept
  <2>2. SequencerIsReached(z)'
    BY <1>7 DEF ReplayInv, SequencerIsReached, NoCall
  <2> QED
    BY <2>1, <2>2
<1>9. CallReplays'
  <2>1. e \in Envelopes /\ <<e>> \in Seq(Envelopes) /\ Len(<<e>>) = 1 /\ <<e>>[1] = e
    BY <1>6 DEF ValidEnvelope
  <2>2. IsList(<<e>>)
    BY <2>1, EventsAreOfTurns
  <2> DEFINE w == [n \in 0..1 |-> IF n = 0 THEN x ELSE c]
  <2>3. w[0] = x /\ w[1] = c
    OBVIOUS
  <2> HIDE DEF w
  <2>4. Runs("replay", w, x, <<e>>)
    BY <1>6, <2>1, <2>3 DEF Runs, Takes, Moved
  <2>5. Fold("replay", Holder("replay", x), <<e>>) = Holder("replay", c)
    BY <2>1, <2>2, <2>3, <2>4, RunIsFold
  <2>6. FoldLeft(ReplayStep, [ok |-> TRUE, session |-> x], <<e>>) = [ok |-> TRUE, session |-> c]
    BY <2>5, StateIsFold
  <2>7. \A n \in 1..Len(<<e>>) : ValidEnvelope(<<e>>[n])
    BY <1>6, <2>1
  <2> QED
    BY <1>1, <1>7, <2>1, <2>6, <2>7 DEF CallReplays
<1> QED
  BY <1>8, <1>9 DEF ReplayInv

LEMMA AppendKeepsReplay ==
  ASSUME ReplayInv, IInv', AppendCall
  PROVE  ReplayInv'
<1>0. PICK s, new, x, c, p, f :
        /\ s = call.session /\ new = call.events /\ x = sequencer[s] /\ c = call.candidate
        /\ p = log[s] /\ f = Floor(s)
  OBVIOUS
<1>1. /\ runtime = "up" /\ call.stage = "prepared" /\ deletion[s] = "none"
      /\ rows' = [rows EXCEPT ![s] = @ \o new]
      /\ cursor' = [cursor EXCEPT ![s].head = new[Len(new)]]
      /\ log' = [log EXCEPT ![s] = @ \o new]
      /\ call' = [call EXCEPT !.stage = "appended"]
      /\ UNCHANGED <<checkpoint, snapshot, deletion, runtime, sequencer, emitted, crashes>>
  BY <1>0 DEF AppendCall, AppendIsPermitted, Writable
<1>2. s \in Sessions /\ p \in Seq(Envelopes) /\ new \in Seq(Envelopes)
  BY <1>0, <1>1 DEF ReplayInv, IInv, TypeOK, CallReplays
<1>3. /\ StateAfter(p).ok /\ IsSession(x) /\ Same(x, StateAfter(p).session)
      /\ FoldLeft(ReplayStep, [ok |-> TRUE, session |-> x], new) = [ok |-> TRUE, session |-> c]
  BY <1>0, <1>1, <1>2 DEF ReplayInv, HistoryReplays, SequencerIsReached, CallReplays
<1>4. /\ StateAfter(p \o new).ok
      /\ IsSession(c) /\ Same(c, StateAfter(p \o new).session)
  BY <1>2, <1>3, AppendReplays
<1>5. /\ log'[s] = p \o new /\ \A z \in Sessions \ {s} : log'[z] = log[z]
      /\ cursor'[s].floor = cursor[s].floor /\ \A z \in Sessions \ {s} : cursor'[z] = cursor[z]
      /\ \A z \in Sessions \ {s} : rows'[z] = rows[z]
  <2>1. /\ log \in [Sessions -> Seq(Envelopes)] /\ rows \in [Sessions -> Seq(Envelopes)]
        /\ cursor \in [Sessions -> [head : Anchors, floor : Anchors]]
    BY DEF ReplayInv, IInv, TypeOK
  <2>2. log'[s] = p \o new /\ \A z \in Sessions \ {s} : log'[z] = log[z] /\ rows'[z] = rows[z]
    BY <1>0, <1>1, <1>2, <2>1
  <2>3. cursor'[s].floor = cursor[s].floor /\ \A z \in Sessions \ {s} : cursor'[z] = cursor[z]
    <3>1. PICK v : v = new[Len(new)]
      OBVIOUS
    <3>2. PICK a : a = cursor[s] /\ a \in [head : Anchors, floor : Anchors]
      BY <1>2, <2>1
    <3>3. PICK b : b = [a EXCEPT !.head = v]
      OBVIOUS
    <3>5. b.floor = a.floor
      BY <3>2, <3>3
    <3>4. cursor' = [cursor EXCEPT ![s] = b]
      BY <1>1, <3>1, <3>2, <3>3
    <3> QED
      BY <1>2, <2>1, <3>2, <3>4, <3>5
  <2> QED
    BY <2>2, <2>3
<1>6. /\ call'.stage = "appended" /\ call'.session = s /\ call'.candidate = c
  BY <1>0, <1>1 DEF ReplayInv, IInv, CallIsRecord
<1>7. ASSUME NEW z \in Sessions \ {s}
      PROVE  HistoryReplays(z)' /\ FloorIsReached(z)' /\ SequencerIsReached(z)'
  <2>1. HistoryReplays(z) /\ FloorIsReached(z) /\ SequencerIsReached(z)
    BY DEF ReplayInv
  <2>2. HistoryReplays(z)' /\ FloorIsReached(z)'
    BY <1>1, <1>5, <2>1 DEF HistoryReplays, FloorIsReached, Floor
  <2>3. SequencerIsReached(z)'
    BY <1>1, <1>5, <1>6, <2>1 DEF SequencerIsReached
  <2> QED
    BY <2>2, <2>3
<1>8. HistoryReplays(s)'
  BY <1>4, <1>5 DEF HistoryReplays
<1>9. SequencerIsReached(s)'
  BY <1>0, <1>1, <1>3, <1>4, <1>5, <1>6 DEF SequencerIsReached
<1>10. FloorIsReached(s)'
  <2>1. FloorIsReached(s) /\ f \in 0..Len(p)
    BY <1>0, <1>1, <1>2 DEF ReplayInv, IInv, HeadIsLast, Floor
  <2>2. SubSeq(p \o new, 1, f) = SubSeq(p, 1, f) /\ (f # 0 => (p \o new)[f] = p[f])
    BY <1>2, <2>1
  <2>3. Floor(s)' = f
    BY <1>0, <1>5 DEF Floor
  <2>4. /\ deletion[s] # "purged" /\ deletion' = deletion /\ checkpoint' = checkpoint
        /\ f = Floor(s) /\ p = log[s]
    BY <1>0, <1>1
  <2>5. /\ ValidCheckpoint(checkpoint[s])
        /\ checkpoint[s] = CheckpointOf(StateAfter(SubSeq(p, 1, f)).session)
        /\ cursor[s].floor = IF f = 0 THEN NoEvent ELSE p[f]
    BY <2>1, <2>4 DEF FloorIsReached
  <2>6. /\ checkpoint'[s] = CheckpointOf(StateAfter(SubSeq(log'[s], 1, f)).session)
        /\ ValidCheckpoint(checkpoint[s])'
    BY <1>5, <2>2, <2>4, <2>5
  <2>7. cursor'[s].floor = IF f = 0 THEN NoEvent ELSE log'[s][f]
    BY <1>5, <2>2, <2>5
  <2> QED
    BY <2>3, <2>4, <2>6, <2>7 DEF FloorIsReached
<1>11. CallReplays'
  BY <1>4, <1>6 DEF CallReplays
<1> QED
  BY <1>7, <1>8, <1>9, <1>10, <1>11 DEF ReplayInv

LEMMA CommitKeepsReplay ==
  ASSUME ReplayInv, IInv', CommitCall
  PROVE  ReplayInv'
<1>0. PICK s : s = call.session
  OBVIOUS
<1>1. /\ runtime = "up" /\ call.stage = "appended" /\ s \in Sessions /\ deletion[s] = "none"
      /\ call.expected = sequencer[s].lastEvent
  BY <1>0 DEF CommitCall, ReplayInv, IInv, TypeOK, CallIsPending, CallIsAppended
<1>2. /\ sequencer' = [sequencer EXCEPT ![s] = call.candidate]
      /\ call' = [call EXCEPT !.stage = "committed"]
      /\ UNCHANGED <<cursor, rows, checkpoint, deletion, runtime, log>>
  BY <1>0, <1>1 DEF CommitCall, IsStale, durable
<1>3. call'.stage = "committed"
  BY <1>1, <1>2 DEF ReplayInv, IInv, CallIsRecord
<1>4. ASSUME NEW z \in Sessions
      PROVE  HistoryReplays(z)' /\ FloorIsReached(z)' /\ SequencerIsReached(z)'
  <2>1. HistoryReplays(z)' /\ FloorIsReached(z)'
    BY <1>2, JournalIsKept
  <2>2. SequencerIsReached(z) /\ IsSession(call.candidate)
    BY <1>1 DEF ReplayInv, CallReplays
  <2>3. sequencer'[z] = IF z = s THEN call.candidate ELSE sequencer[z]
    BY <1>1, <1>2 DEF ReplayInv, IInv, TypeOK
  <2>4. SequencerIsReached(z)'
    BY <1>0, <1>1, <1>2, <1>3, <2>2, <2>3 DEF SequencerIsReached
  <2> QED
    BY <2>1, <2>4
<1>5. CallReplays'
  BY <1>3 DEF CallReplays
<1> QED
  BY <1>4, <1>5 DEF ReplayInv

LEMMA EndKeepsReplay ==
  ASSUME ReplayInv, IInv', UNCHANGED <<durable, runtime, sequencer, log>>,
         call.stage # "appended", call'.stage \in {"none", "committed"}
  PROVE  ReplayInv'
<1>1. ASSUME NEW z \in Sessions
      PROVE  HistoryReplays(z)' /\ FloorIsReached(z)' /\ SequencerIsReached(z)'
  <2>1. HistoryReplays(z)' /\ FloorIsReached(z)'
    BY JournalIsKept DEF durable
  <2>2. SequencerIsReached(z)'
    BY DEF SequencerIsReached, ReplayInv, durable
  <2> QED
    BY <2>1, <2>2
<1>2. CallReplays'
  BY DEF CallReplays
<1> QED
  BY <1>1, <1>2 DEF ReplayInv

LEMMA CrashKeepsReplay ==
  ASSUME ReplayInv, IInv', Crash
  PROVE  ReplayInv'
<1>1. /\ runtime' = "down" /\ call' = NoCall
      /\ UNCHANGED <<cursor, rows, checkpoint, deletion, log>>
  BY DEF Crash, durable
<1>2. ASSUME NEW z \in Sessions
      PROVE  HistoryReplays(z)' /\ FloorIsReached(z)' /\ SequencerIsReached(z)'
  BY <1>1, JournalIsKept DEF SequencerIsReached
<1>3. CallReplays'
  BY <1>1 DEF CallReplays, NoCall
<1> QED
  BY <1>2, <1>3 DEF ReplayInv

(* The six events of a preview Turn, prepared on a copy of the sequencer,  *)
(* replay one after the other on the sequencer itself.                     *)
Stages(s, t, now, requests, w, events) ==
  \A n \in 1..6 :
    LET prepared == Prepare(s, w[n - 1], t, requests[n].event, requests[n].item, now)
    IN  prepared.outcome = "ok" /\ w[n] = prepared.session /\ events[n] = prepared.envelope
Plausible(requests) ==
  \A n \in 1..6 : requests[n].event \in STRING /\ requests[n].item \in ItemRequests \cup {NoItem}

LEMMA StagedReplays ==
  ASSUME NEW s \in Sessions, NEW t \in Turns, NEW now, NEW requests, Plausible(requests),
         NEW w, IsSession(w[0]), NEW events, Stages(s, t, now, requests, w, events)
  PROVE  \A n \in 1..6 : /\ IsSession(w[n]) /\ ValidEnvelope(events[n])
                         /\ CanReplay(w[n - 1], events[n]) /\ w[n] = Replay(w[n - 1], events[n])
<1>1. ASSUME NEW n \in 1..6, IsSession(w[n - 1])
      PROVE  /\ IsSession(w[n]) /\ ValidEnvelope(events[n])
             /\ CanReplay(w[n - 1], events[n]) /\ w[n] = Replay(w[n - 1], events[n])
  <2>1. PICK x, e, c, q : x = w[n - 1] /\ e = events[n] /\ c = w[n] /\ q = requests[n]
    OBVIOUS
  <2>2. q.event \in STRING /\ q.item \in ItemRequests \cup {NoItem}
    BY <2>1 DEF Plausible
  <2> DEFINE prepared == Prepare(s, x, t, q.event, q.item, now)
  <2>3. IsSession(x) /\ prepared.outcome = "ok" /\ c = prepared.session /\ e = prepared.envelope
    BY <1>1, <2>1 DEF Stages
  <2>4. CanReplay(x, prepared.envelope) /\ Replay(x, prepared.envelope) = prepared.session
        /\ IsSession(prepared.session)
    BY <2>3, PreparedReplays
  <2>5. ValidEnvelope(prepared.envelope)
    BY <2>2, <2>3, PreparedIsEnvelope
  <2> HIDE DEF prepared
  <2> QED
    BY <2>1, <2>3, <2>4, <2>5
<1>2. IsSession(w[1])
  <2>1. IsSession(w[1 - 1])
    OBVIOUS
  <2> QED
    BY <1>1, <2>1
<1>3. IsSession(w[2])
  <2>1. IsSession(w[2 - 1])
    BY <1>2
  <2> QED
    BY <1>1, <2>1
<1>4. IsSession(w[3])
  <2>1. IsSession(w[3 - 1])
    BY <1>3
  <2> QED
    BY <1>1, <2>1
<1>5. IsSession(w[4])
  <2>1. IsSession(w[4 - 1])
    BY <1>4
  <2> QED
    BY <1>1, <2>1
<1>6. IsSession(w[5])
  <2>1. IsSession(w[5 - 1])
    BY <1>5
  <2> QED
    BY <1>1, <2>1
<1>7. \A n \in 1..6 : IsSession(w[n - 1])
  <2> TAKE n \in 1..6
  <2>1. n - 1 \in {0, 1, 2, 3, 4, 5}
    OBVIOUS
  <2> QED
    BY <1>2, <1>3, <1>4, <1>5, <1>6, <2>1
<1> QED
  BY <1>1, <1>7

LEMMA PreviewIsPlausible ==
  ASSUME NEW items \in PreviewItems
  PROVE  Plausible(PreviewEvents(items[1], items[2]))
<1>1. PICK user, agent : user = items[1] /\ agent = items[2] /\ user \in Items /\ agent \in Items
  BY JournalAssumption
<1> DEFINE q == PreviewEvents(user, agent)
<1>2. /\ q[1].event = "turn.started" /\ q[2].event = "item.completed" /\ q[3].event = "item.started"
      /\ q[4].event = "item.delta" /\ q[5].event = "item.completed" /\ q[6].event = "turn.completed"
      /\ q[1].item = NoItem /\ q[6].item = NoItem
      /\ q[2].item = [id |-> user, shape |-> "message-user", state |-> "completed"]
      /\ q[3].item = [id |-> agent, shape |-> "message-agent", state |-> "started"]
      /\ q[4].item = [id |-> agent, shape |-> "message-agent", state |-> "delta"]
      /\ q[5].item = [id |-> agent, shape |-> "message-agent", state |-> "completed"]
  BY DEF PreviewEvents
<1> HIDE DEF q
<1>3. \A n \in 1..6 : q[n].event \in PreviewNames
  <2> TAKE n \in 1..6
  <2>1. n \in {1, 2, 3, 4, 5, 6}
    OBVIOUS
  <2> QED
    BY <1>2, <2>1 DEF PreviewNames
<1>4. \A i \in Items, shape \in Shapes, state \in ItemStates :
         [id |-> i, shape |-> shape, state |-> state] \in ItemRequests
  BY DEF ItemRequests
<1>5. \A n \in 1..6 : q[n].item \in ItemRequests \cup {NoItem}
  <2> TAKE n \in 1..6
  <2>1. n \in {1, 2, 3, 4, 5, 6}
    OBVIOUS
  <2>2. {"message-user", "message-agent"} \subseteq Shapes
        /\ {"started", "delta", "completed"} \subseteq ItemStates
    BY DEF Shapes, ItemStates
  <2> QED
    BY <1>1, <1>2, <1>4, <2>1, <2>2
<1>6. Plausible(q)
  BY <1>3, <1>5, JournalAssumption DEF Plausible
<1> QED
  BY <1>1, <1>6 DEF q

LEMMA PreviewStages ==
  ASSUME NEW s, NEW t, NEW items, NEW now, PreparePreview(s, t, items, now)
  PROVE  \E w, events :
           /\ w[0] = sequencer[s] /\ events = [n \in 1..6 |-> events[n]]
           /\ Stages(s, t, now, PreviewEvents(items[1], items[2]), w, events)
           /\ \E expected : call' = Call(s, events, w[6], expected)
<1> DEFINE requests == PreviewEvents(items[1], items[2])
           Sequence(session, n) == Prepare(s, session, t, requests[n].event, requests[n].item, now)
           q1 == Sequence(sequencer[s], 1)
           q2 == Sequence(q1.session, 2)
           q3 == Sequence(q2.session, 3)
           q4 == Sequence(q3.session, 4)
           q5 == Sequence(q4.session, 5)
           q6 == Sequence(q5.session, 6)
           staged == <<q1, q2, q3, q4, q5, q6>>
<1>1. /\ \A n \in 1..6 : staged[n].outcome = "ok"
      /\ call' = Call(s, [n \in 1..6 |-> staged[n].envelope], q6.session, q1.expected)
  BY DEF PreparePreview
<1>2. PICK r : r = requests
  OBVIOUS
<1>3. PICK x, p1, p2, p3, p4, p5, p6 :
        /\ x = sequencer[s] /\ p1 = q1 /\ p2 = q2 /\ p3 = q3 /\ p4 = q4 /\ p5 = q5 /\ p6 = q6
  OBVIOUS
<1>4. /\ p1 = Prepare(s, x, t, r[1].event, r[1].item, now)
      /\ p2 = Prepare(s, p1.session, t, r[2].event, r[2].item, now)
      /\ p3 = Prepare(s, p2.session, t, r[3].event, r[3].item, now)
      /\ p4 = Prepare(s, p3.session, t, r[4].event, r[4].item, now)
      /\ p5 = Prepare(s, p4.session, t, r[5].event, r[5].item, now)
      /\ p6 = Prepare(s, p5.session, t, r[6].event, r[6].item, now)
  <2> HIDE DEF requests
  <2>1. q1 = Prepare(s, x, t, r[1].event, r[1].item, now)
    BY <1>2, <1>3
  <2>2. q2 = Prepare(s, q1.session, t, r[2].event, r[2].item, now)
    BY <1>2
  <2>3. q3 = Prepare(s, q2.session, t, r[3].event, r[3].item, now)
    BY <1>2
  <2>4. q4 = Prepare(s, q3.session, t, r[4].event, r[4].item, now)
    BY <1>2
  <2>5. q5 = Prepare(s, q4.session, t, r[5].event, r[5].item, now)
    BY <1>2
  <2>6. q6 = Prepare(s, q5.session, t, r[6].event, r[6].item, now)
    BY <1>2
  <2> HIDE DEF q1, q2, q3, q4, q5, q6
  <2> QED
    BY <1>3, <2>1, <2>2, <2>3, <2>4, <2>5, <2>6
<1> HIDE DEF requests, q1, q2, q3, q4, q5, q6
<1>5. PICK z : z = <<p1, p2, p3, p4, p5, p6>>
  OBVIOUS
<1>6. /\ \A n \in 1..6 : z[n].outcome = "ok"
      /\ call' = Call(s, [n \in 1..6 |-> z[n].envelope], p6.session, p1.expected)
  BY <1>1, <1>3, <1>5
<1> HIDE DEF staged
<1> DEFINE w == [n \in 0..6 |-> IF n = 0 THEN x ELSE z[n].session]
           events == [n \in 1..6 |-> z[n].envelope]
<1>7. /\ w[0] = x /\ w[1] = p1.session /\ w[2] = p2.session /\ w[3] = p3.session
      /\ w[4] = p4.session /\ w[5] = p5.session /\ w[6] = p6.session
  BY <1>5
<1>8. /\ events[1] = p1.envelope /\ events[2] = p2.envelope /\ events[3] = p3.envelope
      /\ events[4] = p4.envelope /\ events[5] = p5.envelope /\ events[6] = p6.envelope
      /\ events = [n \in 1..6 |-> events[n]]
  BY <1>5
<1>9. call' = Call(s, events, w[6], p1.expected)
  BY <1>6, <1>7
<1> HIDE DEF w, events
<1>10. /\ p1.outcome = "ok" /\ p2.outcome = "ok" /\ p3.outcome = "ok"
       /\ p4.outcome = "ok" /\ p5.outcome = "ok" /\ p6.outcome = "ok"
  BY <1>5, <1>6
<1> DEFINE Staged(n) ==
      LET prepared == Prepare(s, w[n - 1], t, r[n].event, r[n].item, now)
      IN  prepared.outcome = "ok" /\ w[n] = prepared.session /\ events[n] = prepared.envelope
<1>11. ASSUME NEW n \in 1..6 PROVE Staged(n)
  <2>1. n \in {1, 2, 3, 4, 5, 6}
    OBVIOUS
  <2>0. 1 - 1 = 0 /\ 2 - 1 = 1 /\ 3 - 1 = 2 /\ 4 - 1 = 3 /\ 5 - 1 = 4 /\ 6 - 1 = 5
    OBVIOUS
  <2>2. Staged(1)
    BY <1>4, <1>7, <1>8, <1>10, <2>0
  <2>3. Staged(2)
    <3>1. PICK v : v = p1.session /\ v = w[2 - 1]
      BY <1>7, <2>0
    <3>2. p2 = Prepare(s, v, t, r[2].event, r[2].item, now)
      BY <1>4, <3>1
    <3> QED
      BY <1>7, <1>8, <1>10, <3>1, <3>2
  <2>4. Staged(3)
    <3>1. PICK v : v = p2.session /\ v = w[3 - 1]
      BY <1>7, <2>0
    <3>2. p3 = Prepare(s, v, t, r[3].event, r[3].item, now)
      BY <1>4, <3>1
    <3> QED
      BY <1>7, <1>8, <1>10, <3>1, <3>2
  <2>5. Staged(4)
    <3>1. PICK v : v = p3.session /\ v = w[4 - 1]
      BY <1>7, <2>0
    <3>2. p4 = Prepare(s, v, t, r[4].event, r[4].item, now)
      BY <1>4, <3>1
    <3> QED
      BY <1>7, <1>8, <1>10, <3>1, <3>2
  <2>6. Staged(5)
    <3>1. PICK v : v = p4.session /\ v = w[5 - 1]
      BY <1>7, <2>0
    <3>2. p5 = Prepare(s, v, t, r[5].event, r[5].item, now)
      BY <1>4, <3>1
    <3> QED
      BY <1>7, <1>8, <1>10, <3>1, <3>2
  <2>7. Staged(6)
    <3>1. PICK v : v = p5.session /\ v = w[6 - 1]
      BY <1>7, <2>0
    <3>2. p6 = Prepare(s, v, t, r[6].event, r[6].item, now)
      BY <1>4, <3>1
    <3> QED
      BY <1>7, <1>8, <1>10, <3>1, <3>2
  <2> HIDE DEF Staged
  <2> QED
    BY <2>1, <2>2, <2>3, <2>4, <2>5, <2>6, <2>7
<1>12. Stages(s, t, now, r, w, events)
  BY <1>11 DEF Stages
<1>13. r = PreviewEvents(items[1], items[2]) /\ w[0] = sequencer[s]
  BY <1>2, <1>3, <1>7 DEF requests
<1> QED
  BY <1>8, <1>9, <1>12, <1>13

LEMMA PreparePreviewReplays ==
  ASSUME ReplayInv, IInv', NEW s \in Sessions, NEW t \in Turns, NEW items \in PreviewItems,
         NEW now \in Clock, PreparePreview(s, t, items, now)
  PROVE  ReplayInv'
<1>1. PICK w, events, expected :
        /\ w[0] = sequencer[s] /\ events = [n \in 1..6 |-> events[n]]
        /\ Stages(s, t, now, PreviewEvents(items[1], items[2]), w, events)
        /\ call' = Call(s, events, w[6], expected)
  BY PreviewStages
<1>2. Idle /\ UNCHANGED <<durable, runtime, sequencer, log>>
  BY DEF PreparePreview
<1>3. IsSession(w[0])
  BY <1>1, <1>2 DEF ReplayInv, SequencerIsReached, Idle
<1>4. \A n \in 1..6 : /\ IsSession(w[n]) /\ ValidEnvelope(events[n])
                      /\ CanReplay(w[n - 1], events[n]) /\ w[n] = Replay(w[n - 1], events[n])
  <2>1. PICK requests : requests = PreviewEvents(items[1], items[2]) /\ Plausible(requests)
    BY PreviewIsPlausible
  <2>2. Stages(s, t, now, requests, w, events)
    BY <1>1, <2>1
  <2> QED
    BY <1>3, <2>1, <2>2, StagedReplays
<1>5. /\ call'.stage = "prepared" /\ call'.session = s /\ call'.events = events
      /\ call'.candidate = w[6] /\ call = NoCall
      /\ UNCHANGED <<cursor, rows, checkpoint, deletion, log, runtime, sequencer>>
  BY <1>1, <1>2 DEF Call, durable, Idle
<1>6. ASSUME NEW z \in Sessions
      PROVE  HistoryReplays(z)' /\ FloorIsReached(z)' /\ SequencerIsReached(z)'
  <2>1. HistoryReplays(z)' /\ FloorIsReached(z)'
    BY <1>5, JournalIsKept
  <2>2. SequencerIsReached(z)'
    BY <1>5 DEF ReplayInv, SequencerIsReached, NoCall
  <2> QED
    BY <2>1, <2>2
<1>7. events \in Seq(Envelopes) /\ Len(events) = 6
  <2>1. \A n \in 1..6 : events[n] \in Envelopes
    BY <1>4 DEF ValidEnvelope
  <2> QED
    BY <1>1, <2>1
<1>8. FoldLeft(ReplayStep, [ok |-> TRUE, session |-> w[0]], events)
        = [ok |-> TRUE, session |-> w[6]]
  <2>1. IsList(events)
    BY <1>7, EventsAreOfTurns
  <2>2. Runs("replay", w, w[0], events)
    BY <1>4, <1>7 DEF Runs, Takes, Moved
  <2>3. Fold("replay", Holder("replay", w[0]), events) = Holder("replay", w[6])
    BY <1>7, <2>1, <2>2, RunIsFold
  <2> QED
    BY <2>3, StateIsFold
<1>9. CallReplays'
  BY <1>1, <1>4, <1>5, <1>7, <1>8 DEF CallReplays
<1> QED
  BY <1>6, <1>9 DEF ReplayInv

(* What a restart rebuilds of a Session: its history's state, up to the    *)
(* Items of finished Turns.                                                *)
LEMMA RestoredIsReached ==
  ASSUME ReplayInv, NEW s \in Sessions
  PROVE  \E y : /\ Restored(s) = Holder("replay", y) /\ IsSession(y)
                /\ deletion[s] = "purged" => y = EmptySession
                /\ deletion[s] # "purged" => Same(y, StateAfter(log[s]).session)
<1>1. HistoryReplays(s) /\ FloorIsReached(s)
  BY DEF ReplayInv
<1>2. CASE deletion[s] = "purged"
  <2>1. rows[s] = <<>> /\ checkpoint[s] = EmptySession
    BY <1>1, <1>2 DEF FloorIsReached
  <2>2. Restored(s) = Holder("replay", EmptySession)
    BY <2>1, NothingReplays DEF Restored
  <2> QED
    BY <1>2, <2>2, EmptyIsSession
<1>3. CASE deletion[s] # "purged"
  <2>1. PICK p, f, c : p = log[s] /\ f = Floor(s) /\ c = checkpoint[s]
    OBVIOUS
  <2>2. p \in Seq(Envelopes) /\ f \in 0..Len(p) /\ rows[s] = SubSeq(p, f + 1, Len(p))
    BY <1>3, <2>1 DEF ReplayInv, IInv, TypeOK, HeadIsLast, Floor
  <2>3. /\ StateAfter(p).ok /\ ValidCheckpoint(c)
        /\ c = CheckpointOf(StateAfter(SubSeq(p, 1, f)).session)
    BY <1>1, <1>3, <2>1 DEF HistoryReplays, FloorIsReached
  <2>4. PICK r : /\ StateAfter(p) = Holder("replay", r[Len(p)])
                 /\ \A k \in 0..Len(p) - f : \E y :
                      /\ ReplayFrom(c, SubSeq(SubSeq(p, f + 1, Len(p)), 1, k)) = Holder("replay", y)
                      /\ IsSession(y) /\ Same(y, r[f + k])
    BY <2>2, <2>3, FloorReplays
  <2>5. PICK k : k = Len(p) - f
    OBVIOUS
  <2>6. k \in 0..Len(p) - f /\ f + k = Len(p)
    <3>1. Len(p) \in Nat
      BY <2>2
    <3> QED
      BY <2>2, <2>5, <3>1
  <2>7. PICK y : /\ ReplayFrom(c, SubSeq(SubSeq(p, f + 1, Len(p)), 1, k)) = Holder("replay", y)
                 /\ IsSession(y) /\ Same(y, r[f + k])
    BY <2>4, <2>6
  <2>8. SubSeq(rows[s], 1, k) = rows[s]
    <3>1. rows[s] \in Seq(Envelopes) /\ Len(rows[s]) = k
      BY <2>2, <2>5, SuffixFacts
    <3> QED
      BY <3>1
  <2>9. Restored(s) = Holder("replay", y)
    BY <2>1, <2>2, <2>7, <2>8 DEF Restored
  <2>10. StateAfter(p).session = r[Len(p)]
    BY <2>4, StateIsFold
  <2> QED
    BY <1>3, <2>1, <2>6, <2>7, <2>9, <2>10
<1> QED
  BY <1>2, <1>3

LEMMA RestartKeepsReplay ==
  ASSUME ReplayInv, IInv', Restart
  PROVE  ReplayInv'
<1>1. /\ UNCHANGED <<cursor, rows, checkpoint, deletion, log, call>> /\ call = NoCall
      /\ runtime' = "up" => \A s \in Sessions : sequencer'[s] = Restored(s).session
  BY DEF Restart, durable, ReplayInv, IInv, CallNeedsRuntime
<1>2. ASSUME NEW z \in Sessions
      PROVE  HistoryReplays(z)' /\ FloorIsReached(z)' /\ SequencerIsReached(z)'
  <2>1. HistoryReplays(z)' /\ FloorIsReached(z)'
    BY <1>1, JournalIsKept
  <2>2. PICK y : /\ Restored(z) = Holder("replay", y) /\ IsSession(y)
                 /\ deletion[z] # "purged" => Same(y, StateAfter(log[z]).session)
    BY RestoredIsReached
  <2>3. Restored(z).session = y
    BY <2>2, StateIsFold
  <2>4. runtime' = "up" => sequencer'[z] = y
    BY <1>1, <2>3
  <2>5. SequencerIsReached(z)'
    BY <1>1, <2>2, <2>4 DEF SequencerIsReached, NoCall
  <2> QED
    BY <2>1, <2>5
<1>3. CallReplays'
  BY <1>1 DEF CallReplays, NoCall
<1> QED
  BY <1>2, <1>3 DEF ReplayInv

LEMMA PruneKeepsReplay ==
  ASSUME ReplayInv, IInv', NEW s \in Sessions, NEW k \in 1..Len(rows[s]), Prune(s, k)
  PROVE  ReplayInv'
<1>0. PICK p, f, c, old : p = log[s] /\ f = Floor(s) /\ c = checkpoint[s] /\ old = rows[s]
  OBVIOUS
<1>1. /\ call = NoCall /\ deletion[s] = "none" /\ PruneIsPermitted(s, k)
      /\ cursor' = [cursor EXCEPT ![s].floor = old[k]]
      /\ checkpoint' = [checkpoint EXCEPT ![s] = CheckpointOf(PrunedState(s, k).session)]
      /\ rows' = [rows EXCEPT ![s] = SubSeq(old, k + 1, Len(old))]
      /\ UNCHANGED <<deletion, runtime, sequencer, call, log>>
  BY <1>0 DEF Prune, Writable, Idle
<1>2. /\ p \in Seq(Envelopes) /\ f \in 0..Len(p) /\ old = SubSeq(p, f + 1, Len(p))
      /\ IsHistory(p) /\ Len(p) \in Nat
  <2>1. log[s] \in Seq(Envelopes) /\ HeadIsLast(s) /\ IsHistory(log[s])
    BY <1>1 DEF ReplayInv, IInv, TypeOK
  <2> QED
    BY <1>0, <2>1 DEF HeadIsLast, Floor
<1>3. /\ StateAfter(p).ok /\ ValidCheckpoint(c)
      /\ c = CheckpointOf(StateAfter(SubSeq(p, 1, f)).session)
  BY <1>0, <1>1 DEF ReplayInv, HistoryReplays, FloorIsReached
<1>4. PICK r : /\ \A n \in 0..Len(p) : /\ IsSession(r[n])
                                        /\ StateAfter(SubSeq(p, 1, n)) = Holder("replay", r[n])
               /\ \A n \in 0..Len(p) - f : \E y :
                      /\ ReplayFrom(c, SubSeq(SubSeq(p, f + 1, Len(p)), 1, n)) = Holder("replay", y)
                      /\ IsSession(y) /\ Same(y, r[f + n])
  BY <1>2, <1>3, FloorReplays
<1>5. /\ old \in Seq(Envelopes) /\ Len(old) = Len(p) - f
      /\ \A n \in 1..Len(p) - f : old[n] = p[f + n]
  BY <1>2, SuffixFacts
<1>6. k \in 1..Len(p) - f /\ k \in 0..Len(p) - f /\ f + k \in 1..Len(p) /\ f + k \in 0..Len(p)
  BY <1>0, <1>2, <1>5
<1>7. old[k] = p[f + k] /\ p[f + k].sequence = f + k
  BY <1>2, <1>5, <1>6 DEF IsHistory
<1>8. PICK y : /\ ReplayFrom(c, SubSeq(old, 1, k)) = Holder("replay", y)
               /\ IsSession(y) /\ Same(y, r[f + k])
  BY <1>2, <1>4, <1>6
<1>9. CheckpointOf(y) = CheckpointOf(StateAfter(SubSeq(p, 1, f + k)).session)
  <2>1. IsSession(r[f + k]) /\ StateAfter(SubSeq(p, 1, f + k)) = Holder("replay", r[f + k])
    BY <1>4, <1>6
  <2>2. StateAfter(SubSeq(p, 1, f + k)).session = r[f + k]
    BY <2>1, StateIsFold
  <2> QED
    BY <1>8, <2>1, <2>2, SameCheckpoints
<1>10. PrunedState(s, k).session = y
  BY <1>0, <1>8, StateIsFold DEF PrunedState
<1>11. ValidCheckpoint(CheckpointOf(y))
  BY <1>1, <1>10 DEF PruneIsPermitted
<1>12. /\ checkpoint'[s] = CheckpointOf(y)
       /\ \A z \in Sessions \ {s} : checkpoint'[z] = checkpoint[z] /\ rows'[z] = rows[z]
  BY <1>1, <1>10 DEF ReplayInv, IInv, TypeOK
<1>13. cursor'[s].floor = p[f + k] /\ \A z \in Sessions \ {s} : cursor'[z] = cursor[z]
  <2>1. cursor \in [Sessions -> [head : Anchors, floor : Anchors]]
    BY DEF ReplayInv, IInv, TypeOK
  <2> QED
    BY <1>1, <1>7, <2>1
<1>14. FloorIsReached(s)'
  <2>1. Floor(s)' = f + k
    BY <1>7, <1>13 DEF Floor
  <2>2. checkpoint'[s] = CheckpointOf(StateAfter(SubSeq(log'[s], 1, f + k)).session)
    BY <1>0, <1>1, <1>9, <1>12
  <2>3. ValidCheckpoint(checkpoint[s])'
    BY <1>11, <1>12
  <2>4. f + k # 0 /\ cursor'[s].floor = log'[s][f + k] /\ deletion'[s] # "purged"
    BY <1>0, <1>1, <1>2, <1>6, <1>13
  <2> QED
    BY <2>1, <2>2, <2>3, <2>4 DEF FloorIsReached
<1>15. ASSUME NEW z \in Sessions PROVE HistoryReplays(z)' /\ SequencerIsReached(z)'
  BY <1>1 DEF ReplayInv, HistoryReplays, SequencerIsReached
<1>16. ASSUME NEW z \in Sessions \ {s} PROVE FloorIsReached(z)'
  <2>1. FloorIsReached(z)
    BY DEF ReplayInv
  <2> QED
    BY <1>1, <1>12, <1>13, <2>1 DEF FloorIsReached, Floor
<1>17. CallReplays'
  BY <1>1 DEF CallReplays, NoCall
<1> QED
  BY <1>14, <1>15, <1>16, <1>17 DEF ReplayInv

LEMMA SetDeletionKeepsReplay ==
  ASSUME ReplayInv, IInv', NEW s \in Sessions, ScheduleDeletion(s) \/ UndoDeletion(s)
  PROVE  ReplayInv'
<1>1. /\ UNCHANGED <<cursor, rows, checkpoint, runtime, sequencer, call, log>> /\ call = NoCall
      /\ \E from, to \in {"none", "pending"} :
            deletion[s] = from /\ deletion' = [deletion EXCEPT ![s] = to]
  BY DEF ScheduleDeletion, UndoDeletion, SetDeletion, Idle
<1>2. \A z \in Sessions : (deletion'[z] = "purged") <=> (deletion[z] = "purged")
  BY <1>1 DEF ReplayInv, IInv, TypeOK
<1>3. ASSUME NEW z \in Sessions
      PROVE  HistoryReplays(z)' /\ FloorIsReached(z)' /\ SequencerIsReached(z)'
  <2>1. HistoryReplays(z)' /\ FloorIsReached(z)'
    BY <1>1, <1>2, JournalIsKept
  <2>2. SequencerIsReached(z)'
    BY <1>1, <1>2 DEF ReplayInv, SequencerIsReached
  <2> QED
    BY <2>1, <2>2
<1>4. CallReplays'
  BY <1>1 DEF CallReplays, NoCall
<1> QED
  BY <1>3, <1>4 DEF ReplayInv

LEMMA PurgeKeepsReplay ==
  ASSUME ReplayInv, IInv', NEW s \in Sessions, Purge(s)
  PROVE  ReplayInv'
<1>1. /\ call = NoCall /\ deletion' = [deletion EXCEPT ![s] = "purged"]
      /\ cursor' = [cursor EXCEPT ![s] = [head |-> NoEvent, floor |-> NoEvent]]
      /\ rows' = [rows EXCEPT ![s] = <<>>]
      /\ checkpoint' = [checkpoint EXCEPT ![s] = EmptySession]
      /\ UNCHANGED <<runtime, sequencer, call, log>>
  BY DEF Purge, SetDeletion, Idle
<1>2. /\ deletion'[s] = "purged" /\ rows'[s] = <<>> /\ checkpoint'[s] = EmptySession
      /\ cursor'[s] = [head |-> NoEvent, floor |-> NoEvent]
      /\ \A z \in Sessions \ {s} : /\ deletion'[z] = deletion[z] /\ rows'[z] = rows[z]
                                   /\ checkpoint'[z] = checkpoint[z] /\ cursor'[z] = cursor[z]
  BY <1>1 DEF ReplayInv, IInv, TypeOK
<1>3. FloorIsReached(s)'
  BY <1>2, EmptyCheckpointIsValid DEF FloorIsReached
<1>4. ASSUME NEW z \in Sessions \ {s} PROVE FloorIsReached(z)'
  <2>1. FloorIsReached(z)
    BY DEF ReplayInv
  <2> QED
    BY <1>1, <1>2, <2>1 DEF FloorIsReached, Floor
<1>5. ASSUME NEW z \in Sessions PROVE HistoryReplays(z)' /\ SequencerIsReached(z)'
  <2>1. deletion'[z] # "purged" => deletion[z] # "purged"
    BY <1>2
  <2> QED
    BY <1>1, <2>1 DEF ReplayInv, HistoryReplays, SequencerIsReached
<1>6. CallReplays'
  BY <1>1 DEF CallReplays, NoCall
<1> QED
  BY <1>3, <1>4, <1>5, <1>6 DEF ReplayInv

LEMMA NextKeepsReplay == ReplayInv /\ [Next]_vars => ReplayInv'
<1> SUFFICES ASSUME ReplayInv, [Next]_vars PROVE ReplayInv'
  OBVIOUS
<1>0. IInv'
  BY NextKeepsIInv DEF ReplayInv
<1>1. ASSUME NEW s \in Sessions, NEW t \in Turns, NEW now \in Clock, NEW r \in Requests,
             PrepareEvent(s, t, r, now)
      PROVE  ReplayInv'
  BY <1>0, <1>1, PrepareEventReplays
<1>2. ASSUME NEW s \in Sessions, NEW t \in Turns, NEW now \in Clock, NEW items \in PreviewItems,
             PreparePreview(s, t, items, now)
      PROVE  ReplayInv'
  BY <1>0, <1>2, PreparePreviewReplays
<1>3. CASE AppendCall
  BY <1>0, <1>3, AppendKeepsReplay
<1>4. CASE AppendFails \/ EmitEvent \/ PreviewResponseFails
  <2>1. /\ call.stage # "appended" /\ UNCHANGED <<durable, runtime, sequencer, log>>
        /\ call'.stage \in {"none", "committed"}
    BY <1>4 DEF AppendFails, EmitEvent, PreviewResponseFails, NoCall, ReplayInv, IInv, CallIsRecord
  <2> QED
    BY <1>0, <2>1, EndKeepsReplay
<1>5. CASE CommitCall
  BY <1>0, <1>5, CommitKeepsReplay
<1>6. CASE Crash
  BY <1>0, <1>6, CrashKeepsReplay
<1>7. CASE Restart
  BY <1>0, <1>7, RestartKeepsReplay
<1>8. ASSUME NEW s \in Sessions, NEW k \in 1..Len(rows[s]), Prune(s, k) PROVE ReplayInv'
  BY <1>0, <1>8, PruneKeepsReplay
<1>9. ASSUME NEW s \in Sessions, ScheduleDeletion(s) \/ UndoDeletion(s) PROVE ReplayInv'
  BY <1>0, <1>9, SetDeletionKeepsReplay
<1>10. ASSUME NEW s \in Sessions, Purge(s) PROVE ReplayInv'
  BY <1>0, <1>10, PurgeKeepsReplay
<1>11. CASE UNCHANGED vars
  <2>1. UNCHANGED <<cursor, rows, checkpoint, snapshot, deletion, runtime, sequencer, call, log>>
    BY <1>11 DEF vars, durable
  <2>2. ASSUME NEW z \in Sessions
        PROVE  HistoryReplays(z)' /\ FloorIsReached(z)' /\ SequencerIsReached(z)'
    BY <2>1, JournalIsKept DEF ReplayInv, SequencerIsReached
  <2>3. CallReplays'
    BY <2>1 DEF ReplayInv, CallReplays
  <2> QED
    BY <1>0, <2>2, <2>3 DEF ReplayInv
<1> QED
  BY <1>1, <1>2, <1>3, <1>4, <1>5, <1>6, <1>7, <1>8, <1>9, <1>10, <1>11 DEF Next

(* Every history, checkpoint, sequencer and prepared call replays.         *)
THEOREM HistoriesReplay == Spec => []ReplayInv
<1>1. Init => ReplayInv
  BY InitReplays
<1>2. ReplayInv /\ [Next]_vars => ReplayInv'
  BY NextKeepsReplay
<1> QED
  BY <1>1, <1>2, PTL DEF Spec

(* What the state after a history says of its last event.                  *)
LastOf(p) == IF p = <<>> THEN NoEvent ELSE p[Len(p)]
IsAt(x, e) == x.lastEvent = e /\ x.sequence = e.sequence /\ x.timestamp = e.timestamp

LEMMA StateIsAtLast ==
  ASSUME NEW p \in Seq(Envelopes), StateAfter(p).ok
  PROVE  IsAt(StateAfter(p).session, LastOf(p)) /\ IsSession(StateAfter(p).session) /\ WellFormed(p)
<1>1. IsList(p) /\ OfTurns(p) /\ Len(p) \in Nat
  BY EventsAreOfTurns
<1>2. PICK r : /\ Runs("replay", r, EmptySession, p)
               /\ StateAfter(p) = Holder("replay", r[Len(p)])
  <2>1. Fold("replay", Holder("replay", EmptySession), p).ok
    BY StateIsFold
  <2> QED
    BY <1>1, <2>1, FoldIsRun, StateIsFold
<1>3. StateAfter(p).session = r[Len(p)] /\ IsSession(r[Len(p)])
  <2>1. StateAfter(p).session = r[Len(p)]
    BY <1>2, StateIsFold
  <2>2. \A n \in 0..Len(p) : IsSession(r[n])
    BY <1>1, <1>2, EmptyIsSession, RunKeepsSessions
  <2> QED
    BY <1>1, <2>1, <2>2
<1>4. CASE p = <<>>
  <2>1. r[Len(p)] = EmptySession
    BY <1>2, <1>4 DEF Runs
  <2> QED
    BY <1>1, <1>2, <1>3, <1>4, <2>1, RunIsWellFormed DEF LastOf, IsAt, EmptySession, NoEvent
<1>5. CASE p # <<>>
  <2>1. Len(p) \in 1..Len(p)
    BY <1>1, <1>5, NonEmptyFacts
  <2>2. IsAt(r[Len(p)], p[Len(p)])
    BY <1>1, <1>2, <2>1, EmptyIsSession, RunIsAtLast DEF IsAt
  <2> QED
    BY <1>1, <1>2, <1>3, <1>5, <2>2, RunIsWellFormed DEF LastOf
<1> QED
  BY <1>4, <1>5

(* In every durable history every Turn starts once, ends at most once, and *)
(* does not overlap another one, however often the process stopped.        *)
THEOREM HistoriesAreWellFormed == Spec => []TurnsAreWellFormed
<1>1. ReplayInv => TurnsAreWellFormed
  <2> SUFFICES ASSUME ReplayInv, NEW s \in Sessions PROVE WellFormed(log[s])
    BY DEF TurnsAreWellFormed, WellFormed
  <2>1. log[s] \in Seq(Envelopes) /\ StateAfter(log[s]).ok
    BY DEF ReplayInv, IInv, TypeOK, HistoryReplays
  <2> QED
    BY <2>1, StateIsAtLast
<1> QED
  BY <1>1, HistoriesReplay, PTL

(* Times do not go back along a history.                                   *)
LEMMA TimesGrow ==
  ASSUME NEW p \in Seq(Envelopes), IsHistory(p), NEW f \in 1..Len(p)
  PROVE  p[f].timestamp <= p[Len(p)].timestamp
<1>1. Len(p) \in Nat /\ \A n \in 1..Len(p) : p[n].timestamp \in Nat
  <2>1. \A e \in Envelopes : e.timestamp \in Nat
    BY SequencerAssumption DEF Envelopes
  <2> QED
    BY <2>1
<1>2. PICK N : N = Len(p) - f /\ N \in Nat
  BY <1>1
<1> DEFINE good == {n \in 0..N : p[f].timestamp <= p[f + n].timestamp}
<1>3. 0 \in good
  BY <1>1, <1>2
<1>4. ASSUME NEW n \in 0..N - 1, n \in good PROVE n + 1 \in good
  <2>1. /\ f + n \in 1..Len(p) /\ f + (n + 1) \in 2..Len(p) /\ (f + (n + 1)) - 1 = f + n
        /\ n + 1 \in 0..N /\ f + (n + 1) \in 1..Len(p)
    BY <1>1, <1>2
  <2>2. PICK a, b, c : a = p[f].timestamp /\ b = p[f + n].timestamp /\ c = p[f + (n + 1)].timestamp
    OBVIOUS
  <2>3. a \in Nat /\ b \in Nat /\ c \in Nat /\ a <= b
    BY <1>1, <1>4, <2>1, <2>2
  <2>4. b <= c
    BY <2>1, <2>2 DEF IsHistory
  <2>5. a <= c
    BY <2>3, <2>4
  <2> QED
    BY <2>1, <2>2, <2>5
<1> HIDE DEF good
<1>5. N \in good
  <2>1. 0..N \subseteq good
    BY <1>2, <1>3, <1>4, CountUp
  <2> QED
    BY <1>2, <2>1
<1>6. f + N = Len(p)
  BY <1>1, <1>2
<1> QED
  BY <1>5, <1>6 DEF good

(* The cursor, the checkpoint and the rows of every Session agree, and a   *)
(* replay of the rows reaches the head.                                    *)
LEMMA JournalIsConsistent ==
  ASSUME ReplayInv, NEW s \in Sessions
  PROVE  CursorIsValid(s) /\ RestoreCompletes(s)
<1>1. HistoryReplays(s) /\ FloorIsReached(s)
  BY DEF ReplayInv
<1>2. CASE deletion[s] = "purged"
  <2>1. /\ rows[s] = <<>> /\ checkpoint[s] = EmptySession
        /\ cursor[s] = [head |-> NoEvent, floor |-> NoEvent]
    BY <1>1, <1>2 DEF FloorIsReached
  <2>2. CursorIsValid(s)
    BY <2>1, EmptyCheckpointIsValid DEF CursorIsValid, NotAfter, EmptySession, NoEvent
  <2>3. Restored(s) = Holder("replay", EmptySession)
    BY <1>2, RestoredIsReached
  <2>4. Restored(s).ok /\ Restored(s).session = EmptySession
    BY <2>3, StateIsFold
  <2>5. RestoreCompletes(s)
    BY <2>1, <2>4 DEF RestoreCompletes, EmptySession, NoEvent
  <2> QED
    BY <2>2, <2>5
<1>3. CASE deletion[s] # "purged"
  <2>1. PICK p, f, c : p = log[s] /\ f = Floor(s) /\ c = checkpoint[s]
    OBVIOUS
  <2>2. /\ p \in Seq(Envelopes) /\ f \in 0..Len(p) /\ rows[s] = SubSeq(p, f + 1, Len(p))
        /\ cursor[s].head = LastOf(p) /\ IsHistory(p)
    <3>1. log[s] \in Seq(Envelopes) /\ HeadIsLast(s) /\ IsHistory(log[s])
      BY <1>3 DEF ReplayInv, IInv, TypeOK
    <3> QED
      BY <2>1, <3>1 DEF HeadIsLast, Floor, LastOf
  <2>3. Len(p) \in Nat /\ (p = <<>> <=> Len(p) = 0)
    BY <2>2, NonEmptyFacts
  <2>4. /\ StateAfter(p).ok /\ ValidCheckpoint(c)
        /\ c = CheckpointOf(StateAfter(SubSeq(p, 1, f)).session)
        /\ cursor[s].floor = IF f = 0 THEN NoEvent ELSE p[f]
    BY <1>1, <1>3, <2>1 DEF HistoryReplays, FloorIsReached
  <2>5. PICK b : b = SubSeq(p, 1, f)
    OBVIOUS
  <2>6. /\ b \in Seq(Envelopes) /\ Len(b) = f /\ (f # 0 => b[Len(b)] = p[f])
        /\ (b = <<>> <=> f = 0)
    BY <2>2, <2>3, <2>5
  <2>7. StateAfter(b).ok
    <3>1. StateAfter(b) = Holder("replay", Held("replay", StateAfter(b)))
      <4>1. PICK r : \A n \in 0..Len(p) : /\ IsSession(r[n])
                                           /\ StateAfter(SubSeq(p, 1, n)) = Holder("replay", r[n])
        BY <2>2, <2>4, FloorReplays
      <4>2. StateAfter(b) = Holder("replay", r[f])
        BY <2>2, <2>5, <4>1
      <4> QED
        BY <4>2, HolderFacts
    <3> QED
      BY <3>1, HolderFacts
  <2>8. PICK floor, head : floor = LastOf(b) /\ head = LastOf(p)
    OBVIOUS
  <2>9. IsAt(c, floor) /\ cursor[s].floor = floor /\ cursor[s].head = head
    <3>1. PICK z : z = StateAfter(b).session /\ IsAt(z, floor) /\ IsSession(z)
      BY <2>6, <2>7, <2>8, StateIsAtLast
    <3>2. IsAt(c, floor)
      <4>1. Same(CheckpointOf(z), z) /\ c = CheckpointOf(z)
        BY <2>4, <2>5, <3>1, CheckpointIsSame
      <4> QED
        BY <3>1, <4>1 DEF Same, IsAt
    <3>3. cursor[s].floor = floor
      BY <2>4, <2>6, <2>8 DEF LastOf
    <3> QED
      BY <2>2, <2>8, <3>2, <3>3
  <2>10. floor.sequence = f /\ head.sequence = Len(p)
    BY <2>2, <2>3, <2>6, <2>8 DEF LastOf, NoEvent, IsHistory
  <2>11. floor.timestamp <= head.timestamp
    <3>1. CASE f = 0
      <4>1. floor.timestamp = 0 /\ (head = NoEvent \/ head \in Envelopes)
        BY <2>2, <2>3, <2>6, <2>8, <3>1 DEF LastOf, NoEvent
      <4>2. head.timestamp >= 0
        BY <4>1, SequencerAssumption DEF NoEvent, Envelopes
      <4> QED
        BY <4>1, <4>2
    <3>2. CASE f # 0
      <4>1. floor = p[f] /\ head = p[Len(p)] /\ f \in 1..Len(p)
        BY <2>2, <2>3, <2>6, <2>8, <3>2 DEF LastOf
      <4> QED
        BY <2>2, <4>1, TimesGrow
    <3> QED
      BY <3>1, <3>2
  <2>12. PICK old : old = rows[s]
    OBVIOUS
  <2>13. /\ Len(old) = Len(p) - f /\ (old = <<>> <=> Len(p) = f)
         /\ old # <<>> => old[1].sequence = f + 1 /\ old[Len(old)] = head
    <3>1. /\ old \in Seq(Envelopes) /\ Len(old) = Len(p) - f
          /\ \A n \in 1..Len(p) - f : old[n] = p[f + n]
      BY <2>2, <2>12, SuffixFacts
    <3>2. old = <<>> <=> Len(p) = f
      BY <2>2, <2>3, <3>1, NonEmptyFacts
    <3>3. ASSUME old # <<>> PROVE old[1].sequence = f + 1 /\ old[Len(old)] = head
      <4>1. /\ 1 \in 1..Len(p) - f /\ Len(p) - f \in 1..Len(p) - f /\ f + 1 \in 1..Len(p)
            /\ f + (Len(p) - f) = Len(p) /\ p # <<>>
        BY <2>2, <2>3, <3>1, <3>2, <3>3
      <4>2. old[1] = p[f + 1] /\ old[Len(p) - f] = p[Len(p)]
        BY <3>1, <4>1
      <4> QED
        BY <2>2, <2>8, <3>1, <4>1, <4>2 DEF IsHistory, LastOf
    <3> QED
      BY <3>1, <3>2, <3>3
  <2>14. old = <<>> => head = floor
    BY <2>2, <2>5, <2>6, <2>8, <2>13, <2>3 DEF LastOf
  <2>15. CursorIsValid(s)
    <3>1. f <= Len(p)
      BY <2>2, <2>3
    <3>2. NotAfter(floor, head)
      BY <2>10, <2>11, <3>1 DEF NotAfter
    <3>3. /\ cursor[s].head = head /\ cursor[s].floor = floor /\ checkpoint[s] = c /\ rows[s] = old
      BY <2>1, <2>9, <2>12
    <3> QED
      BY <2>4, <2>9, <2>10, <2>13, <2>14, <3>2, <3>3 DEF CursorIsValid, IsAt
  <2>16. PICK y : Restored(s) = Holder("replay", y) /\ Same(y, StateAfter(p).session)
    BY <1>3, <2>1, RestoredIsReached
  <2>17. Restored(s).ok /\ Restored(s).session = y
    BY <2>16, StateIsFold
  <2>18. IsAt(y, head)
    <3>1. IsAt(StateAfter(p).session, head)
      BY <2>2, <2>4, <2>8, StateIsAtLast
    <3> QED
      BY <2>16, <3>1 DEF Same, IsAt
  <2>19. RestoreCompletes(s)
    BY <2>9, <2>17, <2>18 DEF RestoreCompletes, IsAt
  <2> QED
    BY <2>15, <2>19
<1> QED
  BY <1>2, <1>3

(* The journal's own checks refuse nothing the sequencer prepared, but the *)
(* call that uses the largest number there is.                             *)
THEOREM PreparedEventsAlwaysFit == Spec => []PreparedEventsFit
<1>1. ReplayInv => PreparedEventsFit
  <2> SUFFICES ASSUME ReplayInv, call.stage = "prepared", Writable(call.session)
               PROVE  EventsFit(call.session, call.events) <=> LastNumber(call.events) # MaxSafe
    BY DEF PreparedEventsFit
  <2>1. PICK s, x, p, q, head : /\ s = call.session /\ x = sequencer[s]
                                /\ p = log[s] /\ q = call.events
                                /\ head = cursor[s].head
    OBVIOUS
  <2>2. s \in Sessions /\ deletion[s] = "none" /\ runtime = "up" /\ p \in Seq(Envelopes)
    BY <2>1 DEF ReplayInv, IInv, TypeOK, CallNeedsRuntime, Writable, NoCall
  <2>3. /\ q \in Seq(Envelopes) /\ \A n \in 1..Len(q) : ValidEnvelope(q[n])
        /\ FoldLeft(ReplayStep, [ok |-> TRUE, session |-> x], q)
             = [ok |-> TRUE, session |-> call.candidate]
    BY <2>1 DEF ReplayInv, CallReplays
  <2>4. IsSession(x) /\ IsAt(x, head)
    <3>1. IsSession(x) /\ Same(x, StateAfter(p).session) /\ StateAfter(p).ok
      BY <2>1, <2>2 DEF ReplayInv, SequencerIsReached, HistoryReplays
    <3>2. head = LastOf(p)
      BY <2>1, <2>2 DEF ReplayInv, IInv, HeadIsLast, LastOf
    <3> QED
      BY <2>2, <3>1, <3>2, StateIsAtLast DEF Same, IsAt
  <2>5. IsList(q) /\ OfTurns(q) /\ Len(q) \in Nat
    BY <2>3, EventsAreOfTurns
  <2>6. PICK w : Runs("replay", w, x, q)
    <3>1. Fold("replay", Holder("replay", x), q).ok
      BY <2>3, StateIsFold
    <3> QED
      BY <2>5, <3>1, FoldIsRun
  <2>7. \A n \in 1..Len(q) : /\ IsAt(w[n], q[n]) /\ q[n].sequence = w[n - 1].sequence + 1
                             /\ q[n].timestamp >= w[n - 1].timestamp
    BY <2>4, <2>5, <2>6, RunIsAtLast DEF IsAt
  <2>8. w[0] = x
    BY <2>6 DEF Runs
  <2>9. \A n \in 0..Len(q) : w[n].sequence = head.sequence + n
    <3>1. PICK h : h = head.sequence /\ h \in Nat
      BY <2>4, SequencerAssumption DEF IsAt, IsSession, SessionFits
    <3> DEFINE good == {n \in 0..Len(q) : w[n].sequence = h + n}
    <3>2. 0 \in good
      BY <2>4, <2>5, <2>8, <3>1 DEF IsAt
    <3>3. ASSUME NEW n \in 0..Len(q) - 1, n \in good PROVE n + 1 \in good
      <4>1. n + 1 \in 1..Len(q) /\ (n + 1) - 1 = n /\ n + 1 \in 0..Len(q)
        BY <2>5
      <4>2. w[n + 1].sequence = w[n].sequence + 1
        BY <2>7, <4>1 DEF IsAt
      <4>3. w[n].sequence = h + n /\ (h + n) + 1 = h + (n + 1)
        BY <3>1, <3>3
      <4> QED
        BY <4>1, <4>2, <4>3
    <3> HIDE DEF good
    <3>4. 0..Len(q) \subseteq good
      BY <2>5, <3>2, <3>3, CountUp
    <3> QED
      BY <3>1, <3>4 DEF good
  <2>10. ASSUME NEW n \in 1..Len(q)
         PROVE  /\ q[n].sequence = head.sequence + n
                /\ q[n].timestamp >= (IF n = 1 THEN head ELSE q[n - 1]).timestamp
    <3>1. n \in 0..Len(q) /\ n - 1 \in 0..Len(q) /\ (n # 1 => n - 1 \in 1..Len(q))
      BY <2>5
    <3>2. q[n].sequence = head.sequence + n
      BY <2>7, <2>9, <3>1 DEF IsAt
    <3>3. CASE n = 1
      <4>1. n - 1 = 0 /\ w[n - 1] = x
        BY <2>8, <3>3
      <4> QED
        BY <2>4, <2>7, <3>2, <3>3, <4>1 DEF IsAt
    <3>4. CASE n # 1
      <4>1. w[n - 1].timestamp = q[n - 1].timestamp
        BY <2>7, <3>1, <3>4 DEF IsAt
      <4> QED
        BY <2>7, <3>2, <3>4, <4>1
    <3> QED
      BY <3>3, <3>4
  <2>11. FollowsHead(s, q)
    BY <2>1, <2>10 DEF FollowsHead
  <2>12. CursorIsValid(s)
    BY <2>2, JournalIsConsistent
  <2>13. CursorMayPass(q) <=> LastNumber(q) # MaxSafe
    <3>1. PICK h, len : h = head.sequence /\ h \in Nat /\ len = Len(q) /\ len \in Nat /\ len >= 1
      BY <2>1, <2>4, <2>5, SequencerAssumption
         DEF IsAt, IsSession, SessionFits, ReplayInv, IInv, CallIsPrepared, IsSequence
    <3>2. \A n \in 1..len : q[n].sequence = h + n /\ q[n].sequence <= MaxSafe
      <4>1. \A n \in 1..len : q[n] \in Envelopes
        BY <2>3, <3>1
      <4>2. \A e \in Envelopes : e.sequence <= MaxSafe
        BY SequencerAssumption DEF Envelopes
      <4> QED
        BY <2>10, <3>1, <4>1, <4>2
    <3>3. len \in 1..len /\ LastNumber(q) = h + len /\ h + len <= MaxSafe
      BY <3>1, <3>2 DEF LastNumber
    <3>4. CursorMayPass(q) <=> \A n \in 1..len : h + n + 1 <= MaxSafe
      BY <3>1, <3>2 DEF CursorMayPass
    <3>5. MaxSafe \in Nat
      BY SequencerAssumption
    <3>6. (\A n \in 1..len : h + n + 1 <= MaxSafe) <=> h + len + 1 <= MaxSafe
      BY <3>1, <3>5
    <3> QED
      BY <3>1, <3>3, <3>4, <3>5, <3>6
  <2>14. EventsFit(s, q) <=> CursorMayPass(q)
    BY <2>3, <2>11, <2>12 DEF EventsFit
  <2> QED
    BY <2>1, <2>13, <2>14
<1> QED
  BY <1>1, HistoriesReplay, PTL

(* The Items preview Turns record for the user, and sequences of events in *)
(* which each of them is followed by the end of its Turn.                  *)
IsUsers(e) == \E items \in PreviewItems : e.item # NoItem /\ e.item.id = items[1]
Ended(p) ==
  \A m \in 1..Len(p) : IsUsers(p[m]) =>
    \E n \in (m + 1)..Len(p) : p[n].turn = p[m].turn /\ IsTerminal(p[n].event)
PreviewsEnd ==
  /\ \A s \in Sessions : Ended(log[s])
  /\ call.stage = "prepared" => call.events \in Seq(Envelopes) /\ Ended(call.events)

LEMMA EndedTogether ==
  ASSUME NEW p \in Seq(Envelopes), NEW q \in Seq(Envelopes), Ended(p), Ended(q)
  PROVE  Ended(p \o q)
<1>1. Len(p) \in Nat /\ Len(q) \in Nat
  OBVIOUS
<1>2. PICK r : r = p \o q
  OBVIOUS
<1>3. /\ Len(r) = Len(p) + Len(q)
      /\ \A n \in 1..Len(p) : r[n] = p[n]
      /\ \A n \in 1..Len(q) : r[Len(p) + n] = q[n]
  BY <1>2, ConcatFacts
<1>4. ASSUME NEW m \in 1..Len(r), IsUsers(r[m])
      PROVE  \E n \in (m + 1)..Len(r) : r[n].turn = r[m].turn /\ IsTerminal(r[n].event)
  <2>1. CASE m \in 1..Len(p)
    <3>1. PICK n \in (m + 1)..Len(p) : p[n].turn = p[m].turn /\ IsTerminal(p[n].event)
      BY <1>3, <1>4, <2>1 DEF Ended
    <3>2. n \in 1..Len(p) /\ n \in (m + 1)..Len(r)
      BY <1>1, <1>3, <2>1
    <3> QED
      BY <1>3, <2>1, <3>1, <3>2
  <2>2. CASE m \notin 1..Len(p)
    <3>1. PICK k : k = m - Len(p) /\ k \in 1..Len(q) /\ m = Len(p) + k
      BY <1>1, <1>3, <2>2
    <3>2. r[m] = q[k]
      BY <1>3, <3>1
    <3>3. PICK n \in (k + 1)..Len(q) : q[n].turn = q[k].turn /\ IsTerminal(q[n].event)
      BY <1>4, <3>1, <3>2 DEF Ended
    <3>4. n \in 1..Len(q) /\ Len(p) + n \in (m + 1)..Len(r)
      BY <1>1, <1>3, <3>1
    <3> QED
      BY <1>3, <3>2, <3>3, <3>4
  <2> QED
    BY <2>1, <2>2
<1> QED
  BY <1>2, <1>4 DEF Ended

LEMMA PreviewIsEnded ==
  ASSUME NEW s \in Sessions, NEW t \in Turns, NEW items \in PreviewItems, NEW now \in Clock,
         NEW w, NEW events, events = [n \in 1..6 |-> events[n]],
         Stages(s, t, now, PreviewEvents(items[1], items[2]), w, events)
  PROVE  Ended(events)
<1>1. PICK q : q = PreviewEvents(items[1], items[2])
  OBVIOUS
<1>2. \A n \in 1..6 : /\ events[n].turn = t
                     /\ events[n].event = q[n].event /\ events[n].item = q[n].item
  <2> TAKE n \in 1..6
  <2>1. PICK x, a : x = w[n - 1] /\ a = q[n]
    OBVIOUS
  <2>2. /\ Prepare(s, x, t, a.event, a.item, now).outcome = "ok"
        /\ events[n] = Prepare(s, x, t, a.event, a.item, now).envelope
    BY <1>1, <2>1 DEF Stages
  <2> QED
    BY <2>1, <2>2, PreparedCarries
<1>3. q[6].event = "turn.completed" /\ q[6].item = NoItem
  BY <1>1 DEF PreviewEvents
<1>4. Len(events) = 6
  OBVIOUS
<1>5. IsTerminal(events[6].event) /\ events[6].item = NoItem
  <2>1. events[6].event = "turn.completed" /\ events[6].item = NoItem
    BY <1>2, <1>3
  <2> QED
    BY <2>1, TerminalEvents DEF IsTerminal
<1>6. ASSUME NEW m \in 1..6, IsUsers(events[m])
      PROVE  \E n \in (m + 1)..6 : events[n].turn = events[m].turn /\ IsTerminal(events[n].event)
  <2>1. m # 6
    BY <1>5, <1>6 DEF IsUsers
  <2>2. 6 \in (m + 1)..6
    BY <2>1
  <2> QED
    BY <1>2, <1>5, <2>2
<1> QED
  BY <1>4, <1>6 DEF Ended

LEMMA StepsEndPreviews == ReplayInv /\ ReplayInv' /\ PreviewsEnd /\ [Next]_vars => PreviewsEnd'
<1> SUFFICES ASSUME ReplayInv, ReplayInv', PreviewsEnd, [Next]_vars PROVE PreviewsEnd'
  OBVIOUS
<1>1. ASSUME NEW s \in Sessions, NEW t \in Turns, NEW now \in Clock, NEW r \in Requests,
             PrepareEvent(s, t, r, now)
      PROVE  PreviewsEnd'
  <2>1. PICK x, e : /\ x = sequencer[s] /\ e = Prepare(s, x, t, r.event, r.item, now).envelope
                    /\ Prepare(s, x, t, r.event, r.item, now).outcome = "ok"
    BY <1>1 DEF PrepareEvent
  <2>2. log' = log /\ call'.events = <<e>> /\ call'.stage = "prepared"
    BY <1>1, <2>1 DEF PrepareEvent, Call
  <2>3. e.item = r.item
    BY <2>1, PreparedCarries
  <2>4. ~IsUsers(e)
    BY <2>3, JournalAssumption DEF IsUsers
  <2>5. Len(<<e>>) = 1 /\ <<e>>[1] = e
    OBVIOUS
  <2>6. Ended(<<e>>)
    BY <2>4, <2>5 DEF Ended
  <2>7. call'.events \in Seq(Envelopes)
    BY <2>2 DEF ReplayInv, CallReplays
  <2> QED
    BY <2>2, <2>6, <2>7 DEF PreviewsEnd
<1>2. ASSUME NEW s \in Sessions, NEW t \in Turns, NEW now \in Clock, NEW items \in PreviewItems,
             PreparePreview(s, t, items, now)
      PROVE  PreviewsEnd'
  <2>1. PICK w, events, expected :
          /\ events = [n \in 1..6 |-> events[n]]
          /\ Stages(s, t, now, PreviewEvents(items[1], items[2]), w, events)
          /\ call' = Call(s, events, w[6], expected)
    BY <1>2, PreviewStages
  <2>2. log' = log /\ call'.events = events /\ call'.stage = "prepared"
    <3>1. log' = log
      BY <1>2 DEF PreparePreview
    <3>2. call'.events = events /\ call'.stage = "prepared"
      BY <2>1 DEF Call
    <3> QED
      BY <3>1, <3>2
  <2>3. Ended(events)
    BY <2>1, PreviewIsEnded
  <2>4. call'.events \in Seq(Envelopes)
    BY <2>2 DEF ReplayInv, CallReplays
  <2> QED
    BY <2>2, <2>3, <2>4 DEF PreviewsEnd
<1>3. CASE AppendCall
  <2>1. PICK s : s = call.session /\ s \in Sessions /\ call.stage = "prepared"
    BY <1>3 DEF AppendCall, ReplayInv, IInv, TypeOK
  <2>2. /\ log' = [log EXCEPT ![s] = @ \o call.events] /\ log \in [Sessions -> Seq(Envelopes)]
        /\ call' = [call EXCEPT !.stage = "appended"]
    BY <1>3, <2>1 DEF AppendCall, ReplayInv, IInv, TypeOK
  <2>3. call'.stage = "appended"
    BY <2>1, <2>2 DEF ReplayInv, IInv, CallIsRecord
  <2>4. Ended(log[s] \o call.events)
    BY <2>1, <2>2, EndedTogether DEF PreviewsEnd
  <2>5. \A z \in Sessions : Ended(log'[z])
    BY <2>1, <2>2, <2>4 DEF PreviewsEnd
  <2> QED
    BY <2>3, <2>5 DEF PreviewsEnd
<1>4. CASE UNCHANGED log /\ (UNCHANGED call \/ call'.stage # "prepared")
  BY <1>4 DEF PreviewsEnd
<1>5. CASE AppendFails \/ PreviewResponseFails \/ Crash
  BY <1>4, <1>5 DEF AppendFails, PreviewResponseFails, Crash, NoCall
<1>6. CASE CommitCall \/ EmitEvent
  <2>1. UNCHANGED log /\ call'.stage \in {"none", "committed"}
    BY <1>6 DEF CommitCall, EmitEvent, ReplayInv, IInv, CallIsRecord, NoCall
  <2> QED
    BY <1>4, <2>1
<1>7. CASE Restart
  BY <1>4, <1>7 DEF Restart
<1>8. ASSUME NEW s \in Sessions, \/ \E k \in 1..Len(rows[s]) : Prune(s, k)
                                 \/ ScheduleDeletion(s) \/ UndoDeletion(s) \/ Purge(s)
      PROVE  PreviewsEnd'
  BY <1>4, <1>8 DEF Prune, ScheduleDeletion, UndoDeletion, Purge
<1>9. CASE UNCHANGED vars
  BY <1>4, <1>9 DEF vars
<1> QED
  BY <1>1, <1>2, <1>3, <1>5, <1>6, <1>7, <1>8, <1>9 DEF Next

(* A preview Turn is in the durable history with all of its six events or  *)
(* not at all (what follows the user's message is there with it).          *)
THEOREM PreviewTurnsStayWhole == Spec => []PreviewTurnsAreWhole
<1>1. Init => PreviewsEnd
  BY DEF Init, PreviewsEnd, Ended, NoCall
<1>2. ReplayInv /\ ReplayInv' /\ PreviewsEnd /\ [Next]_vars => PreviewsEnd'
  BY StepsEndPreviews
<1>3. PreviewsEnd => PreviewTurnsAreWhole
  BY DEF PreviewsEnd, Ended, IsUsers, PreviewTurnsAreWhole
<1> QED
  BY <1>1, <1>2, <1>3, HistoriesReplay, PTL DEF Spec

-----------------------------------------------------------------------------
(* Sums, and the least number of events behind a state.                    *)
LEMMA SumsAreNatural ==
  ASSUME NEW S, IsFiniteSet(S), NEW w, \A i \in S : w[i] \in Nat,
         NEW g, FoldsTo(g, S, "sum", 0, w)
  PROVE  \A s \in SUBSET S : g[s] \in Nat
<1> DEFINE bad == {s \in SUBSET S : g[s] \notin Nat}
<1>1. SUFFICES ASSUME bad # {} PROVE FALSE
  OBVIOUS
<1>2. PICK s \in bad : \A u \in SUBSET s : u # s => u \notin bad
  <2>1. bad \subseteq SUBSET S
    OBVIOUS
  <2> HIDE DEF bad
  <2> QED
    BY <1>1, <2>1, LeastSubset
<1> DEFINE x == Choice("sum", s)
<1>3. s # {} /\ s \in SUBSET S
  BY DEF FoldsTo
<1>4. x \in s
  BY <1>3, ChoiceFits DEF MayFold
<1>5. g[s] = w[x] + g[s \ {x}]
  BY <1>3 DEF FoldsTo, FoldStep
<1>6. g[s \ {x}] \in Nat
  BY <1>2, <1>3, <1>4
<1> HIDE DEF x
<1>7. w[x] \in Nat
  BY <1>3, <1>4
<1> QED
  BY <1>2, <1>5, <1>6, <1>7

LEMMA SumIsNatural ==
  ASSUME NEW w, IsFiniteSet(DOMAIN w), \A i \in DOMAIN w : w[i] \in Nat
  PROVE  SumFunction(w) \in Nat
<1>1. PICK g : FoldsTo(g, DOMAIN w, "sum", 0, w) /\ SumFunction(w) = g[DOMAIN w]
  BY SumIsFold
<1>2. PICK S : S = DOMAIN w
  OBVIOUS
<1>3. \A s \in SUBSET S : g[s] \in Nat
  BY <1>1, <1>2, SumsAreNatural
<1> QED
  BY <1>1, <1>2, <1>3

(* One summand that grows by at most d.                                    *)
LEMMA SumGrows ==
  ASSUME NEW w, NEW z, IsFiniteSet(DOMAIN w), DOMAIN z = DOMAIN w,
         NEW a \in DOMAIN w, NEW d \in Nat,
         \A i \in DOMAIN w : w[i] \in Nat /\ z[i] \in Nat,
         \A i \in DOMAIN w : i # a => z[i] = w[i],
         z[a] <= w[a] + d
  PROVE  SumFunction(z) <= SumFunction(w) + d
<1>1. PICK S : S = DOMAIN w
  OBVIOUS
<1>2. PICK g : FoldsTo(g, S, "sum", 0, w) /\ SumFunction(w) = g[S]
  BY <1>1, SumIsFold
<1>3. PICK h : FoldsTo(h, S, "sum", 0, z) /\ SumFunction(z) = h[S]
  BY <1>1, SumIsFold
<1>4. \A s \in SUBSET S : g[s] \in Nat
  BY <1>1, <1>2, SumsAreNatural
<1>5. \A s \in SUBSET S : h[s] \in Nat
  BY <1>1, <1>3, SumsAreNatural
<1> DEFINE Ok(s) == h[s] <= g[s] + d /\ (a \notin s => h[s] = g[s])
           bad == {s \in SUBSET S : ~Ok(s)}
<1>6. SUFFICES ASSUME bad # {} PROVE FALSE
  BY <1>2, <1>3
<1>7. PICK s \in bad : \A u \in SUBSET s : u # s => u \notin bad
  <2>1. bad \subseteq SUBSET S
    OBVIOUS
  <2> HIDE DEF bad
  <2> QED
    BY <1>1, <1>6, <2>1, LeastSubset
<1>8. s # {} /\ s \in SUBSET S
  <2>1. SUFFICES ASSUME s = {} PROVE FALSE
    OBVIOUS
  <2>2. h[s] = 0 /\ g[s] = 0
    BY <1>2, <1>3, <2>1 DEF FoldsTo
  <2>3. Ok(s)
    BY <2>2
  <2> QED
    BY <2>3
<1> DEFINE x == Choice("sum", s)
<1>9. x \in s
  BY <1>1, <1>8, ChoiceFits DEF MayFold
<1>10. g[s] = w[x] + g[s \ {x}] /\ h[s] = z[x] + h[s \ {x}]
  BY <1>2, <1>3, <1>8 DEF FoldsTo, FoldStep
<1>11. s \ {x} \in SUBSET s /\ s \ {x} # s /\ s \ {x} \in SUBSET S
  BY <1>8, <1>9
<1>12. PICK u : u = s \ {x}
  OBVIOUS
<1>13. Ok(u)
  BY <1>7, <1>11, <1>12
<1> HIDE DEF x
<1>14. /\ g[u] \in Nat /\ h[u] \in Nat /\ w[x] \in Nat /\ z[x] \in Nat
       /\ g[s] = w[x] + g[u] /\ h[s] = z[x] + h[u]
  BY <1>1, <1>4, <1>5, <1>8, <1>9, <1>10, <1>11, <1>12
<1>15. Ok(s)
  <2>1. CASE x = a
    <3>1. a \notin u /\ a \in s /\ h[u] = g[u]
      BY <1>9, <1>12, <1>13, <2>1
    <3>2. z[x] <= w[x] + d
      BY <2>1
    <3> QED
      BY <1>14, <3>1, <3>2
  <2>2. CASE x # a
    <3>1. z[x] = w[x] /\ (a \notin s => a \notin u)
      BY <1>1, <1>8, <1>9, <1>12, <2>2
    <3> QED
      BY <1>13, <1>14, <3>1
  <2> QED
    BY <2>1, <2>2
<1> QED
  BY <1>15

LEMMA LeastEventsGrow ==
  ASSUME NEW x, IsSession(x), NEW e, e.turn \in Turns, CanReplay(x, e)
  PROVE  LET t == e.turn
             next == Replay(x, e)
         IN  /\ LeastEvents(x.turns[t]) \in Nat /\ LeastEvents(next.turns[t]) \in Nat
             /\ LeastEvents(next.turns[t]) <= LeastEvents(x.turns[t]) + 1
<1>1. PICK t, turn : t = e.turn /\ t \in Turns /\ turn = x.turns[t]
  OBVIOUS
<1>2. /\ SessionFits(x) /\ turn \in TurnSequence /\ (turn.phase = "absent" => turn = AbsentTurn)
  BY <1>1 DEF IsSession, SessionFits
<1>3. /\ Acceptable(x, t, e.event, e.item, e.timestamp) /\ Replay(x, e) = SessionAfter(x, e)
  BY <1>1, <1>2, ReplayExactly
<1>4. PICK new : new = TurnAfter(turn, e.event, e.item)
  OBVIOUS
<1>5. Replay(x, e).turns[t] = new
  <2>1. x.turns \in [Turns -> TurnSequence]
    BY <1>2 DEF SessionFits
  <2> QED
    BY <1>1, <1>3, <1>4, <2>1 DEF SessionAfter
<1>6. Allowed(x, t, e.event, e.item)
  BY <1>3 DEF Acceptable
<1> DEFINE w == [i \in Items |-> turn.items[i].revision]
           z == [i \in Items |-> new.items[i].revision]
<1>7. IsFiniteSet(Items) /\ DOMAIN w = Items /\ DOMAIN z = Items
  BY SequencerAssumption
<1>8. \A i \in Items : turn.items[i].revision \in Nat /\ w[i] \in Nat
  BY <1>2, SequencerAssumption DEF TurnSequence, ItemSequence
<1>9. SumFunction(w) \in Nat
  <2> HIDE DEF w
  <2> QED
    BY <1>7, <1>8, SumIsNatural
<1>10. LeastEvents(turn) = IF turn.phase = "absent" THEN 0
                           ELSE IF turn.phase = "running" THEN 1 + SumFunction(w) ELSE 2
  BY DEF LeastEvents, Running
<1>11. LeastEvents(new) = IF new.phase = "absent" THEN 0
                          ELSE IF new.phase = "running" THEN 1 + SumFunction(z) ELSE 2
  BY DEF LeastEvents, Running
<1>12. new.phase = PhaseAfter(e.event)
  BY <1>4 DEF TurnAfter
<1>13. CASE e.event = "turn.started"
  <2>1. turn = AbsentTurn /\ e.item = NoItem
    <3>1. turn.phase = "absent"
      BY <1>1, <1>6, <1>13 DEF Allowed
    <3>2. e.item = NoItem
      BY <1>6, <1>13, ValidShapes DEF Allowed
    <3> QED
      BY <1>2, <3>1, <3>2
  <2>2. new.items = turn.items /\ new.phase = "running"
    BY <1>4, <1>12, <1>13, <2>1, TerminalEvents DEF TurnAfter, PhaseAfter
  <2>3. \A i \in DOMAIN z : z[i] = 0
    BY <2>1, <2>2 DEF AbsentTurn, AbsentItem
  <2>4. SumFunction(z) = 0
    <3> HIDE DEF z
    <3> QED
      BY <1>7, <2>3, SumOfZeros
  <2>5. turn.phase = "absent"
    BY <2>1 DEF AbsentTurn
  <2> HIDE DEF w, z
  <2> QED
    BY <1>1, <1>5, <1>10, <1>11, <2>2, <2>4, <2>5
<1>14. CASE e.event # "turn.started"
  <2>1. turn.phase = "running"
    BY <1>1, <1>6, <1>14 DEF Allowed, Running
  <2>2. CASE IsTerminal(e.event)
    <3>1. new.phase \notin {"absent", "running"}
      BY <1>12, <2>2, TerminalEvents DEF PhaseAfter, TerminalPhases, IsTerminal
    <3> HIDE DEF w, z
    <3> QED
      BY <1>1, <1>5, <1>9, <1>10, <1>11, <2>1, <3>1
  <2>3. CASE ~IsTerminal(e.event)
    <3>1. new.phase = "running"
      BY <1>12, <2>3 DEF PhaseAfter
    <3>2. CASE e.item = NoItem
      <4>1. new.items = turn.items
        BY <1>4, <3>2 DEF TurnAfter
      <4>2. z = w
        BY <4>1
      <4> HIDE DEF w, z
      <4> QED
        BY <1>1, <1>5, <1>9, <1>10, <1>11, <2>1, <3>1, <4>2
    <3>3. CASE e.item # NoItem
      <4>1. PICK i, item : i = e.item.id /\ item = ItemApplied(turn, e.event, e.item).item
        OBVIOUS
      <4>2. /\ new.items = [turn.items EXCEPT ![i] = item]
            /\ ItemApplied(turn, e.event, e.item).outcome = "ok"
        BY <1>1, <1>4, <1>6, <1>14, <3>3, <4>1 DEF TurnAfter, Allowed
      <4>3. item.revision = turn.items[i].revision + 1
        BY <2>3, <4>1, <4>2 DEF ItemApplied, ApplyItem, ItemOk, ItemRefused
      <4>4. turn.items \in [Items -> ItemSequence]
        BY <1>2 DEF TurnSequence
      <4>5. CASE i \in Items
        <5>1. \A j \in Items : z[j] = IF j = i THEN w[i] + 1 ELSE w[j]
          BY <4>2, <4>3, <4>4, <4>5
        <5>2. \A j \in Items : z[j] \in Nat
          BY <1>8, <4>5, <5>1
        <5> HIDE DEF w, z
        <5>3. z[i] <= w[i] + 1
          BY <1>8, <4>5, <5>1
        <5>4. SumFunction(z) <= SumFunction(w) + 1
          BY <1>7, <1>8, <4>5, <5>1, <5>2, <5>3, SumGrows
        <5>5. SumFunction(z) \in Nat
          BY <1>7, <5>2, SumIsNatural
        <5> QED
          BY <1>1, <1>5, <1>9, <1>10, <1>11, <2>1, <3>1, <5>4, <5>5
      <4>6. CASE i \notin Items
        <5>1. new.items = turn.items
          BY <4>2, <4>4, <4>6
        <5>2. z = w
          BY <5>1
        <5> HIDE DEF w, z
        <5> QED
          BY <1>1, <1>5, <1>9, <1>10, <1>11, <2>1, <3>1, <5>2
      <4> QED
        BY <4>5, <4>6
    <3> QED
      BY <3>2, <3>3
  <2> QED
    BY <2>2, <2>3
<1> QED
  BY <1>13, <1>14

LEMMA MinimumGrows ==
  ASSUME NEW x, IsSession(x), \A t \in Turns : LeastEvents(x.turns[t]) \in Nat,
         NEW e, e.turn \in Turns, CanReplay(x, e)
  PROVE  /\ \A t \in Turns : LeastEvents(Replay(x, e).turns[t]) \in Nat
         /\ MinimumSequence(Replay(x, e)) <= MinimumSequence(x) + 1
         /\ MinimumSequence(x) \in Nat /\ MinimumSequence(Replay(x, e)) \in Nat
<1>1. PICK next, a : next = Replay(x, e) /\ a = e.turn
  OBVIOUS
<1>2. /\ LeastEvents(next.turns[a]) \in Nat
      /\ LeastEvents(next.turns[a]) <= LeastEvents(x.turns[a]) + 1
      /\ \A t \in Turns \ {a} : next.turns[t] = x.turns[t]
  <2>1. \A t \in Turns \ {e.turn} : Replay(x, e).turns[t] = x.turns[t]
    BY TakenMoves
  <2> QED
    BY <1>1, <2>1, LeastEventsGrow
<1> DEFINE w == [t \in Turns |-> LeastEvents(x.turns[t])]
           z == [t \in Turns |-> LeastEvents(next.turns[t])]
<1>3. \A t \in Turns : LeastEvents(next.turns[t]) \in Nat
  BY <1>2
<1>4. /\ DOMAIN w = Turns /\ DOMAIN z = Turns /\ IsFiniteSet(Turns)
      /\ \A t \in Turns : w[t] \in Nat /\ z[t] \in Nat
      /\ \A t \in Turns : t # a => z[t] = w[t]
      /\ z[a] <= w[a] + 1 /\ a \in Turns
  BY <1>1, <1>2, <1>3, SequencerAssumption
<1>5. MinimumSequence(x) = SumFunction(w) /\ MinimumSequence(next) = SumFunction(z)
  BY DEF MinimumSequence
<1> HIDE DEF w, z
<1>6. SumFunction(z) <= SumFunction(w) + 1
  BY <1>4, SumGrows
<1>7. SumFunction(w) \in Nat /\ SumFunction(z) \in Nat
  BY <1>4, SumIsNatural
<1> QED
  BY <1>1, <1>3, <1>5, <1>6, <1>7

-----------------------------------------------------------------------------
(* The state after every prefix of a history can be stored as a checkpoint.*)
Counted(x) ==
  /\ IsSession(x)
  /\ \A t \in Turns : LeastEvents(x.turns[t]) \in Nat
  /\ MinimumSequence(x) \in Nat /\ MinimumSequence(x) <= x.sequence
  /\ (x.sequence = 0) <=> \A t \in Turns : x.turns[t].phase = "absent"
  /\ \/ x.sequence = 0 /\ x.timestamp = 0 /\ x.lastEvent = NoEvent
     \/ x.sequence > 0 /\ x.timestamp > 0 /\ x.lastEvent # NoEvent

LEMMA EmptyIsCounted == Counted(EmptySession)
<1>1. \A t \in Turns : EmptySession.turns[t] = AbsentTurn /\ AbsentTurn.phase = "absent"
  BY DEF EmptySession, AbsentTurn
<1>2. \A t \in Turns : LeastEvents(EmptySession.turns[t]) = 0
  BY <1>1 DEF LeastEvents
<1>3. MinimumSequence(EmptySession) = 0
  <2> DEFINE w == [t \in Turns |-> LeastEvents(EmptySession.turns[t])]
  <2>1. IsFiniteSet(DOMAIN w) /\ \A t \in DOMAIN w : w[t] = 0
    BY <1>2, SequencerAssumption
  <2>2. SumFunction(w) = 0
    <3> HIDE DEF w
    <3> QED
      BY <2>1, SumOfZeros
  <2> QED
    BY <2>2 DEF MinimumSequence
<1>4. EmptySession.sequence = 0 /\ EmptySession.timestamp = 0 /\ EmptySession.lastEvent = NoEvent
  BY DEF EmptySession
<1> QED
  BY <1>1, <1>2, <1>3, <1>4, EmptyIsSession DEF Counted

LEMMA StepKeepsCounted ==
  ASSUME NEW x, Counted(x), NEW e, e.turn \in Turns, CanReplay(x, e)
  PROVE  Counted(Replay(x, e))
<1>1. PICK y : y = Replay(x, e)
  OBVIOUS
<1>2. IsSession(x) /\ x.sequence \in Nat
  BY SequencerAssumption DEF Counted, IsSession, SessionFits
<1>3. IsSession(y)
  BY <1>1, <1>2, SameIsEquivalence, SameTakes
<1>4. /\ y.turns[e.turn].phase = PhaseAfter(e.event)
      /\ y.lastEvent = e /\ y.sequence = e.sequence /\ y.timestamp = e.timestamp
      /\ e.sequence = x.sequence + 1 /\ e.timestamp \in 1..MaxSafe
  BY <1>1, <1>2, TakenMoves
<1>5. y.sequence > 0 /\ y.timestamp > 0 /\ y.lastEvent # NoEvent
  <2>1. e.sequence > 0 /\ e.timestamp > 0
    BY <1>2, <1>4, SequencerAssumption
  <2>2. NoEvent.sequence = 0
    BY DEF NoEvent
  <2> QED
    BY <1>4, <2>1, <2>2
<1>6. y.turns[e.turn].phase # "absent"
  <2>1. "running" # "absent" /\ "absent" \notin TerminalPhases
    BY DEF TerminalPhases
  <2> QED
    BY <1>4, <2>1, TerminalEvents DEF PhaseAfter, IsTerminal
<1>7. /\ \A t \in Turns : LeastEvents(y.turns[t]) \in Nat
      /\ MinimumSequence(y) <= MinimumSequence(x) + 1
      /\ MinimumSequence(x) \in Nat /\ MinimumSequence(y) \in Nat
  BY <1>1, <1>2, MinimumGrows DEF Counted
<1>8. MinimumSequence(y) <= y.sequence
  BY <1>2, <1>4, <1>7 DEF Counted
<1>9. y.sequence # 0
  BY <1>2, <1>4
<1> QED
  BY <1>1, <1>3, <1>5, <1>6, <1>7, <1>8, <1>9 DEF Counted

LEMMA RunIsCounted ==
  ASSUME NEW p, IsList(p), OfTurns(p), NEW r, Runs("replay", r, EmptySession, p)
  PROVE  \A n \in 0..Len(p) : Counted(r[n])
<1> DEFINE good == {n \in 0..Len(p) : Counted(r[n])}
<1>1. Len(p) \in Nat
  BY DEF IsList
<1>2. 0 \in good
  BY <1>1, EmptyIsCounted DEF Runs
<1>3. ASSUME NEW n \in 0..Len(p) - 1, n \in good PROVE n + 1 \in good
  <2>1. n + 1 \in 1..Len(p) /\ (n + 1) - 1 = n /\ n + 1 \in 0..Len(p)
    BY <1>1
  <2>2. PICK x, e : x = r[n] /\ e = p[n + 1]
    OBVIOUS
  <2>3. CanReplay(x, e) /\ r[n + 1] = Replay(x, e) /\ e.turn \in Turns /\ Counted(x)
    BY <1>3, <2>1, <2>2 DEF Runs, Takes, Moved, OfTurns
  <2>4. Counted(r[n + 1])
    BY <2>3, StepKeepsCounted
  <2> QED
    BY <2>1, <2>4
<1> HIDE DEF good
<1>4. 0..Len(p) \subseteq good
  BY <1>1, <1>2, <1>3, CountUp
<1> QED
  BY <1>4 DEF good

LEMMA CheckpointIsValid ==
  ASSUME NEW x, Counted(x), \A t, u \in RunningTurns(x) : t = u
  PROVE  CheckpointIsSound(CheckpointOf(x))
<1>1. PICK c : c = CheckpointOf(x)
  OBVIOUS
<1>2. IsSession(x) /\ SessionFits(x)
  BY DEF Counted, IsSession
<1>3. /\ c.sequence = x.sequence /\ c.timestamp = x.timestamp /\ c.lastEvent = x.lastEvent
      /\ c.turns = [t \in Turns |-> IF Running(x.turns[t]) THEN x.turns[t]
                                    ELSE [AbsentTurn EXCEPT !.phase = x.turns[t].phase]]
  BY <1>1, <1>2 DEF CheckpointOf, IsSession
<1>4. ASSUME NEW t \in Turns
      PROVE  /\ c.turns[t].phase = x.turns[t].phase
             /\ Running(x.turns[t]) => c.turns[t] = x.turns[t]
             /\ ~Running(x.turns[t]) => \A i \in Items : c.turns[t].items[i] = AbsentItem
  <2>1. CASE Running(x.turns[t])
    BY <1>3, <2>1
  <2>2. CASE ~Running(x.turns[t])
    <3>1. PICK phase : phase = x.turns[t].phase
      OBVIOUS
    <3>2. c.turns[t] = [AbsentTurn EXCEPT !.phase = phase]
      BY <1>3, <2>2, <3>1
    <3>3. c.turns[t] = [phase |-> phase, items |-> [i \in Items |-> AbsentItem]]
      BY <3>2 DEF AbsentTurn
    <3> QED
      BY <2>2, <3>1, <3>3
  <2> QED
    BY <2>1, <2>2
<1>5. \A t \in Turns : Running(c.turns[t]) <=> Running(x.turns[t])
  BY <1>4 DEF Running
<1>6. \A t \in Turns : \A i \in Items : c.turns[t].items[i].revision <= MaxSafe
  <2>1. \A t \in Turns : \A i \in Items : x.turns[t].items[i].revision <= MaxSafe
    BY <1>2, SequencerAssumption DEF SessionFits, TurnSequence, ItemSequence
  <2>2. AbsentItem.revision <= MaxSafe
    BY SequencerAssumption DEF AbsentItem
  <2> QED
    BY <1>4, <2>1, <2>2
<1>7. Cardinality(RunningTurns(c)) <= 1
  <2>1. RunningTurns(c) = RunningTurns(x)
    BY <1>5 DEF RunningTurns
  <2>2. CASE RunningTurns(x) = {}
    BY <2>1, <2>2, FS_EmptySet
  <2>3. CASE RunningTurns(x) # {}
    <3>1. PICK t : RunningTurns(x) = {t}
      BY <2>3
    <3>2. Cardinality({t}) = 1
      BY FS_Singleton
    <3> QED
      BY <2>1, <3>1, <3>2
  <2> QED
    BY <2>2, <2>3
<1>8. MinimumSequence(c) <= c.sequence
  <2>1. ASSUME NEW t \in Turns PROVE LeastEvents(c.turns[t]) = LeastEvents(x.turns[t])
    <3>1. CASE Running(x.turns[t])
      BY <1>4, <3>1
    <3>2. CASE ~Running(x.turns[t])
      BY <1>4, <1>5, <3>2 DEF LeastEvents
    <3> QED
      BY <3>1, <3>2
  <2>2. [t \in Turns |-> LeastEvents(c.turns[t])] = [t \in Turns |-> LeastEvents(x.turns[t])]
    BY <2>1
  <2>3. MinimumSequence(c) = MinimumSequence(x)
    BY <2>2 DEF MinimumSequence
  <2> QED
    BY <1>3, <2>3 DEF Counted
<1>9. /\ \/ c.sequence = 0 /\ c.timestamp = 0 /\ c.lastEvent = NoEvent
         \/ c.sequence > 0 /\ c.timestamp > 0 /\ c.lastEvent # NoEvent
      /\ (c.sequence = 0) <=> \A t \in Turns : c.turns[t].phase = "absent"
  BY <1>3, <1>4 DEF Counted
<1> QED
  BY <1>1, <1>4, <1>5, <1>6, <1>7, <1>8, <1>9 DEF CheckpointIsSound

-----------------------------------------------------------------------------
(* The projection: what an event it accepts makes of a valid snapshot is a *)
(* valid snapshot.                                                         *)
TurnViews == [state : TurnPhases, started : Anchors, latest : Anchors]
ItemViews == [revision : 0..MaxSafe, shape : Shapes \cup {NoShape},
              state : ItemStates \cup {"none"}, first : Anchors, latest : Anchors]
IsView(v) ==
  /\ v.anchor \in Anchors
  /\ v.turns \in [Turns -> TurnViews]
  /\ v.items \in [Turns -> [Items -> ItemViews]]
  /\ v.running \in Turns \cup {NoTurn}
  /\ v.open \subseteq Turns \X Items

LEMMA AnchorsAreOrdered ==
  /\ \A a \in Anchors : a.sequence \in Nat /\ a.timestamp \in Nat
  /\ \A a \in Anchors : NotAfter(a, a)
  /\ \A a, b, c \in Anchors : NotAfter(a, b) /\ NotAfter(b, c) => NotAfter(a, c)
  /\ \A a, b, c \in Anchors : NotAfter(a, b) /\ Before(b, c) => Before(a, c)
  /\ \A a, b, c \in Anchors : Before(a, b) /\ NotAfter(b, c) => Before(a, c)
  /\ \A a, b \in Anchors : Before(a, b) => NotAfter(a, b) /\ ~NotAfter(b, a)
  /\ Envelopes \subseteq Anchors
<1>1. \A a \in Anchors : a.sequence \in Nat /\ a.timestamp \in Nat
  BY SequencerAssumption DEF Anchors, Envelopes, NoEvent
<1> QED
  BY <1>1 DEF NotAfter, Before, Anchors

(* What an accepted event finds and what it changes, one place at a time.  *)
Shown(v, e) == IsView(v) /\ SnapshotIsSound(v) /\ e \in Envelopes /\ Applies(v, e)

TurnStep(v, w, e) ==
  LET t == e.turn
  IN  /\ t \in Turns /\ e \in Anchors /\ v.anchor \in Anchors /\ Before(v.anchor, e)
      /\ e.sequence = v.anchor.sequence + 1 /\ e.sequence > 0
      /\ v.turns[t].state = IF e.event = "turn.started" THEN "absent" ELSE "running"
      /\ v.running = IF e.event = "turn.started" THEN NoTurn ELSE t
      /\ \A u \in Turns \ {t} : v.turns[u].state # "running"
      /\ w.anchor = e /\ w.running = (IF IsTerminal(e.event) THEN NoTurn ELSE t)
      /\ w.turns[t] = [state |-> e.state, latest |-> e,
                       started |-> IF e.event = "turn.started" THEN e ELSE v.turns[t].started]
      /\ \A u \in Turns \ {t} : w.turns[u] = v.turns[u]
      /\ e.state = PhaseAfter(e.event) /\ e.state \in TurnPhases /\ e.state # "absent"
      /\ e.state = "running" <=> ~IsTerminal(e.event)
      /\ v.turns \in [Turns -> TurnViews] /\ w.turns \in [Turns -> TurnViews]
ItemStep(v, w, e) ==
  LET t == e.turn
      i == e.item.id
      old == v.items[t][i]
  IN  /\ v.items \in [Turns -> [Items -> ItemViews]] /\ v.open \subseteq Turns \X Items
      /\ w.items \in [Turns -> [Items -> ItemViews]] /\ w.open \subseteq Turns \X Items
      /\ e.item = NoItem => w.items = v.items /\ w.open = v.open
      /\ e.item # NoItem =>
           /\ i \in Items /\ e.item.shape \in Shapes
           /\ w.items[t][i] =
                [revision |-> e.revision, shape |-> e.item.shape, state |-> e.item.state,
                 first |-> IF old.revision = 0 THEN e ELSE old.first, latest |-> e]
           /\ \A u \in Turns, j \in Items : u # t \/ j # i => w.items[u][j] = v.items[u][j]
           /\ e.revision = old.revision + 1 /\ e.revision <= MaxSafe
           /\ old.revision > 0 => old.shape = e.item.shape
           /\ ItemTransition(old.state, e.item.state)
           /\ \A u \in Turns, j \in Items :
                <<u, j>> \in w.open <=> IF u = t /\ j = i THEN IsOpenState(e.item.state)
                                        ELSE <<u, j>> \in v.open

LEMMA AppliedTurn ==
  ASSUME NEW v, NEW e, Shown(v, e)
  PROVE  TurnStep(v, Project(v, e), e)
<1>1. PICK t, w : t = e.turn /\ w = Project(v, e)
  OBVIOUS
<1>2. /\ t \in Turns /\ e \in Anchors /\ v.anchor \in Anchors /\ e.state \in TurnPhases \ {"absent"}
      /\ v.turns \in [Turns -> TurnViews]
  BY <1>1 DEF Shown, IsView, Envelopes, Anchors
<1>3. /\ e.sequence = v.anchor.sequence + 1 /\ e.timestamp >= v.anchor.timestamp
      /\ e.state = PhaseAfter(e.event)
      /\ IF e.event = "turn.started"
         THEN /\ v.turns[t].state = "absent" /\ v.running = NoTurn
              /\ \A u \in Turns : v.turns[u].state # "running"
         ELSE v.turns[t].state = "running" /\ v.running = t
  BY <1>1 DEF Shown, Applies, PhaseAfter
<1>4. Before(v.anchor, e) /\ e.sequence > 0
  BY <1>2, <1>3, AnchorsAreOrdered DEF Before
<1>5. \A u \in Turns \ {t} : v.turns[u].state # "running"
  <2>1. CASE e.event = "turn.started"
    BY <1>3, <2>1
  <2>2. CASE e.event # "turn.started"
    <3>1. v.running = t /\ t # NoTurn
      BY <1>2, <1>3, <2>2, ProjectionAssumption
    <3>2. {u \in Turns : v.turns[u].state = "running"} = {v.running}
      BY <3>1 DEF Shown, SnapshotIsSound, RunningTurnIsLast
    <3> QED
      BY <3>1, <3>2
  <2> QED
    BY <2>1, <2>2
<1>6. PICK new : new = [state |-> e.state, latest |-> e,
                        started |-> IF e.event = "turn.started" THEN e ELSE v.turns[t].started]
  OBVIOUS
<1>7. w.turns = [v.turns EXCEPT ![t] = new]
  BY <1>1, <1>6 DEF Project
<1>8. w.turns[t] = new /\ \A u \in Turns \ {t} : w.turns[u] = v.turns[u]
  BY <1>2, <1>7
<1>9. w.anchor = e /\ w.running = (IF IsTerminal(e.event) THEN NoTurn ELSE t)
  BY <1>1 DEF Project
<1>10. e.state = "running" <=> ~IsTerminal(e.event)
  <2>1. "running" \notin TerminalPhases
    BY DEF TerminalPhases
  <2> QED
    BY <1>3, <2>1, TerminalEvents DEF PhaseAfter, IsTerminal
<1>11. w.turns \in [Turns -> TurnViews]
  <2>1. v.turns[t].started \in Anchors
    BY <1>2 DEF TurnViews
  <2>2. new \in TurnViews
    BY <1>2, <1>6, <2>1 DEF TurnViews
  <2> QED
    BY <1>2, <1>7, <2>2
<1> QED
  BY <1>1, <1>2, <1>3, <1>4, <1>5, <1>6, <1>8, <1>9, <1>10, <1>11 DEF TurnStep

LEMMA AppliedItem ==
  ASSUME NEW v, NEW e, Shown(v, e)
  PROVE  ItemStep(v, Project(v, e), e)
<1>1. PICK t, i, w, old : t = e.turn /\ i = e.item.id /\ w = Project(v, e) /\ old = v.items[t][i]
  OBVIOUS
<1>2. t \in Turns /\ v.items \in [Turns -> [Items -> ItemViews]] /\ v.open \subseteq Turns \X Items
      /\ e \in Anchors /\ e.item \in ItemRequests \cup {NoItem}
  BY <1>1 DEF Shown, IsView, Envelopes, Anchors
<1>3. w.items = (IF e.item = NoItem THEN v.items
                 ELSE [v.items EXCEPT ![t][i] = ItemAfter(v, e)])
      /\ w.open = OpenAfter(v, e)
  BY <1>1 DEF Project
<1>4. CASE e.item = NoItem
  BY <1>1, <1>2, <1>3, <1>4 DEF OpenAfter, ItemStep
<1>5. CASE e.item # NoItem
  <2>1. i \in Items /\ e.item.shape \in Shapes /\ e.item.state \in ItemStates
    BY <1>1, <1>2, <1>5 DEF ItemRequests
  <2>2. /\ e.revision = old.revision + 1 /\ e.revision <= MaxSafe
        /\ old.revision > 0 => old.shape = e.item.shape
        /\ ItemTransition(old.state, e.item.state)
    BY <1>1, <1>5 DEF Shown, Applies, ItemIsVisible
  <2>3. old \in ItemViews /\ v.items[t] \in [Items -> ItemViews]
    BY <1>1, <1>2, <2>1
  <2>4. PICK new : /\ new = ItemAfter(v, e)
                   /\ new = [revision |-> e.revision, shape |-> e.item.shape,
                             state |-> e.item.state,
                             first |-> IF old.revision = 0 THEN e ELSE old.first, latest |-> e]
    BY <1>1 DEF ItemAfter
  <2>5. new \in ItemViews
    <3>1. old.first \in Anchors /\ e.revision \in 0..MaxSafe
      BY <2>3 DEF ItemViews, Shown, Envelopes
    <3> QED
      BY <1>2, <2>1, <2>4, <3>1 DEF ItemViews
  <2>6. PICK row : row = [v.items[t] EXCEPT ![i] = new]
    OBVIOUS
  <2>7. w.items = [v.items EXCEPT ![t] = row]
    BY <1>3, <1>5, <2>4, <2>6
  <2>8. /\ row \in [Items -> ItemViews] /\ row[i] = new
        /\ \A j \in Items : j # i => row[j] = v.items[t][j]
    BY <2>1, <2>3, <2>5, <2>6
  <2>9. /\ w.items \in [Turns -> [Items -> ItemViews]] /\ w.items[t] = row
        /\ \A u \in Turns : u # t => w.items[u] = v.items[u]
    BY <1>2, <2>7, <2>8
  <2>10. /\ w.items[t][i] = new
         /\ \A u \in Turns, j \in Items : u # t \/ j # i => w.items[u][j] = v.items[u][j]
    BY <2>8, <2>9
  <2>11. PICK here : here = <<t, i>>
    OBVIOUS
  <2>12. w.open = IF IsOpenState(e.item.state) THEN v.open \cup {here} ELSE v.open \ {here}
    BY <1>1, <1>3, <1>5, <2>11 DEF OpenAfter
  <2>13. \A u \in Turns, j \in Items :
           <<u, j>> \in w.open <=> IF u = t /\ j = i THEN IsOpenState(e.item.state)
                                   ELSE <<u, j>> \in v.open
    <3> TAKE u \in Turns, j \in Items
    <3>1. <<u, j>> = here <=> u = t /\ j = i
      BY <2>11
    <3> QED
      BY <2>12, <3>1
  <2>14. w.open \subseteq Turns \X Items
    <3>1. t \in Turns /\ i \in Items
      BY <1>2, <2>1
    <3>2. here \in Turns \X Items
      BY <2>11, <3>1
    <3>3. v.open \subseteq Turns \X Items
      BY <1>2
    <3> QED
      BY <2>12, <3>2, <3>3
  <2> QED
    BY <1>1, <1>2, <1>5, <2>1, <2>2, <2>4, <2>9, <2>10, <2>13, <2>14 DEF ItemStep
<1> QED
  BY <1>4, <1>5

LEMMA SomeCarryNothing ==
  ASSUME NEW event \in {"turn.started", "turn.completed", "turn.interrupted"}, NEW item,
         ShapeIsValid(event, item)
  PROVE  item = NoItem
<1>1. \A c \in EventShapes : c.event # event
  BY DEF EventShapes, Carries
<1> QED
  BY <1>1 DEF ShapeIsValid

(* The Turn of an accepted event is the last one.                          *)
LEMMA OtherTurnsAreBefore ==
  ASSUME NEW v, NEW w, NEW e, Shown(v, e), TurnStep(v, w, e)
  PROVE  \A u \in VisibleTurns(v) \ {e.turn} :
           /\ Before(v.turns[u].latest, e)
           /\ Before(v.turns[u].latest, w.turns[e.turn].started)
<1>1. PICK t : t = e.turn
  OBVIOUS
<1> SUFFICES ASSUME NEW u \in VisibleTurns(v), u # t
             PROVE  /\ Before(v.turns[u].latest, e)
                    /\ Before(v.turns[u].latest, w.turns[t].started)
  BY <1>1
<1>2. /\ u \in Turns /\ t \in Turns /\ e \in Anchors /\ v.anchor \in Anchors
      /\ Before(v.anchor, e) /\ v.turns \in [Turns -> TurnViews]
  BY <1>1 DEF VisibleTurns, TurnStep
<1>3. v.turns[u].latest \in Anchors /\ v.turns[t].latest \in Anchors
      /\ v.turns[u].started \in Anchors /\ v.turns[t].started \in Anchors
  BY <1>2 DEF TurnViews
<1>4. NotAfter(v.turns[u].latest, v.anchor) /\ NotAfter(v.turns[u].started, v.turns[u].latest)
  BY DEF Shown, SnapshotIsSound, TurnsAreOrdered
<1>5. Before(v.turns[u].latest, e)
  BY <1>2, <1>3, <1>4, AnchorsAreOrdered
<1>6. CASE e.event = "turn.started"
  <2>1. w.turns[t].started = e
    BY <1>1, <1>6 DEF TurnStep
  <2> QED
    BY <1>5, <2>1
<1>7. CASE e.event # "turn.started"
  <2>1. w.turns[t].started = v.turns[t].started /\ v.turns[t].state = "running" /\ v.running = t
    BY <1>1, <1>7 DEF TurnStep
  <2>2. t \in VisibleTurns(v)
    BY <1>2, <2>1 DEF VisibleTurns
  <2>3. v.turns[t].latest = v.anchor
    <3>1. PICK last \in VisibleTurns(v) : /\ v.turns[last].latest = v.anchor
                                          /\ v.running \in {NoTurn, last}
      BY <2>2 DEF Shown, SnapshotIsSound, RunningTurnIsLast
    <3>2. t # NoTurn
      BY <1>2, ProjectionAssumption
    <3> QED
      BY <2>1, <3>1, <3>2
  <2>4. \/ Before(v.turns[t].latest, v.turns[u].started)
        \/ Before(v.turns[u].latest, v.turns[t].started)
    BY <2>2 DEF Shown, SnapshotIsSound, TurnsAreOrdered
  <2>5. ~Before(v.turns[t].latest, v.turns[u].started)
    <3>1. PICK a, b, c : a = v.turns[u].started /\ b = v.turns[u].latest /\ c = v.anchor
      OBVIOUS
    <3>2. NotAfter(a, c)
      BY <1>2, <1>3, <1>4, <3>1, AnchorsAreOrdered
    <3>3. ~Before(c, a)
      BY <1>2, <1>3, <3>1, <3>2, AnchorsAreOrdered
    <3> QED
      BY <2>3, <3>1, <3>3
  <2> QED
    BY <1>5, <2>1, <2>4, <2>5
<1> QED
  BY <1>6, <1>7

LEMMA TurnsStayOrdered ==
  ASSUME NEW v, NEW w, NEW e, Shown(v, e), TurnStep(v, w, e)
  PROVE  TurnsAreOrdered(w) /\ RunningTurnIsLast(w)
         /\ (w.anchor = NoEvent <=> VisibleTurns(w) = {})
<1>1. PICK t : t = e.turn
  OBVIOUS
<1>2. /\ t \in Turns /\ e \in Anchors /\ v.anchor \in Anchors /\ Before(v.anchor, e)
      /\ e.sequence > 0 /\ w.anchor = e
      /\ w.turns[t] = [state |-> e.state, latest |-> e,
                       started |-> IF e.event = "turn.started" THEN e ELSE v.turns[t].started]
      /\ \A u \in Turns \ {t} : w.turns[u] = v.turns[u]
      /\ v.turns[t].state = IF e.event = "turn.started" THEN "absent" ELSE "running"
      /\ v.turns \in [Turns -> TurnViews]
      /\ w.running = (IF IsTerminal(e.event) THEN NoTurn ELSE t)
      /\ e.state # "absent" /\ (e.state = "running" <=> ~IsTerminal(e.event))
      /\ \A u \in Turns \ {t} : v.turns[u].state # "running"
  BY <1>1 DEF TurnStep
<1>3. VisibleTurns(w) = VisibleTurns(v) \cup {t} /\ t \in VisibleTurns(w)
      /\ \A u \in VisibleTurns(w) : u \in Turns /\ (u # t => u \in VisibleTurns(v))
  <2>1. w.turns[t].state # "absent"
    BY <1>2
  <2> QED
    BY <1>2, <2>1 DEF VisibleTurns
<1>4. ASSUME NEW u \in VisibleTurns(w)
      PROVE  /\ w.turns[u].started.sequence > 0
             /\ NotAfter(w.turns[u].started, w.turns[u].latest)
             /\ NotAfter(w.turns[u].latest, w.anchor)
  <2>1. CASE u # t
    <3>1. u \in VisibleTurns(v) /\ w.turns[u] = v.turns[u] /\ u \in Turns
      BY <1>2, <1>3, <2>1
    <3>2. /\ v.turns[u].started.sequence > 0
          /\ NotAfter(v.turns[u].started, v.turns[u].latest)
      BY <3>1 DEF Shown, SnapshotIsSound, TurnsAreOrdered
    <3>3. Before(v.turns[u].latest, e)
      BY <1>1, <2>1, <3>1, OtherTurnsAreBefore
    <3>4. v.turns[u].latest \in Anchors
      BY <1>2, <3>1 DEF TurnViews
    <3>5. NotAfter(v.turns[u].latest, e)
      BY <1>2, <3>3, <3>4, AnchorsAreOrdered
    <3> QED
      BY <1>2, <3>1, <3>2, <3>5
  <2>2. CASE u = t /\ e.event = "turn.started"
    <3>1. w.turns[t].started = e /\ w.turns[t].latest = e
      BY <1>2, <2>2
    <3>2. NotAfter(e, e)
      BY <1>2, AnchorsAreOrdered
    <3> QED
      BY <1>2, <2>2, <3>1, <3>2
  <2>3. CASE u = t /\ e.event # "turn.started"
    <3>1. w.turns[t].started = v.turns[t].started /\ w.turns[t].latest = e
      BY <1>2, <2>3
    <3>2. t \in VisibleTurns(v)
      BY <1>2, <2>3 DEF VisibleTurns
    <3>3. /\ v.turns[t].started.sequence > 0
          /\ NotAfter(v.turns[t].started, v.turns[t].latest)
          /\ NotAfter(v.turns[t].latest, v.anchor)
      BY <3>2 DEF Shown, SnapshotIsSound, TurnsAreOrdered
    <3>4. v.turns[t].started \in Anchors /\ v.turns[t].latest \in Anchors
      BY <1>2 DEF TurnViews
    <3>5. NotAfter(v.anchor, e) /\ NotAfter(e, e)
      BY <1>2, AnchorsAreOrdered
    <3>6. NotAfter(v.turns[t].started, e)
      BY <1>2, <3>3, <3>4, <3>5, AnchorsAreOrdered
    <3> QED
      BY <1>2, <2>3, <3>1, <3>3, <3>5, <3>6
  <2> QED
    BY <2>1, <2>2, <2>3
<1>5. ASSUME NEW u \in VisibleTurns(w), NEW x \in VisibleTurns(w), u # x
      PROVE  \/ Before(w.turns[u].latest, w.turns[x].started)
             \/ Before(w.turns[x].latest, w.turns[u].started)
  <2>1. CASE u # t /\ x # t
    <3>1. /\ u \in VisibleTurns(v) /\ w.turns[u] = v.turns[u]
          /\ x \in VisibleTurns(v) /\ w.turns[x] = v.turns[x]
      BY <1>2, <1>3, <2>1
    <3> QED
      BY <1>5, <3>1 DEF Shown, SnapshotIsSound, TurnsAreOrdered
  <2>2. CASE u = t
    <3>1. x \in VisibleTurns(v) /\ w.turns[x] = v.turns[x]
      BY <1>2, <1>3, <1>5, <2>2
    <3> QED
      BY <1>1, <1>5, <2>2, <3>1, OtherTurnsAreBefore
  <2>3. CASE x = t
    <3>1. u \in VisibleTurns(v) /\ w.turns[u] = v.turns[u]
      BY <1>2, <1>3, <1>5, <2>3
    <3> QED
      BY <1>1, <1>5, <2>3, <3>1, OtherTurnsAreBefore
  <2> QED
    BY <2>1, <2>2, <2>3
<1>6. TurnsAreOrdered(w)
  BY <1>4, <1>5 DEF TurnsAreOrdered
<1>7. RunningTurnIsLast(w)
  <2>1. t # NoTurn
    BY <1>2, ProjectionAssumption
  <2>2. w.turns[t].state = "running" <=> ~IsTerminal(e.event)
    BY <1>2
  <2>3. \A u \in Turns : w.turns[u].state = "running" <=> u = t /\ ~IsTerminal(e.event)
    BY <1>2, <2>2
  <2>4. {u \in Turns : w.turns[u].state = "running"}
          = (IF w.running = NoTurn THEN {} ELSE {w.running})
    <3>1. CASE IsTerminal(e.event)
      BY <1>2, <2>3, <3>1
    <3>2. CASE ~IsTerminal(e.event)
      BY <1>2, <2>1, <2>3, <3>2
    <3> QED
      BY <3>1, <3>2
  <2>5. w.turns[t].latest = w.anchor /\ w.running \in {NoTurn, t}
    BY <1>2
  <2> QED
    BY <1>3, <2>4, <2>5 DEF RunningTurnIsLast
<1>8. w.anchor # NoEvent
  BY <1>2 DEF NoEvent
<1> QED
  BY <1>3, <1>6, <1>7, <1>8

(* The order of the Items, one of them at a time.                          *)
ItemIsPlaced(v, u, j) ==
  LET item == v.items[u][j]
      turn == v.turns[u]
  IN  /\ turn.state # "absent"
      /\ item.revision <= MaxSafe
      /\ Before(turn.started, item.first)
      /\ NotAfter(item.first, item.latest)
      /\ NotAfter(item.latest, turn.latest)
      /\ (item.revision = 1) <=> (item.first.sequence = item.latest.sequence)
      /\ item.revision <= item.latest.sequence - item.first.sequence + 1
Apart(a, b) ==
  \A p \in {a.first, a.latest}, q \in {b.first, b.latest} : p.sequence # q.sequence
IsSeen(v, u, j) == u \in Turns /\ j \in Items /\ v.items[u][j].revision > 0
ItemsArePlaced(v) ==
  /\ \A u \in Turns, j \in Items : IsSeen(v, u, j) => ItemIsPlaced(v, u, j)
  /\ \A u, x \in Turns, j, k \in Items :
        IsSeen(v, u, j) /\ IsSeen(v, x, k) /\ (u # x \/ j # k)
          => Apart(v.items[u][j], v.items[x][k])

LEMMA SeenItems ==
  ASSUME NEW v
  PROVE  /\ \A x \in VisibleItems(v) : x = <<x[1], x[2]>> /\ IsSeen(v, x[1], x[2])
         /\ \A u \in Turns, j \in Items : <<u, j>> \in VisibleItems(v) <=> IsSeen(v, u, j)
<1>1. ASSUME NEW x \in Turns \X Items
      PROVE  x = <<x[1], x[2]>> /\ x[1] \in Turns /\ x[2] \in Items
  OBVIOUS
<1>2. \A x \in VisibleItems(v) : x = <<x[1], x[2]>> /\ IsSeen(v, x[1], x[2])
  BY <1>1 DEF VisibleItems, IsSeen
<1>3. ASSUME NEW u \in Turns, NEW j \in Items
      PROVE  <<u, j>> \in VisibleItems(v) <=> IsSeen(v, u, j)
  <2>1. PICK x : x = <<u, j>>
    OBVIOUS
  <2>2. x \in Turns \X Items /\ x[1] = u /\ x[2] = j
    BY <2>1
  <2> QED
    BY <2>1, <2>2 DEF VisibleItems, IsSeen
<1> QED
  BY <1>2, <1>3

LEMMA OrderIsPlacement ==
  ASSUME NEW v
  PROVE  ItemsAreOrdered(v) <=> ItemsArePlaced(v)
<1>1. ASSUME ItemsAreOrdered(v), NEW u \in Turns, NEW j \in Items, IsSeen(v, u, j)
      PROVE  ItemIsPlaced(v, u, j)
  <2>1. PICK x : x = <<u, j>>
    OBVIOUS
  <2>2. x \in VisibleItems(v) /\ x[1] = u /\ x[2] = j
    BY <1>1, <2>1, SeenItems
  <2> QED
    BY <1>1, <2>2 DEF ItemsAreOrdered, ItemIsPlaced
<1>2. ASSUME ItemsAreOrdered(v), NEW u \in Turns, NEW j \in Items, IsSeen(v, u, j),
             NEW x \in Turns, NEW k \in Items, IsSeen(v, x, k), u # x \/ j # k
      PROVE  Apart(v.items[u][j], v.items[x][k])
  <2>1. PICK y, z : y = <<u, j>> /\ z = <<x, k>>
    OBVIOUS
  <2>2. y \in VisibleItems(v) /\ z \in VisibleItems(v)
    BY <1>2, <2>1, SeenItems
  <2>3. y[1] = u /\ y[2] = j /\ z[1] = x /\ z[2] = k
    BY <2>1
  <2>4. y # z
    BY <1>2, <2>3
  <2> QED
    BY <1>2, <2>2, <2>3, <2>4 DEF ItemsAreOrdered, Apart
<1>3. ASSUME ItemsArePlaced(v), NEW x \in VisibleItems(v)
      PROVE  ItemIsPlaced(v, x[1], x[2])
  BY <1>3, SeenItems DEF ItemsArePlaced, IsSeen
<1>4. ASSUME ItemsArePlaced(v), NEW x \in VisibleItems(v), NEW y \in VisibleItems(v), x # y
      PROVE  Apart(v.items[x[1]][x[2]], v.items[y[1]][y[2]])
  <2>1. x = <<x[1], x[2]>> /\ y = <<y[1], y[2]>> /\ IsSeen(v, x[1], x[2]) /\ IsSeen(v, y[1], y[2])
    BY SeenItems
  <2>2. x[1] # y[1] \/ x[2] # y[2]
    BY <1>4, <2>1
  <2> QED
    BY <1>4, <2>1, <2>2 DEF ItemsArePlaced, IsSeen
<1>5. ItemsAreOrdered(v) => ItemsArePlaced(v)
  BY <1>1, <1>2 DEF ItemsArePlaced
<1>6. ItemsArePlaced(v) => ItemsAreOrdered(v)
  BY <1>3, <1>4 DEF ItemsAreOrdered, ItemIsPlaced, Apart
<1> QED
  BY <1>5, <1>6

(* The Items seen before an accepted event.                                *)
LEMMA SeenItemsAreBefore ==
  ASSUME NEW v, NEW w, NEW e, Shown(v, e), TurnStep(v, w, e), NEW u, NEW j, IsSeen(v, u, j)
  PROVE  /\ u \in VisibleTurns(v)
         /\ v.items[u][j] \in ItemViews /\ v.turns[u] \in TurnViews /\ ItemIsPlaced(v, u, j)
         /\ \A a \in {v.items[u][j].first, v.items[u][j].latest} :
              a \in Anchors /\ a.sequence <= v.anchor.sequence /\ Before(a, e)
<1>1. u \in Turns /\ j \in Items
  BY DEF IsSeen
<1>2. /\ v.items[u][j] \in ItemViews /\ v.turns[u] \in TurnViews
      /\ v.anchor \in Anchors /\ e \in Anchors
  BY <1>1, AnchorsAreOrdered DEF Shown, IsView
<1>3. ItemIsPlaced(v, u, j)
  BY <1>1, OrderIsPlacement DEF Shown, SnapshotIsSound, ItemsArePlaced
<1>4. u \in VisibleTurns(v)
  BY <1>1, <1>3 DEF ItemIsPlaced, VisibleTurns
<1>5. PICK first, latest, end :
         /\ first = v.items[u][j].first /\ latest = v.items[u][j].latest /\ end = v.turns[u].latest
         /\ first \in Anchors /\ latest \in Anchors /\ end \in Anchors
  BY <1>2 DEF ItemViews, TurnViews
<1>6. NotAfter(first, latest) /\ NotAfter(latest, end)
  BY <1>3, <1>5 DEF ItemIsPlaced
<1>7. NotAfter(end, v.anchor) /\ Before(v.anchor, e)
  BY <1>4, <1>5 DEF Shown, SnapshotIsSound, TurnsAreOrdered, TurnStep
<1>8. ASSUME NEW a \in {first, latest}
      PROVE  a \in Anchors /\ a.sequence <= v.anchor.sequence /\ Before(a, e)
  <2>1. a \in Anchors /\ NotAfter(a, end)
    BY <1>5, <1>6, AnchorsAreOrdered
  <2>2. NotAfter(a, v.anchor)
    BY <1>2, <1>5, <1>7, <2>1, AnchorsAreOrdered
  <2> QED
    BY <1>2, <1>7, <2>1, <2>2, AnchorsAreOrdered DEF NotAfter
<1> QED
  BY <1>2, <1>3, <1>4, <1>5, <1>8

LEMMA ItemsStayPlaced ==
  ASSUME NEW v, NEW w, NEW e, Shown(v, e), TurnStep(v, w, e), ItemStep(v, w, e),
         e.event = "turn.started" => e.item = NoItem
  PROVE  ItemsArePlaced(w)
<1>1. PICK t, i : t = e.turn /\ i = e.item.id
  OBVIOUS
<1> DEFINE New(u, j) == e.item # NoItem /\ u = t /\ j = i
<1>2. /\ t \in Turns /\ e \in Anchors /\ v.anchor \in Anchors /\ Before(v.anchor, e)
      /\ e.sequence = v.anchor.sequence + 1 /\ e.sequence > 0
      /\ w.turns[t] = [state |-> e.state, latest |-> e,
                       started |-> IF e.event = "turn.started" THEN e ELSE v.turns[t].started]
      /\ \A u \in Turns \ {t} : w.turns[u] = v.turns[u]
      /\ v.turns[t].state = IF e.event = "turn.started" THEN "absent" ELSE "running"
      /\ e.state # "absent" /\ v.turns \in [Turns -> TurnViews]
  BY <1>1 DEF TurnStep
<1>3. v.anchor.sequence \in Nat /\ e.sequence \in Nat /\ MaxSafe \in Nat
  BY <1>2, AnchorsAreOrdered, SequencerAssumption
<1>4. ASSUME NEW u \in Turns, NEW j \in Items, ~New(u, j)
      PROVE  w.items[u][j] = v.items[u][j]
  BY <1>1, <1>4 DEF ItemStep
<1>5. ASSUME NEW u \in Turns, NEW j \in Items, IsSeen(v, u, j)
      PROVE  /\ w.turns[u].state # "absent" /\ w.turns[u].started = v.turns[u].started
             /\ w.turns[u].latest \in {v.turns[u].latest, e}
             /\ u = t => w.turns[u].latest = e
  <2>1. u \in VisibleTurns(v)
    BY <1>5, SeenItemsAreBefore
  <2>2. CASE u = t
    <3>1. e.event # "turn.started"
      BY <1>2, <2>1, <2>2 DEF VisibleTurns
    <3> QED
      BY <1>2, <2>2, <3>1
  <2>3. CASE u # t
    BY <1>2, <2>1, <2>3 DEF VisibleTurns
  <2> QED
    BY <2>2, <2>3
<1>6. ASSUME NEW u \in Turns, NEW j \in Items, IsSeen(w, u, j), ~New(u, j)
      PROVE  /\ ItemIsPlaced(w, u, j) /\ IsSeen(v, u, j)
             /\ \A a \in {w.items[u][j].first, w.items[u][j].latest} :
                  a \in Anchors /\ Before(a, e)
  <2>1. PICK item : item = w.items[u][j] /\ item = v.items[u][j]
    BY <1>4, <1>6
  <2>2. IsSeen(v, u, j)
    BY <1>6, <2>1 DEF IsSeen
  <2>3. /\ ItemIsPlaced(v, u, j)
        /\ \A a \in {item.first, item.latest} : a \in Anchors /\ Before(a, e)
    BY <2>1, <2>2, SeenItemsAreBefore
  <2>4. NotAfter(item.latest, w.turns[u].latest)
    <3>1. CASE w.turns[u].latest = v.turns[u].latest
      BY <2>1, <2>3, <3>1 DEF ItemIsPlaced
    <3>2. CASE w.turns[u].latest = e
      BY <1>2, <2>3, <3>2, AnchorsAreOrdered
    <3> QED
      BY <1>5, <2>2, <3>1, <3>2
  <2>5. ItemIsPlaced(w, u, j)
    BY <1>5, <2>1, <2>2, <2>3, <2>4 DEF ItemIsPlaced
  <2> QED
    BY <2>1, <2>2, <2>3, <2>5
<1>7. ASSUME e.item # NoItem
      PROVE  /\ t \in Turns /\ i \in Items /\ ItemIsPlaced(w, t, i)
             /\ w.items[t][i].latest = e
             /\ w.items[t][i].first # e =>
                  IsSeen(v, t, i) /\ w.items[t][i].first = v.items[t][i].first
  <2>1. PICK old, new : old = v.items[t][i] /\ new = w.items[t][i]
    OBVIOUS
  <2>2. /\ i \in Items
        /\ new = [revision |-> e.revision, shape |-> e.item.shape, state |-> e.item.state,
                  first |-> IF old.revision = 0 THEN e ELSE old.first, latest |-> e]
        /\ e.revision = old.revision + 1 /\ e.revision <= MaxSafe
    BY <1>1, <1>7, <2>1 DEF ItemStep
  <2>3. old \in ItemViews /\ old.revision \in Nat
    BY <1>2, <1>3, <2>1, <2>2 DEF ItemStep, ItemViews
  <2>4. e.event # "turn.started"
    BY <1>7
  <2>5. /\ w.turns[t].state # "absent" /\ w.turns[t].latest = e
        /\ w.turns[t].started = v.turns[t].started /\ t \in VisibleTurns(v)
    BY <1>2, <2>4 DEF VisibleTurns
  <2>6. NotAfter(e, e)
    BY <1>2, AnchorsAreOrdered
  <2>7. CASE old.revision = 0
    <3>1. new.first = e /\ new.latest = e /\ new.revision = 1
      BY <2>2, <2>7
    <3>2. Before(v.turns[t].started, e)
      <4>1. /\ NotAfter(v.turns[t].started, v.turns[t].latest)
            /\ NotAfter(v.turns[t].latest, v.anchor)
        BY <2>5 DEF Shown, SnapshotIsSound, TurnsAreOrdered
      <4>2. v.turns[t].started \in Anchors /\ v.turns[t].latest \in Anchors
        BY <1>2 DEF TurnViews
      <4>3. NotAfter(v.turns[t].started, v.anchor)
        BY <1>2, <4>1, <4>2, AnchorsAreOrdered
      <4> QED
        BY <1>2, <4>2, <4>3, AnchorsAreOrdered
    <3>3. 1 <= MaxSafe /\ 1 <= e.sequence - e.sequence + 1
      BY <1>3, SequencerAssumption
    <3>4. ItemIsPlaced(w, t, i)
      BY <2>1, <2>5, <2>6, <3>1, <3>2, <3>3 DEF ItemIsPlaced
    <3> QED
      BY <1>2, <2>1, <2>2, <3>1, <3>4
  <2>8. CASE old.revision # 0
    <3>1. IsSeen(v, t, i)
      BY <1>2, <2>1, <2>2, <2>3, <2>8 DEF IsSeen
    <3>2. /\ ItemIsPlaced(v, t, i)
          /\ old.first \in Anchors /\ old.latest \in Anchors
          /\ Before(old.first, e) /\ old.latest.sequence <= v.anchor.sequence
      BY <2>1, <3>1, SeenItemsAreBefore
    <3>3. new.first = old.first /\ new.latest = e /\ new.revision = old.revision + 1
      BY <2>2, <2>8
    <3>4. Before(v.turns[t].started, old.first) /\ NotAfter(old.first, e)
      BY <1>2, <2>1, <3>2, AnchorsAreOrdered DEF ItemIsPlaced
    <3>5. /\ new.revision # 1 /\ old.first.sequence # e.sequence
          /\ new.revision <= e.sequence - old.first.sequence + 1
      <4>1. old.first.sequence \in Nat /\ old.latest.sequence \in Nat
        BY <3>2, AnchorsAreOrdered
      <4>2. old.revision <= old.latest.sequence - old.first.sequence + 1
        BY <2>1, <3>2 DEF ItemIsPlaced
      <4>3. old.first.sequence < e.sequence
        BY <3>2 DEF Before
      <4> QED
        BY <1>2, <1>3, <2>3, <2>8, <3>2, <3>3, <4>1, <4>2, <4>3
    <3>6. new.revision <= MaxSafe
      BY <2>2
    <3>7. ItemIsPlaced(w, t, i)
      BY <2>1, <2>5, <2>6, <3>3, <3>4, <3>5, <3>6 DEF ItemIsPlaced
    <3> QED
      BY <1>2, <2>1, <2>2, <3>1, <3>3, <3>7
  <2> QED
    BY <2>7, <2>8
<1>8. ASSUME NEW u \in Turns, NEW j \in Items, IsSeen(w, u, j)
      PROVE  ItemIsPlaced(w, u, j)
  BY <1>6, <1>7, <1>8
<1>9. ASSUME NEW u \in Turns, NEW j \in Items, IsSeen(w, u, j), ~New(u, j), e.item # NoItem
      PROVE  Apart(w.items[u][j], w.items[t][i]) /\ Apart(w.items[t][i], w.items[u][j])
  <2>1. PICK a, b : a = w.items[u][j] /\ b = w.items[t][i]
    OBVIOUS
  <2>2. /\ IsSeen(v, u, j) /\ a = v.items[u][j]
        /\ \A p \in {a.first, a.latest} : p \in Anchors /\ Before(p, e)
    BY <1>4, <1>6, <1>9, <2>1
  <2>3. \A p \in {a.first, a.latest} : p.sequence # e.sequence
    BY <1>3, <2>2, AnchorsAreOrdered DEF Before
  <2>4. b.latest = e /\ i \in Items
    BY <1>7, <1>9, <2>1
  <2>5. CASE b.first = e
    BY <2>1, <2>3, <2>4, <2>5 DEF Apart
  <2>6. CASE b.first # e
    <3>1. IsSeen(v, t, i) /\ b.first = v.items[t][i].first
      BY <1>7, <1>9, <2>1, <2>6
    <3>2. Apart(a, v.items[t][i])
      BY <1>2, <1>9, <2>2, <2>4, <3>1, OrderIsPlacement DEF Shown, SnapshotIsSound, ItemsArePlaced
    <3> QED
      BY <2>1, <2>3, <2>4, <3>1, <3>2 DEF Apart
  <2> QED
    BY <2>5, <2>6
<1>10. ASSUME NEW u \in Turns, NEW j \in Items, IsSeen(w, u, j),
              NEW x \in Turns, NEW k \in Items, IsSeen(w, x, k), u # x \/ j # k
       PROVE  Apart(w.items[u][j], w.items[x][k])
  <2>1. CASE New(u, j)
    BY <1>9, <1>10, <2>1
  <2>2. CASE New(x, k)
    BY <1>9, <1>10, <2>2
  <2>3. CASE ~New(u, j) /\ ~New(x, k)
    <3>1. /\ IsSeen(v, u, j) /\ w.items[u][j] = v.items[u][j]
          /\ IsSeen(v, x, k) /\ w.items[x][k] = v.items[x][k]
      BY <1>4, <1>6, <1>10, <2>3
    <3> QED
      BY <1>10, <3>1, OrderIsPlacement DEF Shown, SnapshotIsSound, ItemsArePlaced
  <2> QED
    BY <2>1, <2>2, <2>3
<1> HIDE DEF New
<1> QED
  BY <1>8, <1>10 DEF ItemsArePlaced

LEMMA OpenItemsStayRecorded ==
  ASSUME NEW v, NEW w, NEW e, Shown(v, e), TurnStep(v, w, e), ItemStep(v, w, e),
         w = Project(v, e), e.event \in {"turn.completed", "turn.interrupted"} => e.item = NoItem
  PROVE  OpenItemsAreRecorded(w)
<1>1. PICK t, i : t = e.turn /\ i = e.item.id
  OBVIOUS
<1>2. w.open \subseteq Turns \X Items /\ v.open \subseteq Turns \X Items /\ t \in Turns
  BY <1>1 DEF ItemStep, TurnStep
<1>3. ASSUME NEW u \in Turns, NEW j \in Items
      PROVE  <<u, j>> \in v.open <=> IsSeen(v, u, j) /\ IsOpenState(v.items[u][j].state)
  <2>1. PICK x : x = <<u, j>>
    OBVIOUS
  <2>2. x[1] = u /\ x[2] = j
    BY <2>1
  <2>3. x \in v.open <=> x \in VisibleItems(v) /\ IsOpenState(v.items[u][j].state)
    BY <2>2 DEF Shown, SnapshotIsSound, OpenItemsAreRecorded
  <2> QED
    BY <2>1, <2>3, SeenItems
<1>4. ASSUME NEW u \in Turns, NEW j \in Items
      PROVE  <<u, j>> \in w.open <=> IsSeen(w, u, j) /\ IsOpenState(w.items[u][j].state)
  <2>1. CASE e.item # NoItem /\ u = t /\ j = i
    <3>1. <<u, j>> \in w.open <=> IsOpenState(e.item.state)
      BY <1>1, <2>1 DEF ItemStep
    <3>2. w.items[u][j].state = e.item.state /\ w.items[u][j].revision = e.revision
      BY <1>1, <2>1 DEF ItemStep
    <3>3. e.revision > 0
      <4>1. v.items[t][i] \in ItemViews /\ e.revision = v.items[t][i].revision + 1
        BY <1>1, <1>2, <2>1 DEF ItemStep
      <4> QED
        BY <4>1, SequencerAssumption DEF ItemViews
    <3> QED
      BY <3>1, <3>2, <3>3 DEF IsSeen
  <2>2. CASE ~(e.item # NoItem /\ u = t /\ j = i)
    <3>1. /\ w.items[u][j] = v.items[u][j]
          /\ <<u, j>> \in w.open <=> <<u, j>> \in v.open
      BY <1>1, <2>2 DEF ItemStep
    <3> QED
      BY <1>3, <3>1 DEF IsSeen
  <2> QED
    BY <2>1, <2>2
<1>5. w.open = {x \in VisibleItems(w) : IsOpenState(w.items[x[1]][x[2]].state)}
  <2>1. ASSUME NEW x \in Turns \X Items
        PROVE  x \in w.open <=> x \in VisibleItems(w) /\ IsOpenState(w.items[x[1]][x[2]].state)
    <3>1. x = <<x[1], x[2]>> /\ x[1] \in Turns /\ x[2] \in Items
      OBVIOUS
    <3>2. PICK u \in Turns, j \in Items : x = <<u, j>> /\ x[1] = u /\ x[2] = j
      BY <3>1
    <3> QED
      BY <1>4, <3>2, SeenItems
  <2>2. VisibleItems(w) \subseteq Turns \X Items
    BY DEF VisibleItems
  <2> QED
    BY <1>2, <2>1, <2>2
<1>6. ASSUME NEW x \in w.open PROVE w.turns[x[1]].state \notin {"completed", "interrupted"}
  <2>1. x \in Turns \X Items /\ x[1] \in Turns
    BY <1>2
  <2>2. PICK u, j : u = x[1] /\ j = x[2] /\ x = <<u, j>> /\ u \in Turns /\ j \in Items
    BY <2>1
  <2>3. CASE u = t
    <3>1. w.turns[t].state = PhaseAfter(e.event)
      BY <1>1 DEF TurnStep
    <3>2. e.event \notin {"turn.completed", "turn.interrupted"}
      <4> SUFFICES ASSUME e.event \in {"turn.completed", "turn.interrupted"} PROVE FALSE
        OBVIOUS
      <4>1. OpenOf(OpenAfter(v, e), t) = {}
        BY <1>1 DEF Shown, Applies
      <4>2. w.open = OpenAfter(v, e)
        BY DEF Project
      <4>3. x \in OpenOf(w.open, t)
        BY <2>2, <2>3 DEF OpenOf
      <4> QED
        BY <4>1, <4>2, <4>3
    <3>3. PhaseAfter(e.event) \notin {"completed", "interrupted"}
      BY <3>2, TerminalEvents DEF PhaseAfter, IsTerminal
    <3> QED
      BY <2>2, <2>3, <3>1, <3>3
  <2>4. CASE u # t
    <3>1. w.turns[u] = v.turns[u]
      BY <1>1, <2>2, <2>4 DEF TurnStep
    <3>2. x \in v.open
      BY <1>1, <2>2, <2>4 DEF ItemStep
    <3>3. v.turns[u].state \notin {"completed", "interrupted"}
      BY <2>2, <3>2 DEF Shown, SnapshotIsSound, OpenItemsAreRecorded
    <3> QED
      BY <2>2, <3>1, <3>3
  <2> QED
    BY <2>3, <2>4
<1> QED
  BY <1>5, <1>6 DEF OpenItemsAreRecorded

(* An accepted event makes of a valid snapshot a valid snapshot.           *)
LEMMA ProjectedIsValid ==
  ASSUME NEW v, NEW e, Shown(v, e), ShapeIsValid(e.event, e.item)
  PROVE  IsView(Project(v, e)) /\ SnapshotIsSound(Project(v, e))
<1>1. PICK w : w = Project(v, e)
  OBVIOUS
<1>2. TurnStep(v, w, e) /\ ItemStep(v, w, e)
  BY <1>1, AppliedTurn, AppliedItem
<1>3. e.event \in {"turn.started", "turn.completed", "turn.interrupted"} => e.item = NoItem
  BY SomeCarryNothing
<1>4. TurnsAreOrdered(w) /\ RunningTurnIsLast(w) /\ (w.anchor = NoEvent <=> VisibleTurns(w) = {})
  BY <1>2, TurnsStayOrdered
<1>5. ItemsAreOrdered(w)
  BY <1>2, <1>3, ItemsStayPlaced, OrderIsPlacement
<1>6. OpenItemsAreRecorded(w)
  BY <1>1, <1>2, <1>3, OpenItemsStayRecorded
<1>7. IsView(w)
  BY <1>2 DEF IsView, TurnStep, ItemStep
<1> QED
  BY <1>1, <1>4, <1>5, <1>6, <1>7 DEF SnapshotIsSound

LEMMA EmptyViewIsValid == IsView(EmptyProjection) /\ SnapshotIsSound(EmptyProjection)
<1>1. PICK v : v = EmptyProjection
  OBVIOUS
<1>2. /\ v.anchor = NoEvent /\ v.running = NoTurn /\ v.open = {}
      /\ v.turns = [t \in Turns |-> HiddenTurn]
      /\ v.items = [t \in Turns |-> [i \in Items |-> HiddenItem]]
  BY <1>1 DEF EmptyProjection
<1>3. /\ \A t \in Turns : v.turns[t].state = "absent"
      /\ \A t \in Turns : \A i \in Items : v.items[t][i].revision = 0
  BY <1>2 DEF HiddenTurn, HiddenItem
<1>4. NoEvent \in Anchors
  BY DEF Anchors
<1>5. HiddenTurn \in TurnViews /\ HiddenItem \in ItemViews
  BY <1>4, SequencerAssumption DEF HiddenTurn, HiddenItem, TurnViews, ItemViews, TurnPhases
<1>6. IsView(v)
  BY <1>2, <1>4, <1>5 DEF IsView
<1>7. VisibleTurns(v) = {} /\ VisibleItems(v) = {}
  <2>1. VisibleTurns(v) = {}
    BY <1>3 DEF VisibleTurns
  <2>2. ASSUME NEW x \in VisibleItems(v) PROVE FALSE
    BY <1>3, SeenItems DEF IsSeen
  <2> QED
    BY <2>1, <2>2
<1>8. TurnsAreOrdered(v) /\ ItemsAreOrdered(v) /\ OpenItemsAreRecorded(v)
  BY <1>2, <1>7 DEF TurnsAreOrdered, ItemsAreOrdered, OpenItemsAreRecorded
<1>9. RunningTurnIsLast(v)
  BY <1>2, <1>3, <1>7 DEF RunningTurnIsLast
<1> QED
  BY <1>1, <1>2, <1>6, <1>7, <1>8, <1>9 DEF SnapshotIsSound

-----------------------------------------------------------------------------
(* The sequencer and the projection read the same history: what the one    *)
(* accepts, the other shows.                                               *)
Looks(phase, state) ==
  \/ phase = "absent" /\ state = "none"
  \/ phase = "streaming" /\ IsOpenState(state)
  \/ phase = "updating" /\ state = "updated"
  \/ phase = "terminal" /\ state \in {"completed", "truncated"}
ItemLooks(a, b) ==
  /\ a.revision = b.revision /\ a.shape = b.shape /\ Looks(a.phase, b.state)
  /\ a.phase = "absent" <=> a.revision = 0
Matches(x, v) ==
  /\ IsAt(x, v.anchor)
  /\ \A t \in Turns : v.turns[t].state = x.turns[t].phase
  /\ \A t \in Turns, i \in Items : ItemLooks(x.turns[t].items[i], v.items[t][i])

LEMMA ItemAppliedExactly ==
  ASSUME NEW turn, NEW event, NEW item, ItemApplied(turn, event, item).outcome = "ok"
  PROVE  LET a == turn.items[item.id]
             next == NextItemPhase(a.phase, IF IsTerminal(event) THEN "item.completed" ELSE event,
                                   item.state)
         IN  /\ next # "absent" /\ a.revision + 1 <= MaxSafe
             /\ a.phase # "absent" => a.shape = item.shape
             /\ ItemApplied(turn, event, item).item
                  = [revision |-> a.revision + 1, phase |-> next, shape |-> item.shape]
<1>1. PICK a, name : /\ a = turn.items[item.id]
                     /\ name = IF IsTerminal(event) THEN "item.completed" ELSE event
  OBVIOUS
<1>2. PICK next : next = NextItemPhase(a.phase, name, item.state)
  OBVIOUS
<1>3. PICK applied : applied = ItemApplied(turn, event, item)
  OBVIOUS
<1>4. applied = IF \/ item.id \in Reserved
                   \/ next = "absent"
                   \/ a.phase # "absent" /\ a.shape # item.shape
                THEN ItemRefused
                ELSE ItemOk(a.revision + 1, next, item.shape)
  BY <1>1, <1>2, <1>3 DEF ItemApplied, ApplyItem
<1>5. ItemRefused.outcome = "violation"
  BY DEF ItemRefused
<1>6. applied = ItemOk(a.revision + 1, next, item.shape)
      /\ next # "absent" /\ (a.phase # "absent" => a.shape = item.shape)
  BY <1>3, <1>4, <1>5
<1>7. /\ a.revision + 1 <= MaxSafe
      /\ applied.item = [revision |-> a.revision + 1, phase |-> next, shape |-> item.shape]
  BY <1>3, <1>6 DEF ItemOk
<1> QED
  BY <1>1, <1>2, <1>3, <1>6, <1>7

LEMMA NextPhaseLooks ==
  ASSUME NEW phase, NEW name, NEW state \in ItemStates, NEW before, Looks(phase, before),
         NEW next, next = NextItemPhase(phase, name, state), next # "absent"
  PROVE  ItemTransition(before, state) /\ Looks(next, state)
<1>1. CASE phase = "absent"
  BY <1>1 DEF NextItemPhase, Looks, ItemTransition, IsOpenState, ItemStates
<1>2. CASE phase = "streaming"
  BY <1>2 DEF NextItemPhase, Looks, ItemTransition, IsOpenState, ItemStates
<1>3. CASE phase = "updating"
  BY <1>3 DEF NextItemPhase, Looks, ItemTransition, IsOpenState, ItemStates
<1>4. CASE phase = "terminal"
  BY <1>4 DEF NextItemPhase, Looks, ItemTransition, IsOpenState, ItemStates
<1> QED
  BY <1>1, <1>2, <1>3, <1>4 DEF Looks

(* An event the sequencer accepts, on a state that matches the view.       *)
Follows(x, v, e) ==
  /\ IsSession(x) /\ IsView(v) /\ SnapshotIsSound(v) /\ Matches(x, v)
  /\ e \in Envelopes /\ CanReplay(x, e)

LEMMA FollowedExactly ==
  ASSUME NEW x, NEW v, NEW e, Follows(x, v, e)
  PROVE  /\ Acceptable(x, e.turn, e.event, e.item, e.timestamp)
         /\ e = EventAfter(e.session, x, e.turn, e.event, e.item, e.timestamp)
         /\ Replay(x, e) = SessionAfter(x, e)
         /\ e.turn \in Turns /\ ShapeIsValid(e.event, e.item)
         /\ e.state = PhaseAfter(e.event)
         /\ e.item # NoItem => e.item \in ItemRequests /\ e.event # "turn.started"
<1>1. e.turn \in Turns /\ e.item \in ItemRequests \cup {NoItem}
  BY DEF Follows, Envelopes
<1>2. /\ Acceptable(x, e.turn, e.event, e.item, e.timestamp)
      /\ e = EventAfter(e.session, x, e.turn, e.event, e.item, e.timestamp)
      /\ Replay(x, e) = SessionAfter(x, e)
  BY <1>1, ReplayExactly DEF Follows, IsSession
<1>3. ShapeIsValid(e.event, e.item) /\ e.state = PhaseAfter(e.event)
  BY <1>2 DEF Acceptable, Allowed, EventAfter
<1>4. e.event = "turn.started" => e.item = NoItem
  BY <1>3, SomeCarryNothing
<1> QED
  BY <1>1, <1>2, <1>3, <1>4

LEMMA FollowedItem ==
  ASSUME NEW x, NEW v, NEW e, Follows(x, v, e), e.item # NoItem
  PROVE  /\ ItemIsVisible(v, e)
         /\ LET a == ItemApplied(x.turns[e.turn], e.event, e.item).item
            IN  /\ a.revision = e.revision /\ a.shape = e.item.shape /\ a.revision # 0
                /\ Looks(a.phase, e.item.state) /\ a.phase # "absent"
<1>1. PICK t, i, turn, name :
         /\ t = e.turn /\ i = e.item.id /\ turn = x.turns[t]
         /\ name = IF IsTerminal(e.event) THEN "item.completed" ELSE e.event
  OBVIOUS
<1>2. /\ t \in Turns /\ i \in Items /\ e.item.state \in ItemStates /\ e.event # "turn.started"
      /\ Acceptable(x, t, e.event, e.item, e.timestamp)
      /\ e.revision = RevisionAfter(turn, e.event, e.item)
  BY <1>1, FollowedExactly DEF ItemRequests, EventAfter
<1>3. PICK old, seen : old = turn.items[i] /\ seen = v.items[t][i]
  OBVIOUS
<1>4. ItemLooks(old, seen) /\ old.revision \in Nat /\ seen.revision \in Nat
  <2>1. ItemLooks(old, seen)
    BY <1>1, <1>2, <1>3 DEF Follows, Matches
  <2>2. seen.revision \in Nat
    BY <1>2, <1>3, SequencerAssumption DEF Follows, IsView, ItemViews
  <2> QED
    BY <2>1, <2>2 DEF ItemLooks
<1>5. PICK applied : applied = ItemApplied(turn, e.event, e.item)
  OBVIOUS
<1>6. applied.outcome = "ok"
  BY <1>1, <1>2, <1>5 DEF Acceptable, Allowed
<1>7. PICK next : next = NextItemPhase(old.phase, name, e.item.state)
  OBVIOUS
<1>8. /\ next # "absent" /\ old.revision + 1 <= MaxSafe
      /\ old.phase # "absent" => old.shape = e.item.shape
      /\ applied.item = [revision |-> old.revision + 1, phase |-> next, shape |-> e.item.shape]
  <2>1. PICK event, item : event = e.event /\ item = e.item
    OBVIOUS
  <2>2. ItemApplied(turn, event, item).outcome = "ok"
    BY <1>5, <1>6, <2>1
  <2>3. /\ NextItemPhase(turn.items[item.id].phase,
                          IF IsTerminal(event) THEN "item.completed" ELSE event, item.state) = next
        /\ turn.items[item.id] = old /\ ItemApplied(turn, event, item) = applied
    BY <1>1, <1>3, <1>5, <1>7, <2>1
  <2> QED
    BY <2>1, <2>2, <2>3, ItemAppliedExactly
<1>9. e.revision = old.revision + 1
  BY <1>2, <1>5, <1>8 DEF RevisionAfter
<1>10. ItemTransition(seen.state, e.item.state) /\ Looks(next, e.item.state)
  BY <1>2, <1>4, <1>8, <1>7, NextPhaseLooks DEF ItemLooks
<1>11. /\ e.revision = seen.revision + 1 /\ e.revision <= MaxSafe
       /\ seen.revision > 0 => seen.shape = e.item.shape
  BY <1>4, <1>8, <1>9 DEF ItemLooks
<1>12. ItemIsVisible(v, e)
  BY <1>1, <1>3, <1>10, <1>11 DEF ItemIsVisible
<1>13. old.revision + 1 # 0
  BY <1>4
<1> QED
  BY <1>1, <1>5, <1>8, <1>9, <1>10, <1>12, <1>13

LEMMA FollowedApplies ==
  ASSUME NEW x, NEW v, NEW e, Follows(x, v, e)
  PROVE  Applies(v, e)
<1>1. PICK t : t = e.turn
  OBVIOUS
<1>2. /\ t \in Turns /\ e.state = PhaseAfter(e.event)
      /\ Allowed(x, t, e.event, e.item)
  BY <1>1, FollowedExactly DEF Acceptable
<1>3. /\ e.sequence = v.anchor.sequence + 1 /\ e.sequence <= MaxSafe
      /\ e.timestamp >= v.anchor.timestamp
      /\ x.turns[t].phase = IF e.event = "turn.started" THEN "absent" ELSE "running"
      /\ e.event = "turn.started" => RunningTurns(x) = {}
  BY <1>1, <1>2, TakenMoves DEF Follows, Matches, IsAt
<1>4. \A u \in Turns : v.turns[u].state = x.turns[u].phase
  BY DEF Follows, Matches
<1>5. {u \in Turns : v.turns[u].state = "running"}
        = (IF v.running = NoTurn THEN {} ELSE {v.running})
  BY DEF Follows, SnapshotIsSound, RunningTurnIsLast
<1>6. IF e.event = "turn.started"
      THEN /\ v.turns[t].state = "absent" /\ v.running = NoTurn
           /\ \A u \in Turns : v.turns[u].state # "running"
      ELSE v.turns[t].state = "running" /\ v.running = t
  <2>1. CASE e.event = "turn.started"
    <3>1. \A u \in Turns : v.turns[u].state # "running"
      BY <1>3, <1>4, <2>1 DEF RunningTurns, Running
    <3> QED
      BY <1>2, <1>3, <1>4, <1>5, <2>1, <3>1
  <2>2. CASE e.event # "turn.started"
    <3>1. v.turns[t].state = "running"
      BY <1>2, <1>3, <1>4, <2>2
    <3> QED
      BY <1>2, <1>5, <2>2, <3>1
  <2> QED
    BY <2>1, <2>2
<1>7. e.item # NoItem => ItemIsVisible(v, e)
  BY FollowedItem
<1>8. e.event \in {"turn.completed", "turn.interrupted"} => OpenOf(OpenAfter(v, e), t) = {}
  <2> SUFFICES ASSUME e.event \in {"turn.completed", "turn.interrupted"},
                      NEW o \in OpenOf(OpenAfter(v, e), t)
               PROVE  FALSE
    OBVIOUS
  <2>1. e.item = NoItem /\ e.event # "turn.started"
    BY FollowedExactly, SomeCarryNothing
  <2>2. o \in v.open /\ o[1] = t
    BY <2>1 DEF OpenOf, OpenAfter
  <2>3. o \in VisibleItems(v) /\ IsOpenState(v.items[o[1]][o[2]].state)
    BY <2>2 DEF Follows, SnapshotIsSound, OpenItemsAreRecorded
  <2>4. PICK i : i = o[2] /\ i \in Items /\ IsOpenState(v.items[t][i].state)
    BY <2>2, <2>3, SeenItems DEF IsSeen
  <2>5. Looks(x.turns[t].items[i].phase, v.items[t][i].state)
    BY <1>2, <2>4 DEF Follows, Matches, ItemLooks
  <2>6. x.turns[t].items[i].phase = "streaming"
    BY <2>4, <2>5 DEF Looks, IsOpenState
  <2>7. PhaseAfter(e.event) \in {"completed", "interrupted"}
    BY TerminalEvents DEF PhaseAfter, IsTerminal
  <2>8. OpenItems(x.turns[t]) = {}
    BY <1>2, <2>1, <2>7 DEF Allowed
  <2> QED
    BY <2>4, <2>6, <2>8 DEF OpenItems
<1> QED
  BY <1>1, <1>2, <1>3, <1>6, <1>7, <1>8 DEF Applies, PhaseAfter

LEMMA FollowedMatches ==
  ASSUME NEW x, NEW v, NEW e, Follows(x, v, e)
  PROVE  /\ Matches(Replay(x, e), Project(v, e))
         /\ IsView(Project(v, e)) /\ SnapshotIsSound(Project(v, e))
<1>1. Shown(v, e) /\ ShapeIsValid(e.event, e.item)
  BY FollowedApplies, FollowedExactly DEF Follows, Shown
<1>2. PICK t, i, y, w, turn : /\ t = e.turn /\ i = e.item.id
                              /\ y = Replay(x, e) /\ w = Project(v, e)
                              /\ turn = x.turns[t]
  OBVIOUS
<1>3. TurnStep(v, w, e) /\ ItemStep(v, w, e) /\ IsView(w) /\ SnapshotIsSound(w)
  BY <1>1, <1>2, AppliedTurn, AppliedItem, ProjectedIsValid
<1>4. t \in Turns /\ y = SessionAfter(x, e) /\ (e.item # NoItem => i \in Items)
  BY <1>2, FollowedExactly DEF ItemRequests
<1>5. PICK after : after = TurnAfter(turn, e.event, e.item)
  OBVIOUS
<1>6. x.turns \in [Turns -> TurnSequence] /\ turn.items \in [Items -> ItemSequence]
  BY <1>2, <1>4 DEF Follows, IsSession, SessionFits, TurnSequence
<1>7. /\ y.turns = [x.turns EXCEPT ![t] = after]
      /\ y.lastEvent = e /\ y.sequence = e.sequence /\ y.timestamp = e.timestamp
  BY <1>2, <1>4, <1>5 DEF SessionAfter
<1>8. y.turns[t] = after /\ \A u \in Turns : u # t => y.turns[u] = x.turns[u]
  BY <1>4, <1>6, <1>7
<1>9. IsAt(y, w.anchor)
  BY <1>3, <1>7 DEF IsAt, TurnStep
<1>10. ASSUME NEW u \in Turns PROVE w.turns[u].state = y.turns[u].phase
  <2>1. CASE u = t
    BY <1>2, <1>3, <1>5, <1>8, <2>1 DEF TurnAfter, TurnStep
  <2>2. CASE u # t
    BY <1>2, <1>3, <1>8, <2>2 DEF TurnStep, Follows, Matches
  <2> QED
    BY <2>1, <2>2
<1>11. ASSUME NEW u \in Turns, NEW j \in Items
       PROVE  ItemLooks(y.turns[u].items[j], w.items[u][j])
  <2>1. ItemLooks(x.turns[u].items[j], v.items[u][j])
    BY DEF Follows, Matches
  <2>2. CASE e.item # NoItem /\ u = t /\ j = i
    <3>1. PICK new : new = ItemApplied(turn, e.event, e.item).item
      OBVIOUS
    <3>2. after.items = [turn.items EXCEPT ![i] = new]
      BY <1>2, <1>5, <2>2, <3>1 DEF TurnAfter
    <3>3. after.items[j] = new
      BY <1>6, <2>2, <3>2
    <3>4. /\ new.revision = e.revision /\ new.shape = e.item.shape /\ new.revision # 0
          /\ Looks(new.phase, e.item.state) /\ new.phase # "absent"
      BY <1>2, <2>2, <3>1, FollowedItem
    <3>5. /\ w.items[u][j].revision = e.revision /\ w.items[u][j].shape = e.item.shape
          /\ w.items[u][j].state = e.item.state
      BY <1>2, <1>3, <2>2 DEF ItemStep
    <3> QED
      BY <1>8, <2>2, <3>3, <3>4, <3>5 DEF ItemLooks
  <2>3. CASE ~(e.item # NoItem /\ u = t /\ j = i)
    <3>1. w.items[u][j] = v.items[u][j]
      BY <1>2, <1>3, <2>3 DEF ItemStep
    <3>2. y.turns[u].items[j] = x.turns[u].items[j]
      <4>1. CASE u # t
        BY <1>8, <4>1
      <4>2. CASE u = t /\ e.item = NoItem
        BY <1>2, <1>5, <1>8, <4>2 DEF TurnAfter
      <4>3. CASE u = t /\ e.item # NoItem /\ j # i
        <5>1. PICK new : new = ItemApplied(turn, e.event, e.item).item
          OBVIOUS
        <5>2. after.items = [turn.items EXCEPT ![i] = new]
          BY <1>2, <1>5, <4>3, <5>1 DEF TurnAfter
        <5> QED
          BY <1>2, <1>6, <1>8, <4>3, <5>2
      <4> QED
        BY <2>3, <4>1, <4>2, <4>3
    <3> QED
      BY <2>1, <3>1, <3>2
  <2> QED
    BY <2>2, <2>3
<1> QED
  BY <1>2, <1>3, <1>9, <1>10, <1>11 DEF Matches

LEMMA EmptyMatches == Matches(EmptySession, EmptyProjection)
<1>1. PICK x, v : x = EmptySession /\ v = EmptyProjection
  OBVIOUS
<1>2. /\ x.sequence = 0 /\ x.timestamp = 0 /\ x.lastEvent = NoEvent
      /\ x.turns = [t \in Turns |-> AbsentTurn]
      /\ v.anchor = NoEvent /\ v.turns = [t \in Turns |-> HiddenTurn]
      /\ v.items = [t \in Turns |-> [i \in Items |-> HiddenItem]]
  BY <1>1 DEF EmptySession, EmptyProjection
<1>3. AbsentTurn.phase = "absent" /\ \A i \in Items : AbsentTurn.items[i] = AbsentItem
  BY DEF AbsentTurn
<1>4. ItemLooks(AbsentItem, HiddenItem)
  BY DEF ItemLooks, AbsentItem, HiddenItem, Looks
<1>5. HiddenTurn.state = "absent"
  BY DEF HiddenTurn
<1>6. IsAt(x, v.anchor)
  BY <1>2 DEF IsAt, NoEvent
<1> QED
  BY <1>1, <1>2, <1>3, <1>4, <1>5, <1>6 DEF Matches

(* Whatever history the sequencer replays, the projection shows.           *)
LEMMA HistoryShows ==
  ASSUME NEW p \in Seq(Envelopes), NEW r, Runs("replay", r, EmptySession, p)
  PROVE  \E q : /\ Runs("project", q, EmptyProjection, p)
                /\ \A n \in 0..Len(p) : Matches(r[n], q[n]) /\ IsView(q[n]) /\ SnapshotIsSound(q[n])
<1>1. IsList(p) /\ OfTurns(p) /\ Len(p) \in Nat
  BY EventsAreOfTurns
<1>2. PICK w : Walk("project", w, Holder("project", EmptyProjection), p)
  BY <1>1, FoldIsWalk
<1> DEFINE q == [n \in 0..Len(p) |-> w[n].view]
           Good(n) == /\ w[n] = Holder("project", q[n])
                      /\ Matches(r[n], q[n]) /\ IsView(q[n]) /\ SnapshotIsSound(q[n])
                      /\ n # 0 => Applies(q[n - 1], p[n]) /\ q[n] = Project(q[n - 1], p[n])
           good == {n \in 0..Len(p) : Good(n)}
<1>3. 0 \in good
  <2>1. w[0] = Holder("project", EmptyProjection) /\ r[0] = EmptySession
    BY <1>2 DEF Walk, Runs
  <2>2. q[0] = EmptyProjection
    BY <1>1, <2>1 DEF Holder
  <2>3. Good(0)
    <3> HIDE DEF q
    <3> QED
      BY <2>1, <2>2, EmptyMatches, EmptyViewIsValid
  <2> HIDE DEF Good
  <2> QED
    BY <1>1, <2>3
<1>4. ASSUME NEW n \in 0..Len(p) - 1, n \in good PROVE n + 1 \in good
  <2>1. n + 1 \in 1..Len(p) /\ (n + 1) - 1 = n /\ n + 1 \in 0..Len(p) /\ n + 1 # 0
    BY <1>1
  <2>2. PICK x, v, e : x = r[n] /\ v = q[n] /\ e = p[n + 1]
    OBVIOUS
  <2>3. w[n] = Holder("project", v) /\ Matches(x, v) /\ IsView(v) /\ SnapshotIsSound(v)
    BY <1>4, <2>2
  <2>4. CanReplay(x, e) /\ r[n + 1] = Replay(x, e) /\ IsSession(x)
    <3>1. \A m \in 0..Len(p) : IsSession(r[m])
      BY <1>1, EmptyIsSession, RunKeepsSessions
    <3> QED
      BY <2>1, <2>2, <3>1 DEF Runs, Takes, Moved
  <2>5. e \in Envelopes
    BY <1>1, <2>1, <2>2
  <2>6. Follows(x, v, e)
    BY <2>3, <2>4, <2>5 DEF Follows
  <2>7. /\ Applies(v, e) /\ Matches(Replay(x, e), Project(v, e))
        /\ IsView(Project(v, e)) /\ SnapshotIsSound(Project(v, e))
    BY <2>6, FollowedApplies, FollowedMatches
  <2>8. w[n + 1] = Holder("project", Project(v, e))
    <3>1. w[n + 1] = FoldStep("project", w[n], e)
      BY <1>2, <2>1, <2>2 DEF Walk
    <3> QED
      BY <2>3, <2>7, <3>1, StepTakes DEF Takes, Moved
  <2>9. q[n + 1] = Project(v, e)
    BY <2>1, <2>8 DEF Holder
  <2>10. Good(n + 1)
    <3> HIDE DEF q
    <3> QED
      BY <2>1, <2>2, <2>4, <2>7, <2>8, <2>9
  <2> HIDE DEF Good
  <2> QED
    BY <2>1, <2>10
<1>5. 0..Len(p) \subseteq good
  <2> HIDE DEF good
  <2> QED
    BY <1>1, <1>3, <1>4, CountUp
<1>6. q[0] = EmptyProjection
  BY <1>1, <1>2 DEF Walk, Holder
<1> HIDE DEF q
<1>7. Runs("project", q, EmptyProjection, p)
  <2>1. \A n \in 1..Len(p) : Applies(q[n - 1], p[n]) /\ q[n] = Project(q[n - 1], p[n])
    <3>1. \A n \in 1..Len(p) : n \in 0..Len(p) /\ n # 0
      BY <1>1
    <3> QED
      BY <1>5, <3>1
  <2> QED
    BY <1>6, <2>1 DEF Runs, Takes, Moved
<1> QED
  BY <1>5, <1>7

-----------------------------------------------------------------------------
(* The floor snapshot is the view of the history up to the floor.          *)
ViewAfter(events) == ProjectFrom(EmptyProjection, events)
ViewIsReached(s) ==
  snapshot[s] = IF deletion[s] = "purged" THEN EmptyProjection
                ELSE ViewAfter(SubSeq(log[s], 1, Floor(s))).view
ViewInv == \A s \in Sessions : ViewIsReached(s)

LEMMA ViewIsFold ==
  /\ \A v, p : ProjectFrom(v, p) = Fold("project", Holder("project", v), p)
  /\ \A p : ViewAfter(p) = Fold("project", Holder("project", EmptyProjection), p)
  /\ \A v : Holder("project", v) = [ok |-> TRUE, view |-> v]
<1>1. \A v : Holder("project", v) = [ok |-> TRUE, view |-> v]
  BY DEF Holder
<1>2. \A v, p : ProjectFrom(v, p) = Fold("project", Holder("project", v), p)
  <2> TAKE v, p
  <2>1. ProjectFrom(v, p) = FoldLeft(ProjectStep, [ok |-> TRUE, view |-> v], p)
    BY DEF ProjectFrom
  <2>2. Fold("project", Holder("project", v), p)
          = FoldLeft(ProjectStep, [ok |-> TRUE, view |-> v], p)
    BY <1>1 DEF Fold
  <2> QED
    BY <2>1, <2>2
<1> QED
  BY <1>1, <1>2 DEF ViewAfter

(* A history cut at the floor: the states and the views after each of its  *)
(* events, and what the floor snapshot and the rows above it give.         *)
LEMMA FloorShows ==
  ASSUME NEW p \in Seq(Envelopes), NEW r, Runs("replay", r, EmptySession, p), NEW f \in 0..Len(p)
  PROVE  \E q :
           /\ \A n \in 0..Len(p) : /\ Matches(r[n], q[n]) /\ SnapshotIsSound(q[n])
                                   /\ ViewAfter(SubSeq(p, 1, n)) = Holder("project", q[n])
           /\ ViewAfter(p) = Holder("project", q[Len(p)])
           /\ \A k \in 0..Len(p) - f :
                ProjectFrom(q[f], SubSeq(SubSeq(p, f + 1, Len(p)), 1, k))
                  = Holder("project", q[f + k])
           /\ ProjectFrom(q[f], SubSeq(p, f + 1, Len(p))) = Holder("project", q[Len(p)])
<1>1. IsList(p) /\ Len(p) \in Nat
  BY EventsAreOfTurns
<1>2. PICK q : /\ Runs("project", q, EmptyProjection, p)
               /\ \A n \in 0..Len(p) : Matches(r[n], q[n]) /\ IsView(q[n]) /\ SnapshotIsSound(q[n])
  BY HistoryShows
<1>3. ASSUME NEW n \in 0..Len(p)
      PROVE  ViewAfter(SubSeq(p, 1, n)) = Holder("project", q[n])
  <2>1. PICK a : a = SubSeq(p, 1, n)
    OBVIOUS
  <2>2. a \in Seq(Envelopes) /\ Len(a) = n
    BY <1>1, <2>1
  <2>3. Runs("project", q, EmptyProjection, a) /\ IsList(a)
    BY <1>2, <2>1, <2>2, RunSplits, EventsAreOfTurns
  <2>4. Fold("project", Holder("project", EmptyProjection), a) = Holder("project", q[n])
    BY <2>2, <2>3, RunIsFold
  <2> QED
    BY <2>1, <2>4, ViewIsFold
<1>4. ViewAfter(p) = Holder("project", q[Len(p)])
  BY <1>1, <1>2, RunIsFold, ViewIsFold
<1>5. PICK b : b = SubSeq(p, f + 1, Len(p))
  OBVIOUS
<1>6. b \in Seq(Envelopes) /\ Len(b) = Len(p) - f /\ IsList(b) /\ Len(b) \in Nat
  <2>1. b \in Seq(Envelopes) /\ Len(b) = Len(p) - f
    BY <1>1, <1>5, SuffixFacts
  <2> QED
    BY <1>1, <2>1, EventsAreOfTurns
<1>7. PICK w : Runs("project", w, q[f], b) /\ \A n \in 0..Len(p) - f : w[n] = q[f + n]
  BY <1>2, <1>5, RunSplits
<1>8. ASSUME NEW k \in 0..Len(p) - f
      PROVE  ProjectFrom(q[f], SubSeq(b, 1, k)) = Holder("project", q[f + k])
  <2>1. PICK a : a = SubSeq(b, 1, k)
    OBVIOUS
  <2>2. k \in 0..Len(b)
    BY <1>6
  <2>3. a \in Seq(Envelopes) /\ Len(a) = k
    BY <1>6, <2>1, <2>2
  <2>4. Runs("project", w, q[f], a) /\ IsList(a)
    BY <1>6, <1>7, <2>1, <2>2, <2>3, RunSplits, EventsAreOfTurns
  <2>5. Fold("project", Holder("project", q[f]), a) = Holder("project", w[k])
    BY <2>3, <2>4, RunIsFold
  <2> QED
    BY <1>7, <2>1, <2>5, ViewIsFold
<1>9. ProjectFrom(q[f], b) = Holder("project", q[Len(p)])
  <2>1. Fold("project", Holder("project", q[f]), b) = Holder("project", w[Len(b)])
    BY <1>6, <1>7, RunIsFold
  <2>2. Len(b) \in 0..Len(p) - f /\ f + Len(b) = Len(p)
    BY <1>1, <1>6
  <2>3. w[Len(b)] = q[f + Len(b)]
    BY <1>7, <2>2
  <2> QED
    BY <2>1, <2>2, <2>3, ViewIsFold
<1> QED
  BY <1>2, <1>3, <1>4, <1>5, <1>8, <1>9

(* What the states reached so far are: of the histories, and of the rows.  *)
LEMMA StatesShow ==
  ASSUME ReplayInv, NEW s \in Sessions, deletion[s] # "purged"
  PROVE  LET p == log[s]
             f == Floor(s)
         IN  /\ p \in Seq(Envelopes) /\ f \in 0..Len(p) /\ Len(p) \in Nat
             /\ rows[s] = SubSeq(p, f + 1, Len(p)) /\ Len(rows[s]) = Len(p) - f
             /\ \A n \in 1..Len(p) - f : rows[s][n] = p[f + n] /\ p[f + n].sequence = f + n
             /\ \E r : /\ Runs("replay", r, EmptySession, p)
                       /\ \A n \in 1..Len(p) : r[n].lastEvent = p[n]
                       /\ \A n \in 0..Len(p) : /\ IsSession(r[n])
                                               /\ CheckpointIsSound(CheckpointOf(r[n]))
                       /\ \A k \in 0..Len(p) - f : \E y :
                            /\ ReplayFrom(checkpoint[s], SubSeq(rows[s], 1, k))
                                 = Holder("replay", y)
                            /\ IsSession(y) /\ Same(y, r[f + k])
<1>1. PICK p, f, c : p = log[s] /\ f = Floor(s) /\ c = checkpoint[s]
  OBVIOUS
<1>2. /\ p \in Seq(Envelopes) /\ f \in 0..Len(p) /\ Len(p) \in Nat
      /\ rows[s] = SubSeq(p, f + 1, Len(p)) /\ IsHistory(p)
  <2>1. log[s] \in Seq(Envelopes) /\ HeadIsLast(s) /\ IsHistory(log[s])
    BY DEF ReplayInv, IInv, TypeOK
  <2> QED
    BY <1>1, <2>1 DEF HeadIsLast, Floor
<1>3. Len(rows[s]) = Len(p) - f /\ \A n \in 1..Len(p) - f : rows[s][n] = p[f + n]
  BY <1>2, SuffixFacts
<1>4. \A n \in 1..Len(p) - f : p[f + n].sequence = f + n
  <2>1. \A n \in 1..Len(p) : p[n].sequence = n
    BY <1>2 DEF IsHistory
  <2>2. \A n \in 1..Len(p) - f : f + n \in 1..Len(p)
    BY <1>2
  <2> QED
    BY <2>1, <2>2
<1>5. /\ StateAfter(p).ok /\ ValidCheckpoint(c)
      /\ c = CheckpointOf(StateAfter(SubSeq(p, 1, f)).session)
  BY <1>1 DEF ReplayInv, HistoryReplays, FloorIsReached
<1>6. PICK r : /\ Runs("replay", r, EmptySession, p)
               /\ \A n \in 0..Len(p) : IsSession(r[n])
               /\ \A n \in 0..Len(p) - f : \E y :
                      /\ ReplayFrom(c, SubSeq(SubSeq(p, f + 1, Len(p)), 1, n)) = Holder("replay", y)
                      /\ IsSession(y) /\ Same(y, r[f + n])
  BY <1>2, <1>5, FloorReplays
<1>7. IsList(p) /\ OfTurns(p)
  BY <1>2, EventsAreOfTurns
<1>8. \A n \in 1..Len(p) : r[n].lastEvent = p[n]
  BY <1>6, <1>7, EmptyIsSession, RunIsAtLast
<1>9. ASSUME NEW n \in 0..Len(p) PROVE CheckpointIsSound(CheckpointOf(r[n]))
  <2>1. Counted(r[n]) /\ PhasesTell(r[n], p, n)
    BY <1>6, <1>7, RunIsCounted, PhasesAlwaysTell
  <2> QED
    BY <2>1, CheckpointIsValid DEF PhasesTell
<1> QED
  BY <1>1, <1>2, <1>3, <1>4, <1>6, <1>8, <1>9

LEMMA InitShows == Init => ViewInv
<1> SUFFICES ASSUME Init, NEW s \in Sessions PROVE ViewIsReached(s)
  BY DEF ViewInv
<1>1. /\ log[s] = <<>> /\ cursor[s] = [head |-> NoEvent, floor |-> NoEvent]
      /\ snapshot[s] = EmptyProjection
  BY DEF Init
<1>2. SubSeq(log[s], 1, Floor(s)) = <<>>
  BY <1>1 DEF Floor, NoEvent
<1>3. ViewAfter(<<>>) = Holder("project", EmptyProjection)
  BY FoldOfNone, ViewIsFold
<1>4. ViewAfter(<<>>).view = EmptyProjection
  BY <1>3, ViewIsFold
<1> QED
  BY <1>1, <1>2, <1>4 DEF ViewIsReached

(* A step that changes neither the snapshot nor the floor of a Session,    *)
(* and at most lengthens its history.                                      *)
LEMMA ViewIsKept ==
  ASSUME ReplayInv, NEW s \in Sessions, ViewIsReached(s), deletion[s] # "purged",
         snapshot'[s] = snapshot[s], cursor'[s].floor = cursor[s].floor, deletion'[s] # "purged",
         NEW q \in Seq(Envelopes), log'[s] = log[s] \o q
  PROVE  ViewIsReached(s)'
<1>1. PICK p, f : p = log[s] /\ f = Floor(s)
  OBVIOUS
<1>2. p \in Seq(Envelopes) /\ f \in 0..Len(p)
  BY <1>1, StatesShow
<1>3. SubSeq(p \o q, 1, f) = SubSeq(p, 1, f)
  BY <1>2
<1>4. Floor(s)' = f
  BY <1>1 DEF Floor
<1> QED
  BY <1>1, <1>3, <1>4 DEF ViewIsReached

LEMMA ViewStays ==
  ASSUME ReplayInv, UNCHANGED <<snapshot, cursor, log>>, NEW s \in Sessions, ViewIsReached(s),
         (deletion'[s] = "purged") <=> (deletion[s] = "purged")
  PROVE  ViewIsReached(s)'
BY DEF ViewIsReached, Floor

LEMMA AppendKeepsView ==
  ASSUME ReplayInv, ViewInv, AppendCall
  PROVE  ViewInv'
<1>1. PICK s, new : s = call.session /\ new = call.events
  OBVIOUS
<1>2. /\ call.stage = "prepared" /\ deletion[s] = "none"
      /\ cursor' = [cursor EXCEPT ![s].head = new[Len(new)]]
      /\ log' = [log EXCEPT ![s] = @ \o new]
      /\ UNCHANGED <<snapshot, deletion>>
  BY <1>1 DEF AppendCall, AppendIsPermitted, Writable
<1>3. /\ s \in Sessions /\ new \in Seq(Envelopes)
      /\ log \in [Sessions -> Seq(Envelopes)]
      /\ cursor \in [Sessions -> [head : Anchors, floor : Anchors]]
  BY <1>1, <1>2 DEF ReplayInv, IInv, TypeOK, CallReplays
<1>4. cursor'[s].floor = cursor[s].floor /\ \A z \in Sessions \ {s} : cursor'[z] = cursor[z]
  <2>1. PICK v : v = new[Len(new)]
    OBVIOUS
  <2>2. PICK a : a = cursor[s] /\ a \in [head : Anchors, floor : Anchors]
    BY <1>3
  <2>3. PICK b : b = [a EXCEPT !.head = v]
    OBVIOUS
  <2>4. b.floor = a.floor
    BY <2>2, <2>3
  <2>5. cursor' = [cursor EXCEPT ![s] = b]
    BY <1>2, <2>1, <2>2, <2>3
  <2> QED
    BY <1>3, <2>2, <2>4, <2>5
<1>5. log'[s] = log[s] \o new /\ \A z \in Sessions \ {s} : log'[z] = log[z]
  BY <1>2, <1>3
<1>6. ViewIsReached(s)'
  <2>1. ViewIsReached(s) /\ deletion[s] # "purged" /\ deletion'[s] # "purged"
    BY <1>2, <1>3 DEF ViewInv
  <2>2. snapshot'[s] = snapshot[s]
    BY <1>2
  <2> QED
    BY <1>3, <1>4, <1>5, <2>1, <2>2, ViewIsKept
<1>7. ASSUME NEW z \in Sessions \ {s} PROVE ViewIsReached(z)'
  <2>1. ViewIsReached(z)
    BY DEF ViewInv
  <2> QED
    BY <1>2, <1>4, <1>5, <2>1 DEF ViewIsReached, Floor
<1> QED
  BY <1>6, <1>7 DEF ViewInv

LEMMA PruneKeepsView ==
  ASSUME ReplayInv, ViewInv, NEW s \in Sessions, NEW k \in 1..Len(rows[s]), Prune(s, k)
  PROVE  ViewInv'
<1>1. PICK p, f, b, v : p = log[s] /\ f = Floor(s) /\ b = rows[s] /\ v = snapshot[s]
  OBVIOUS
<1>2. /\ deletion[s] = "none" /\ UNCHANGED <<deletion, log>>
      /\ snapshot' = [snapshot EXCEPT ![s] = PrunedView(s, k).view]
      /\ cursor' = [cursor EXCEPT ![s].floor = b[k]]
  BY <1>1 DEF Prune, Writable
<1>3. /\ p \in Seq(Envelopes) /\ f \in 0..Len(p) /\ Len(p) \in Nat
      /\ b = SubSeq(p, f + 1, Len(p)) /\ Len(b) = Len(p) - f
      /\ \A n \in 1..Len(p) - f : b[n] = p[f + n] /\ p[f + n].sequence = f + n
      /\ \E r : Runs("replay", r, EmptySession, p)
  BY <1>1, <1>2, StatesShow
<1>4. k \in 1..Len(p) - f /\ k \in 0..Len(p) - f /\ f + k \in 0..Len(p)
  BY <1>1, <1>3
<1>5. PICK q : /\ \A n \in 0..Len(p) : ViewAfter(SubSeq(p, 1, n)) = Holder("project", q[n])
               /\ \A n \in 0..Len(p) - f :
                    ProjectFrom(q[f], SubSeq(SubSeq(p, f + 1, Len(p)), 1, n))
                      = Holder("project", q[f + n])
  BY <1>3, FloorShows
<1>6. v = q[f]
  <2>1. v = ViewAfter(SubSeq(p, 1, f)).view
    BY <1>1, <1>2 DEF ViewInv, ViewIsReached
  <2> QED
    BY <1>3, <1>5, <2>1, ViewIsFold
<1>7. PrunedView(s, k).view = ViewAfter(SubSeq(p, 1, f + k)).view
  <2>1. ProjectFrom(v, SubSeq(b, 1, k)) = Holder("project", q[f + k])
    BY <1>3, <1>4, <1>5, <1>6
  <2>2. ViewAfter(SubSeq(p, 1, f + k)) = Holder("project", q[f + k])
    BY <1>4, <1>5
  <2> QED
    BY <1>1, <2>1, <2>2 DEF PrunedView
<1>8. /\ DOMAIN snapshot = Sessions
      /\ cursor \in [Sessions -> [head : Anchors, floor : Anchors]]
  BY DEF ReplayInv, IInv, TypeOK
<1>9. cursor'[s].floor = b[k] /\ \A z \in Sessions \ {s} : cursor'[z] = cursor[z]
  BY <1>2, <1>8
<1>10. Floor(s)' = f + k
  BY <1>3, <1>4, <1>9 DEF Floor
<1>11. PICK new : new = PrunedView(s, k).view
  OBVIOUS
<1>12. snapshot'[s] = new /\ \A z \in Sessions \ {s} : snapshot'[z] = snapshot[z]
  <2>1. snapshot' = [snapshot EXCEPT ![s] = new]
    BY <1>2, <1>11
  <2> QED
    BY <1>8, <2>1
<1>13. ViewIsReached(s)'
  <2>1. deletion'[s] # "purged" /\ log'[s] = p
    BY <1>1, <1>2
  <2> QED
    BY <1>7, <1>10, <1>11, <1>12, <2>1 DEF ViewIsReached
<1>14. ASSUME NEW z \in Sessions \ {s} PROVE ViewIsReached(z)'
  <2>1. ViewIsReached(z)
    BY DEF ViewInv
  <2> QED
    BY <1>2, <1>9, <1>12, <2>1 DEF ViewIsReached, Floor
<1> QED
  BY <1>13, <1>14 DEF ViewInv

LEMMA PurgeKeepsView ==
  ASSUME ReplayInv, ViewInv, NEW s \in Sessions, Purge(s)
  PROVE  ViewInv'
<1>1. /\ deletion' = [deletion EXCEPT ![s] = "purged"]
      /\ cursor' = [cursor EXCEPT ![s] = [head |-> NoEvent, floor |-> NoEvent]]
      /\ snapshot' = [snapshot EXCEPT ![s] = EmptyProjection]
      /\ UNCHANGED log
  BY DEF Purge, SetDeletion
<1>2. /\ deletion'[s] = "purged" /\ snapshot'[s] = EmptyProjection
      /\ \A z \in Sessions \ {s} : /\ deletion'[z] = deletion[z] /\ snapshot'[z] = snapshot[z]
                                   /\ cursor'[z] = cursor[z]
  BY <1>1 DEF ReplayInv, IInv, TypeOK
<1>3. ViewIsReached(s)'
  BY <1>2 DEF ViewIsReached
<1>4. ASSUME NEW z \in Sessions \ {s} PROVE ViewIsReached(z)'
  <2>1. ViewIsReached(z)
    BY DEF ViewInv
  <2> QED
    BY <1>1, <1>2, <2>1 DEF ViewIsReached, Floor
<1> QED
  BY <1>3, <1>4 DEF ViewInv

LEMMA NextKeepsView == ReplayInv /\ ViewInv /\ [Next]_vars => ViewInv'
<1> SUFFICES ASSUME ReplayInv, ViewInv, [Next]_vars PROVE ViewInv'
  OBVIOUS
<1>1. ASSUME UNCHANGED <<snapshot, cursor, log>>,
             \A z \in Sessions : (deletion'[z] = "purged") <=> (deletion[z] = "purged")
      PROVE  ViewInv'
  BY <1>1, ViewStays DEF ViewInv
<1>2. CASE AppendCall
  BY <1>2, AppendKeepsView
<1>3. ASSUME NEW s \in Sessions, NEW k \in 1..Len(rows[s]), Prune(s, k) PROVE ViewInv'
  BY <1>3, PruneKeepsView
<1>4. ASSUME NEW s \in Sessions, Purge(s) PROVE ViewInv'
  BY <1>4, PurgeKeepsView
<1>5. ASSUME NEW s \in Sessions, ScheduleDeletion(s) \/ UndoDeletion(s) PROVE ViewInv'
  <2>1. /\ UNCHANGED <<snapshot, cursor, log>>
        /\ \E from, to \in {"none", "pending"} :
             deletion[s] = from /\ deletion' = [deletion EXCEPT ![s] = to]
    BY <1>5 DEF ScheduleDeletion, UndoDeletion, SetDeletion
  <2>2. \A z \in Sessions : (deletion'[z] = "purged") <=> (deletion[z] = "purged")
    BY <2>1 DEF ReplayInv, IInv, TypeOK
  <2> QED
    BY <1>1, <2>1, <2>2
<1>6. ASSUME NEW s \in Sessions, NEW t \in Turns, NEW now \in Clock,
             \/ \E r \in Requests : PrepareEvent(s, t, r, now)
             \/ \E items \in PreviewItems : PreparePreview(s, t, items, now)
      PROVE  ViewInv'
  <2>1. UNCHANGED <<snapshot, cursor, log, deletion>>
    BY <1>6, Zenon DEF PrepareEvent, PreparePreview, durable
  <2> QED
    BY <1>1, <2>1
<1>7. CASE \/ AppendFails \/ CommitCall \/ EmitEvent \/ PreviewResponseFails \/ Crash \/ Restart
           \/ UNCHANGED vars
  <2>1. UNCHANGED <<snapshot, cursor, log, deletion>>
    BY <1>7 DEF AppendFails, CommitCall, EmitEvent, PreviewResponseFails, Crash, Restart,
                durable, vars
  <2> QED
    BY <1>1, <2>1
<1> QED
  BY <1>2, <1>3, <1>4, <1>5, <1>6, <1>7 DEF Next

(* The states and the views of a Session that is not purged, at the floor  *)
(* and after each row above it, as the cut of the journal computes them.   *)
CutsAre(s, p, f, r, q) ==
  /\ r[0] = EmptySession /\ \A n \in 1..Len(p) : r[n].lastEvent = p[n]
  /\ \A n \in 0..Len(p) : /\ IsSession(r[n]) /\ CheckpointIsSound(CheckpointOf(r[n]))
                          /\ Matches(r[n], q[n]) /\ SnapshotIsSound(q[n])
  /\ \A k \in 0..Len(p) - f : \E y :
       PrunedState(s, k) = Holder("replay", y) /\ IsSession(y) /\ Same(y, r[f + k])
  /\ snapshot[s] = q[f]
  /\ \A k \in 0..Len(p) - f : PrunedView(s, k) = Holder("project", q[f + k])
  /\ ProjectFrom(snapshot[s], rows[s]) = Holder("project", q[Len(p)])
  /\ ProjectFrom(EmptyProjection, p) = Holder("project", q[Len(p)])

LEMMA CutsShow ==
  ASSUME ReplayInv, ViewInv, NEW s \in Sessions, deletion[s] # "purged"
  PROVE  \E r, q : CutsAre(s, log[s], Floor(s), r, q)
<1>1. PICK p, f : p = log[s] /\ f = Floor(s)
  OBVIOUS
<1>2. /\ p \in Seq(Envelopes) /\ f \in 0..Len(p) /\ Len(p) \in Nat
      /\ rows[s] = SubSeq(p, f + 1, Len(p)) /\ Len(rows[s]) = Len(p) - f
      /\ \A n \in 1..Len(p) - f : rows[s][n] = p[f + n]
  BY <1>1, StatesShow
<1>3. PICK r : /\ Runs("replay", r, EmptySession, p)
               /\ \A n \in 1..Len(p) : r[n].lastEvent = p[n]
               /\ \A n \in 0..Len(p) : IsSession(r[n]) /\ CheckpointIsSound(CheckpointOf(r[n]))
               /\ \A k \in 0..Len(p) - f : \E y :
                      /\ ReplayFrom(checkpoint[s], SubSeq(rows[s], 1, k)) = Holder("replay", y)
                      /\ IsSession(y) /\ Same(y, r[f + k])
  BY <1>1, StatesShow
<1>4. PICK q : /\ \A n \in 0..Len(p) : /\ Matches(r[n], q[n]) /\ SnapshotIsSound(q[n])
                                       /\ ViewAfter(SubSeq(p, 1, n)) = Holder("project", q[n])
               /\ ViewAfter(p) = Holder("project", q[Len(p)])
               /\ \A k \in 0..Len(p) - f :
                    ProjectFrom(q[f], SubSeq(SubSeq(p, f + 1, Len(p)), 1, k))
                      = Holder("project", q[f + k])
               /\ ProjectFrom(q[f], SubSeq(p, f + 1, Len(p))) = Holder("project", q[Len(p)])
  BY <1>2, <1>3, FloorShows
<1>5. snapshot[s] = q[f]
  <2>1. snapshot[s] = ViewAfter(SubSeq(p, 1, f)).view
    BY <1>1 DEF ViewInv, ViewIsReached
  <2>2. ViewAfter(SubSeq(p, 1, f)) = Holder("project", q[f])
    BY <1>2, <1>4
  <2> QED
    BY <2>1, <2>2, ViewIsFold
<1>6. ASSUME NEW k \in 0..Len(p) - f
      PROVE  PrunedView(s, k) = Holder("project", q[f + k])
  BY <1>2, <1>4, <1>5 DEF PrunedView
<1>7. ASSUME NEW k \in 0..Len(p) - f
      PROVE  \E y : PrunedState(s, k) = Holder("replay", y) /\ IsSession(y) /\ Same(y, r[f + k])
  BY <1>3 DEF PrunedState
<1>8. r[0] = EmptySession
  BY <1>3 DEF Runs
<1>9. ProjectFrom(EmptyProjection, p) = Holder("project", q[Len(p)])
  BY <1>4 DEF ViewAfter
<1>10. ProjectFrom(snapshot[s], rows[s]) = Holder("project", q[Len(p)])
  BY <1>2, <1>4, <1>5
<1>11. \A n \in 0..Len(p) : /\ IsSession(r[n]) /\ CheckpointIsSound(CheckpointOf(r[n]))
                            /\ Matches(r[n], q[n]) /\ SnapshotIsSound(q[n])
  BY <1>3, <1>4
<1>12. CutsAre(s, p, f, r, q)
  BY <1>3, <1>5, <1>6, <1>7, <1>8, <1>9, <1>10, <1>11 DEF CutsAre
<1> QED
  BY <1>1, <1>12

(* The store within its limits: every floor snapshot passes validation, as *)
(* it did when it was written, and as many events are retained as may be.  *)
SnapshotsAreValid == \A s \in Sessions : ValidSnapshot(snapshot[s])
JournalIsWithinLimits ==
  /\ \A s \in Sessions : Len(rows[s]) <= MaxSessionEvents
  /\ TotalEvents <= MaxTotalEvents
StoreInv == SnapshotsAreValid /\ JournalIsWithinLimits

LEMMA EmptySnapshotIsValid == ValidSnapshot(EmptyProjection)
<1>1. \A t \in Turns : EmptyProjection.turns[t].state = "absent"
  BY DEF EmptyProjection, HiddenTurn
<1>2. \A t \in Turns, i \in Items : EmptyProjection.items[t][i].revision = 0
  BY DEF EmptyProjection, HiddenItem
<1>3. \A x \in Turns \X Items : x[1] \in Turns /\ x[2] \in Items
  OBVIOUS
<1>4. VisibleTurns(EmptyProjection) = {} /\ VisibleItems(EmptyProjection) = {}
  BY <1>1, <1>2, <1>3 DEF VisibleTurns, VisibleItems
<1>5. FloorFits(EmptyProjection)
  BY <1>4, FS_EmptySet, ProjectionAssumption DEF FloorFits
<1> QED
  BY <1>5, EmptyViewIsValid DEF ValidSnapshot

(* The rows of all Sessions, when those of one change.                     *)
LEMMA TotalGrows ==
  ASSUME TypeOK, NEW s \in Sessions, NEW d \in Nat,
         \A z \in Sessions : rows'[z] \in Seq(Envelopes),
         \A z \in Sessions \ {s} : rows'[z] = rows[z],
         Len(rows'[s]) <= Len(rows[s]) + d
  PROVE  TotalEvents' <= TotalEvents + d /\ TotalEvents \in Nat /\ TotalEvents' \in Nat
<1>1. PICK w, z : /\ w = [x \in Sessions |-> Len(rows[x])]
                  /\ z = [x \in Sessions |-> Len(rows'[x])]
  OBVIOUS
<1>2. TotalEvents = SumFunction(w) /\ TotalEvents' = SumFunction(z)
  BY <1>1 DEF TotalEvents
<1>3. \A x \in Sessions : rows[x] \in Seq(Envelopes)
  BY DEF TypeOK
<1>4. /\ DOMAIN w = Sessions /\ DOMAIN z = Sessions /\ IsFiniteSet(Sessions)
      /\ \A x \in Sessions : w[x] \in Nat /\ z[x] \in Nat
      /\ \A x \in Sessions : x # s => z[x] = w[x]
      /\ z[s] <= w[s] + d
  BY <1>1, <1>3, SequencerAssumption
<1>5. SumFunction(z) <= SumFunction(w) + d
  BY <1>4, SumGrows
<1>6. SumFunction(w) \in Nat /\ SumFunction(z) \in Nat
  BY <1>4, SumIsNatural
<1> QED
  BY <1>2, <1>5, <1>6

LEMMA InitIsWithinLimits == Init => StoreInv
<1> SUFFICES ASSUME Init PROVE StoreInv
  OBVIOUS
<1>1. SnapshotsAreValid
  BY EmptySnapshotIsValid DEF Init, SnapshotsAreValid
<1>2. \A s \in Sessions : rows[s] = <<>> /\ Len(rows[s]) = 0
  BY DEF Init
<1>3. TotalEvents = 0
  <2>1. PICK w : w = [x \in Sessions |-> Len(rows[x])]
    OBVIOUS
  <2>2. IsFiniteSet(DOMAIN w) /\ \A x \in DOMAIN w : w[x] = 0
    BY <1>2, <2>1, SequencerAssumption
  <2> QED
    BY <2>1, <2>2, SumOfZeros DEF TotalEvents
<1> QED
  BY <1>1, <1>2, <1>3, JournalAssumption DEF StoreInv, JournalIsWithinLimits

LEMMA AppendStaysWithinLimits ==
  ASSUME ReplayInv, TypeOK', StoreInv, AppendCall
  PROVE  StoreInv'
<1>1. PICK s, new : s = call.session /\ new = call.events
  OBVIOUS
<1>2. /\ call.stage = "prepared" /\ deletion[s] = "none" /\ HasRoom(s, new)
      /\ rows' = [rows EXCEPT ![s] = @ \o new] /\ UNCHANGED snapshot
  BY <1>1 DEF AppendCall, AppendIsPermitted, Writable
<1>3. s \in Sessions /\ new \in Seq(Envelopes) /\ rows \in [Sessions -> Seq(Envelopes)]
  BY <1>1, <1>2 DEF ReplayInv, IInv, TypeOK, CallReplays
<1>4. PICK old, d : old = rows[s] /\ d = Len(new) /\ d \in Nat /\ old \in Seq(Envelopes)
  BY <1>3
<1>5. Len(old \o new) = Len(old) + d /\ Len(old) \in Nat
  BY <1>3, <1>4
<1>6. rows'[s] = old \o new /\ \A z \in Sessions \ {s} : rows'[z] = rows[z]
  BY <1>2, <1>3, <1>4
<1>7. Len(old) = RetainedEvents(s)
  <2>1. CursorIsValid(s)
    BY <1>3, JournalIsConsistent
  <2> QED
    BY <1>4, <2>1 DEF CursorIsValid, RetainedEvents
<1>8. \A z \in Sessions : Len(rows'[z]) <= MaxSessionEvents
  BY <1>2, <1>4, <1>5, <1>6, <1>7 DEF HasRoom, StoreInv, JournalIsWithinLimits
<1>9. TotalEvents' <= MaxTotalEvents
  <2>1. \A z \in Sessions : rows'[z] \in Seq(Envelopes)
    BY DEF TypeOK
  <2>2. Len(rows'[s]) <= Len(rows[s]) + d
    BY <1>4, <1>5, <1>6
  <2>3. TotalEvents' <= TotalEvents + d /\ TotalEvents \in Nat /\ TotalEvents' \in Nat
    BY <1>3, <1>4, <1>6, <2>1, <2>2, TotalGrows DEF ReplayInv, IInv
  <2>4. TotalEvents + d <= MaxTotalEvents
    BY <1>2, <1>4 DEF HasRoom
  <2> QED
    BY <1>4, <2>3, <2>4, JournalAssumption
<1>10. SnapshotsAreValid'
  BY <1>2 DEF StoreInv, SnapshotsAreValid
<1> QED
  BY <1>8, <1>9, <1>10 DEF StoreInv, JournalIsWithinLimits

(* A cut and a purge leave fewer rows, and a snapshot that was validated.  *)
LEMMA ShrinkingStaysWithinLimits ==
  ASSUME ReplayInv, TypeOK', StoreInv, NEW s \in Sessions,
         Len(rows'[s]) <= Len(rows[s]),
         \A z \in Sessions \ {s} : rows'[z] = rows[z] /\ snapshot'[z] = snapshot[z],
         ValidSnapshot(snapshot'[s])
  PROVE  StoreInv'
<1>1. \A z \in Sessions : rows'[z] \in Seq(Envelopes) /\ rows[z] \in Seq(Envelopes)
  BY DEF TypeOK, ReplayInv, IInv
<1>2. \A z \in Sessions : Len(rows'[z]) \in Nat /\ Len(rows[z]) \in Nat
  BY <1>1
<1>3. \A z \in Sessions : Len(rows'[z]) <= MaxSessionEvents
  BY <1>2, JournalAssumption DEF StoreInv, JournalIsWithinLimits
<1>4. TotalEvents' <= TotalEvents + 0 /\ TotalEvents \in Nat /\ TotalEvents' \in Nat
  <2>1. 0 \in Nat /\ Len(rows'[s]) <= Len(rows[s]) + 0
    BY <1>2
  <2> QED
    BY <1>1, <2>1, TotalGrows DEF ReplayInv, IInv
<1>5. TotalEvents' <= MaxTotalEvents
  BY <1>4, JournalAssumption DEF StoreInv, JournalIsWithinLimits
<1>6. SnapshotsAreValid'
  BY DEF StoreInv, SnapshotsAreValid
<1> QED
  BY <1>3, <1>5, <1>6 DEF StoreInv, JournalIsWithinLimits

LEMMA CutStaysWithinLimits ==
  ASSUME ReplayInv, TypeOK', StoreInv, NEW s \in Sessions, NEW k \in 1..Len(rows[s]), Prune(s, k)
  PROVE  StoreInv'
<1>1. PICK old, view : old = rows[s] /\ view = PrunedView(s, k).view
  OBVIOUS
<1>2. /\ ValidSnapshot(view)
      /\ snapshot' = [snapshot EXCEPT ![s] = view]
      /\ rows' = [rows EXCEPT ![s] = SubSeq(old, k + 1, Len(old))]
  BY <1>1 DEF Prune, PruneIsPermitted
<1>3. DOMAIN snapshot = Sessions /\ rows \in [Sessions -> Seq(Envelopes)]
  BY DEF ReplayInv, IInv, TypeOK
<1>4. old \in Seq(Envelopes) /\ Len(old) \in Nat /\ k \in 1..Len(old)
  BY <1>1, <1>3
<1>5. Len(SubSeq(old, k + 1, Len(old))) <= Len(old)
  BY <1>4
<1>6. rows'[s] = SubSeq(old, k + 1, Len(old)) /\ snapshot'[s] = view
  BY <1>2, <1>3
<1>7. \A z \in Sessions \ {s} : rows'[z] = rows[z] /\ snapshot'[z] = snapshot[z]
  BY <1>2, <1>3
<1> QED
  BY <1>1, <1>2, <1>5, <1>6, <1>7, ShrinkingStaysWithinLimits

LEMMA PurgeStaysWithinLimits ==
  ASSUME ReplayInv, TypeOK', StoreInv, NEW s \in Sessions, Purge(s)
  PROVE  StoreInv'
<1>1. /\ snapshot' = [snapshot EXCEPT ![s] = EmptyProjection]
      /\ rows' = [rows EXCEPT ![s] = <<>>]
  BY DEF Purge
<1>2. DOMAIN snapshot = Sessions /\ rows \in [Sessions -> Seq(Envelopes)]
  BY DEF ReplayInv, IInv, TypeOK
<1>3. /\ rows'[s] = <<>> /\ snapshot'[s] = EmptyProjection
      /\ \A z \in Sessions \ {s} : rows'[z] = rows[z] /\ snapshot'[z] = snapshot[z]
  BY <1>1, <1>2
<1>4. Len(rows'[s]) <= Len(rows[s])
  <2>1. rows[s] \in Seq(Envelopes) /\ Len(rows'[s]) = 0
    BY <1>2, <1>3
  <2> QED
    BY <2>1
<1> QED
  BY <1>3, <1>4, EmptySnapshotIsValid, ShrinkingStaysWithinLimits

LEMMA NextStaysWithinLimits == ReplayInv /\ TypeOK' /\ StoreInv /\ [Next]_vars => StoreInv'
<1> SUFFICES ASSUME ReplayInv, TypeOK', StoreInv, [Next]_vars PROVE StoreInv'
  OBVIOUS
<1>1. ASSUME UNCHANGED <<snapshot, rows>> PROVE StoreInv'
  BY <1>1 DEF StoreInv, SnapshotsAreValid, JournalIsWithinLimits, TotalEvents
<1>2. CASE AppendCall
  BY <1>2, AppendStaysWithinLimits
<1>3. ASSUME NEW s \in Sessions, NEW k \in 1..Len(rows[s]), Prune(s, k) PROVE StoreInv'
  BY <1>3, CutStaysWithinLimits
<1>4. ASSUME NEW s \in Sessions, Purge(s) PROVE StoreInv'
  BY <1>4, PurgeStaysWithinLimits
<1>5. ASSUME NEW s \in Sessions, ScheduleDeletion(s) \/ UndoDeletion(s) PROVE StoreInv'
  BY <1>1, <1>5 DEF ScheduleDeletion, UndoDeletion
<1>6. ASSUME NEW s \in Sessions, NEW t \in Turns, NEW now \in Clock,
             \/ \E r \in Requests : PrepareEvent(s, t, r, now)
             \/ \E items \in PreviewItems : PreparePreview(s, t, items, now)
      PROVE  StoreInv'
  <2>1. UNCHANGED <<snapshot, rows>>
    BY <1>6, Zenon DEF PrepareEvent, PreparePreview, durable
  <2> QED
    BY <1>1, <2>1
<1>7. CASE \/ AppendFails \/ CommitCall \/ EmitEvent \/ PreviewResponseFails \/ Crash \/ Restart
           \/ UNCHANGED vars
  <2>1. UNCHANGED <<snapshot, rows>>
    BY <1>7 DEF AppendFails, CommitCall, EmitEvent, PreviewResponseFails, Crash, Restart,
                durable, vars
  <2> QED
    BY <1>1, <2>1
<1> QED
  BY <1>2, <1>3, <1>4, <1>5, <1>6, <1>7 DEF Next

LEMMA StoreStaysWithinLimits == Spec => []StoreInv
<1>1. ReplayInv' => TypeOK'
  BY DEF ReplayInv, IInv
<1> QED
  BY <1>1, InitIsWithinLimits, NextStaysWithinLimits, HistoriesReplay, PTL DEF Spec

(* A process that stops at any moment finds a journal it can restore, and  *)
(* restores what it held, up to the Items of finished Turns.               *)
THEOREM RestoreStaysFaithful == Spec => []RestoreIsFaithful
<1>1. ReplayInv /\ StoreInv => RestoreIsFaithful
  <2> SUFFICES ASSUME ReplayInv, StoreInv
               PROVE  /\ JournalIsRestorable
                      /\ \A s \in Sessions : Idle /\ deletion[s] # "purged" =>
                           CheckpointOf(Restored(s).session) = CheckpointOf(sequencer[s])
    BY DEF RestoreIsFaithful
  <2>1. ASSUME NEW s \in Sessions
        PROVE  /\ CursorIsValid(s) /\ RestoreCompletes(s) /\ ValidSnapshot(snapshot[s])
               /\ RetainedEvents(s) <= MaxSessionEvents
    <3>1. CursorIsValid(s) /\ RestoreCompletes(s)
      BY JournalIsConsistent
    <3>2. Len(rows[s]) = RetainedEvents(s)
      BY <3>1 DEF CursorIsValid, RetainedEvents
    <3> QED
      BY <3>1, <3>2 DEF StoreInv, SnapshotsAreValid, JournalIsWithinLimits
  <2>2. JournalIsRestorable
    BY <2>1 DEF JournalIsRestorable, StoreInv, JournalIsWithinLimits
  <2>3. ASSUME NEW s \in Sessions, Idle, deletion[s] # "purged"
        PROVE  CheckpointOf(Restored(s).session) = CheckpointOf(sequencer[s])
    <3>1. PICK y : /\ Restored(s) = Holder("replay", y) /\ IsSession(y)
                   /\ Same(y, StateAfter(log[s]).session)
      BY <2>3, RestoredIsReached
    <3>2. IsSession(sequencer[s]) /\ Same(sequencer[s], StateAfter(log[s]).session)
      BY <2>3 DEF ReplayInv, SequencerIsReached, Idle, NoCall
    <3>3. Same(y, sequencer[s])
      BY <3>1, <3>2, SameIsEquivalence
    <3>4. CheckpointOf(y) = CheckpointOf(sequencer[s])
      BY <3>1, <3>2, <3>3, SameCheckpoints
    <3>5. Restored(s).session = y
      BY <3>1, StateIsFold
    <3> QED
      BY <3>4, <3>5
  <2> QED
    BY <2>2, <2>3
<1> QED
  BY <1>1, HistoriesReplay, StoreStaysWithinLimits, PTL

-----------------------------------------------------------------------------
LEMMA OnlyLimitsRefuse ==
  ASSUME ReplayInv, ViewInv, StoreInv, NEW s \in Sessions, NEW k \in 1..Len(rows[s])
  PROVE  PruneIsPermitted(s, k) <=> CutFits(PrunedView(s, k).view, PrunedState(s, k).session)
<1>1. deletion[s] # "purged"
  BY DEF ReplayInv, FloorIsReached
<1>2. PICK p, f : p = log[s] /\ f = Floor(s)
  OBVIOUS
<1>3. /\ p \in Seq(Envelopes) /\ f \in 0..Len(p) /\ Len(p) \in Nat
      /\ Len(rows[s]) = Len(p) - f
      /\ \A n \in 1..Len(p) - f : rows[s][n] = p[f + n]
  BY <1>1, <1>2, StatesShow
<1>4. PICK r, q : CutsAre(s, p, f, r, q)
  BY <1>1, <1>2, CutsShow
<1>5. k \in 0..Len(p) - f /\ f + k \in 1..Len(p) /\ f + k \in 0..Len(p) /\ k \in 1..Len(p) - f
  BY <1>3
<1>6. rows[s][k] = p[f + k] /\ r[f + k].lastEvent = p[f + k]
  BY <1>3, <1>4, <1>5 DEF CutsAre
<1>7. snapshot[s].anchor = cursor[s].floor
  <2>1. r[f].lastEvent = q[f].anchor
    BY <1>3, <1>4 DEF CutsAre, Matches, IsAt
  <2>2. cursor[s].floor = IF f = 0 THEN NoEvent ELSE p[f]
    BY <1>1, <1>2 DEF ReplayInv, FloorIsReached
  <2>3. r[f].lastEvent = IF f = 0 THEN NoEvent ELSE p[f]
    BY <1>3, <1>4 DEF CutsAre, EmptySession
  <2> QED
    BY <1>4, <2>1, <2>2, <2>3 DEF CutsAre
<1>8. PrunedView(s, k) = Holder("project", q[f + k])
  BY <1>4, <1>5 DEF CutsAre
<1>9. PrunedView(s, k).ok /\ PrunedView(s, k).view = q[f + k]
  BY <1>8, ViewIsFold
<1>10. SnapshotIsSound(q[f + k]) /\ q[f + k].anchor = rows[s][k]
  BY <1>4, <1>5, <1>6 DEF CutsAre, Matches, IsAt
<1>11. PICK y : /\ PrunedState(s, k) = Holder("replay", y)
                /\ IsSession(y) /\ Same(y, r[f + k])
  BY <1>4, <1>5 DEF CutsAre
<1>12. PrunedState(s, k).session = y
  BY <1>11, StateIsFold
<1>13. CheckpointIsSound(CheckpointOf(y))
  <2>1. CheckpointOf(y) = CheckpointOf(r[f + k])
    BY <1>4, <1>5, <1>11, SameCheckpoints DEF CutsAre
  <2> QED
    BY <1>4, <1>5, <2>1 DEF CutsAre
<1>14. y.lastEvent = rows[s][k]
  BY <1>6, <1>11 DEF Same
<1>15. CursorIsValid(s) /\ RestoreCompletes(s) /\ ValidSnapshot(snapshot[s])
  BY JournalIsConsistent DEF StoreInv, SnapshotsAreValid
<1>16. ValidSnapshot(q[f + k]) <=> FloorFits(q[f + k])
  BY <1>10 DEF ValidSnapshot
<1>17. ValidCheckpoint(CheckpointOf(y)) <=> CheckpointFits(CheckpointOf(y))
  BY <1>13 DEF ValidCheckpoint
<1> QED
  BY <1>7, <1>9, <1>10, <1>12, <1>14, <1>15, <1>16, <1>17 DEF PruneIsPermitted, CutFits

LEMMA CutsAreSafe == ReplayInv /\ ViewInv /\ StoreInv => PruneIsSafe
<1> SUFFICES ASSUME ReplayInv, ViewInv, StoreInv PROVE PruneIsSafe
  OBVIOUS
<1>1. OnlyLimitsRefuseACut
  BY OnlyLimitsRefuse DEF OnlyLimitsRefuseACut
<1>2. ASSUME NEW s \in Sessions, deletion[s] # "purged"
      PROVE  /\ ProjectFrom(snapshot[s], rows[s]).ok
             /\ ProjectFrom(snapshot[s], rows[s]) = ProjectFrom(EmptyProjection, log[s])
  <2>1. PICK v : /\ ProjectFrom(snapshot[s], rows[s]) = Holder("project", v)
                 /\ ProjectFrom(EmptyProjection, log[s]) = Holder("project", v)
    BY <1>2, CutsShow DEF CutsAre
  <2> QED
    BY <2>1, ViewIsFold
<1> QED
  BY <1>1, <1>2 DEF PruneIsSafe, PruningKeepsTheView

(* Whatever happened before - restarts, deletions, other cuts - and        *)
(* whatever the limits, checkpoint_and_prune_tx accepts a cut of the       *)
(* journal at every retained event at which what it must keep fits, and    *)
(* only there; and the floor snapshot with the rows above it is the view   *)
(* of the whole history.                                                   *)
THEOREM PruningStaysSafe == Spec => []PruneIsSafe
<1>1. Init => ViewInv
  BY InitShows
<1>2. ReplayInv /\ ViewInv /\ [Next]_vars => ViewInv'
  BY NextKeepsView
<1>3. ReplayInv /\ ViewInv /\ StoreInv => PruneIsSafe
  BY CutsAreSafe
<1> QED
  BY <1>1, <1>2, <1>3, HistoriesReplay, StoreStaysWithinLimits, PTL DEF Spec
=============================================================================
