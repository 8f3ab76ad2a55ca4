------------------------ MODULE EventSequencer_proofs ------------------------
(***************************************************************************)
(* Facts about the operators of EventSequencer, for every Session state,   *)
(* and about sequences of its events.                                      *)
(***************************************************************************)
EXTENDS EventSequencer, SequenceTheorems, TLAPS

(* A prepared event is the last event of the state prepared with it, and   *)
(* was prepared after the last event of the state it came from.            *)
LEMMA PreparedIsLast ==
  ASSUME NEW s, NEW session, NEW t, NEW event, NEW item, NEW now,
         Prepare(s, session, t, event, item, now).outcome = "ok"
  PROVE  Prepare(s, session, t, event, item, now).session.lastEvent
           = Prepare(s, session, t, event, item, now).envelope
BY DEF Prepare

LEMMA PreparedAfterLast ==
  ASSUME NEW s, NEW session, NEW t, NEW event, NEW item, NEW now
  PROVE  Prepare(s, session, t, event, item, now).expected = session.lastEvent
BY DEF Prepare

-----------------------------------------------------------------------------
(* Sequences of events: their concatenation and their ends.                *)
LEMMA ConcatFacts ==
  ASSUME NEW p \in Seq(Envelopes), NEW q \in Seq(Envelopes)
  PROVE  /\ p \o q \in Seq(Envelopes)
         /\ Len(p \o q) = Len(p) + Len(q)
         /\ \A n \in 1..Len(p) : (p \o q)[n] = p[n]
         /\ \A n \in 1..Len(q) : (p \o q)[Len(p) + n] = q[n]
OBVIOUS

LEMMA NonEmptyFacts ==
  ASSUME NEW p \in Seq(Envelopes), p # <<>>
  PROVE  /\ Len(p) \in Nat /\ Len(p) >= 1 /\ p[1] \in Envelopes /\ p[Len(p)] \in Envelopes
         /\ Head(p) = p[1]
         /\ Tail(p) \in Seq(Envelopes) /\ Len(Tail(p)) = Len(p) - 1
         /\ \A n \in 1..Len(p) - 1 : Tail(p)[n] = p[n + 1]
OBVIOUS

LEMMA SuffixFacts ==
  ASSUME NEW p \in Seq(Envelopes), NEW f \in 0..Len(p)
  PROVE  /\ SubSeq(p, f + 1, Len(p)) \in Seq(Envelopes)
         /\ Len(SubSeq(p, f + 1, Len(p))) = Len(p) - f
         /\ \A n \in 1..Len(p) - f : SubSeq(p, f + 1, Len(p))[n] = p[f + n]
OBVIOUS

LEMMA SuffixOfConcat ==
  ASSUME NEW p \in Seq(Envelopes), NEW q \in Seq(Envelopes), NEW f \in 0..Len(p)
  PROVE  SubSeq(p, f + 1, Len(p)) \o q = SubSeq(p \o q, f + 1, Len(p \o q))
<1> DEFINE r == p \o q
           a == SubSeq(p, f + 1, Len(p))
           b == SubSeq(r, f + 1, Len(r))
<1>1. Len(p) \in Nat /\ Len(q) \in Nat
  OBVIOUS
<1>2. /\ r \in Seq(Envelopes) /\ Len(r) = Len(p) + Len(q)
      /\ \A n \in 1..Len(p) : r[n] = p[n]
      /\ \A n \in 1..Len(q) : r[Len(p) + n] = q[n]
  BY ConcatFacts
<1> HIDE DEF r
<1>3. /\ a \in Seq(Envelopes) /\ Len(a) = Len(p) - f
      /\ \A n \in 1..Len(p) - f : a[n] = p[f + n]
  BY SuffixFacts
<1>4. /\ b \in Seq(Envelopes) /\ Len(b) = Len(r) - f
      /\ \A n \in 1..Len(r) - f : b[n] = r[f + n]
  <2>1. f \in 0..Len(r)
    BY <1>1, <1>2
  <2> QED
    BY <1>2, <2>1, SuffixFacts
<1> HIDE DEF a, b
<1>5. /\ a \o q \in Seq(Envelopes) /\ Len(a \o q) = Len(b)
      /\ \A n \in 1..Len(a) : (a \o q)[n] = a[n]
      /\ \A n \in 1..Len(q) : (a \o q)[Len(a) + n] = q[n]
  <2>1. /\ a \o q \in Seq(Envelopes) /\ Len(a \o q) = Len(a) + Len(q)
        /\ \A n \in 1..Len(a) : (a \o q)[n] = a[n]
        /\ \A n \in 1..Len(q) : (a \o q)[Len(a) + n] = q[n]
    BY <1>3, ConcatFacts
  <2>2. Len(a) + Len(q) = Len(b)
    BY <1>1, <1>2, <1>3, <1>4
  <2> QED
    BY <2>1, <2>2
<1>6. ASSUME NEW n \in 1..Len(b) PROVE (a \o q)[n] = b[n]
  <2>1. CASE n <= Len(p) - f
    <3>1. n \in 1..Len(a) /\ f + n \in 1..Len(p) /\ n \in 1..Len(r) - f
      BY <1>1, <1>2, <1>3, <1>4, <2>1
    <3> QED
      BY <1>2, <1>3, <1>4, <1>5, <3>1
  <2>2. CASE n > Len(p) - f
    <3> DEFINE m == n - Len(a)
    <3>1. m \in 1..Len(q) /\ n = Len(a) + m /\ f + n = Len(p) + m /\ n \in 1..Len(r) - f
      BY <1>1, <1>2, <1>3, <1>4, <2>2
    <3> HIDE DEF m
    <3> QED
      BY <1>2, <1>4, <1>5, <3>1
  <2>3. n <= Len(p) - f \/ n > Len(p) - f
    BY <1>1, <1>2, <1>4
  <2> QED
    BY <1>1, <2>1, <2>2, <2>3
<1> QED
  BY <1>4, <1>5, <1>6, SeqEqual DEF a, b, r

LEMMA SuffixOfSuffix ==
  ASSUME NEW p \in Seq(Envelopes), NEW f \in 0..Len(p), NEW k \in 1..(Len(p) - f)
  PROVE  LET q == SubSeq(p, f + 1, Len(p))
         IN  SubSeq(q, k + 1, Len(q)) = SubSeq(p, f + k + 1, Len(p))
OBVIOUS

(* A history: numbered from one, in the order of its times.                *)
IsHistory(p) ==
  /\ \A n \in 1..Len(p) : p[n].sequence = n
  /\ \A n \in 2..Len(p) : p[n - 1].timestamp <= p[n].timestamp

LEMMA HistoryGrows ==
  ASSUME NEW p \in Seq(Envelopes), NEW q \in Seq(Envelopes), IsHistory(p),
         \A n \in 1..Len(q) : q[n].sequence = Len(p) + n,
         p # <<>> /\ q # <<>> => p[Len(p)].timestamp <= q[1].timestamp,
         \A n \in 2..Len(q) : q[n - 1].timestamp <= q[n].timestamp
  PROVE  IsHistory(p \o q)
<1> DEFINE r == p \o q
<1>1. Len(p) \in Nat /\ Len(q) \in Nat
  OBVIOUS
<1>2. /\ r \in Seq(Envelopes) /\ Len(r) = Len(p) + Len(q)
      /\ \A n \in 1..Len(p) : r[n] = p[n]
      /\ \A n \in 1..Len(q) : r[Len(p) + n] = q[n]
  BY ConcatFacts
<1> HIDE DEF r
<1>3. ASSUME NEW n \in 1..Len(r) PROVE r[n].sequence = n
  <2>1. CASE n <= Len(p)
    <3>1. n \in 1..Len(p)
      BY <1>1, <2>1
    <3> QED
      BY <1>2, <3>1 DEF IsHistory
  <2>2. CASE n > Len(p)
    <3> DEFINE m == n - Len(p)
    <3>1. m \in 1..Len(q) /\ n = Len(p) + m
      BY <1>1, <1>2, <2>2
    <3> HIDE DEF m
    <3> QED
      BY <1>2, <3>1
  <2> QED
    BY <1>1, <2>1, <2>2
<1>4. ASSUME NEW n \in 2..Len(r) PROVE r[n - 1].timestamp <= r[n].timestamp
  <2>1. CASE n <= Len(p)
    <3>1. n \in 2..Len(p) /\ n \in 1..Len(p) /\ n - 1 \in 1..Len(p)
      BY <1>1, <2>1
    <3> QED
      BY <1>2, <3>1 DEF IsHistory
  <2>2. CASE n = Len(p) + 1
    <3>1. /\ n - 1 = Len(p) /\ Len(p) \in 1..Len(p) /\ 1 \in 1..Len(q)
          /\ p # <<>> /\ q # <<>>
      BY <1>1, <1>2, <2>2
    <3> QED
      BY <1>2, <2>2, <3>1
  <2>3. CASE n > Len(p) + 1
    <3> DEFINE m == n - Len(p)
    <3>1. /\ m \in 2..Len(q) /\ m \in 1..Len(q) /\ m - 1 \in 1..Len(q)
          /\ n = Len(p) + m /\ n - 1 = Len(p) + (m - 1)
      BY <1>1, <1>2, <2>3
    <3> HIDE DEF m
    <3>2. r[n] = q[m] /\ r[n - 1] = q[m - 1]
      BY <1>2, <3>1
    <3> QED
      BY <3>1, <3>2
  <2> QED
    BY <1>1, <2>1, <2>2, <2>3
<1> QED
  BY <1>3, <1>4 DEF IsHistory, r
-----------------------------------------------------------------------------
(* The state of a Session and what an event does to it.                    *)
SessionFits(session) ==
  /\ session.sequence \in 0..MaxSafe /\ session.timestamp \in 0..MaxSafe
  /\ session.turns \in [Turns -> TurnSequence]

LEMMA TerminalEvents ==
  /\ DOMAIN TerminalPhase = {"turn.completed", "turn.failed", "turn.interrupted"}
  /\ TerminalPhase["turn.completed"] = "completed"
  /\ TerminalPhase["turn.failed"] = "failed"
  /\ TerminalPhase["turn.interrupted"] = "interrupted"
  /\ \A e \in DOMAIN TerminalPhase : TerminalPhase[e] \in TerminalPhases
  /\ ~IsTerminal("turn.started")
BY DEF TerminalPhase, TerminalPhases, IsTerminal

LEMMA EmptySessionFits == SessionFits(EmptySession)
<1>1. MaxSafe \in Nat \ {0}
  BY SequencerAssumption
<1>2. AbsentItem \in ItemSequence
  BY <1>1 DEF AbsentItem, ItemSequence, ItemPhases
<1>3. AbsentTurn \in TurnSequence
  BY <1>2 DEF AbsentTurn, TurnSequence, TurnPhases
<1> QED
  BY <1>1, <1>3 DEF SessionFits, EmptySession

(* A valid shape is one of the shapes, and no event of the start has one.  *)
LEMMA ValidShapes ==
  ASSUME NEW event, NEW item, ShapeIsValid(event, item)
  PROVE  item = NoItem \/ (item.shape \in Shapes /\ event # "turn.started")
<1>1. ASSUME NEW c \in EventShapes, c.event = event, item.shape \in c.shapes
      PROVE  item.shape \in Shapes /\ event # "turn.started"
  BY <1>1 DEF EventShapes, Carries, Shapes
<1> QED
  BY <1>1 DEF ShapeIsValid

LEMMA AppliedItemFits ==
  ASSUME NEW turn \in TurnSequence, NEW event, NEW item, item.id \in Items,
         item.shape \in Shapes, ApplyItem(turn, event, item).outcome = "ok"
  PROVE  ApplyItem(turn, event, item).item \in ItemSequence
<1> DEFINE current == turn.items[item.id]
           next == NextItemPhase(current.phase, event, item.state)
<1>1. current \in ItemSequence /\ current.revision + 1 \in Nat
  BY SequencerAssumption DEF TurnSequence, ItemSequence
<1>2. next \in ItemPhases
  BY DEF NextItemPhase, ItemPhases
<1> HIDE DEF current, next
<1>3. ApplyItem(turn, event, item) = ItemOk(current.revision + 1, next, item.shape)
  BY DEF ApplyItem, ItemRefused, current, next
<1>4. current.revision + 1 <= MaxSafe
  BY <1>3 DEF ItemOk
<1>5. ApplyItem(turn, event, item).item
        = [revision |-> current.revision + 1, phase |-> next, shape |-> item.shape]
  BY <1>3, <1>4 DEF ItemOk
<1> QED
  BY <1>1, <1>2, <1>4, <1>5, SequencerAssumption DEF ItemSequence

(* apply: an event moves its own Turn along its lifecycle, and no other.   *)
LEMMA ApplyMoves ==
  ASSUME NEW session, SessionFits(session), NEW t \in Turns, NEW event, NEW item,
         Apply(session, t, event, item).outcome = "ok"
  PROVE  LET turns == Apply(session, t, event, item).turns
         IN  /\ turns \in [Turns -> TurnSequence]
             /\ session.turns[t].phase = IF event = "turn.started" THEN "absent" ELSE "running"
             /\ turns[t].phase = IF IsTerminal(event) THEN TerminalPhase[event] ELSE "running"
             /\ \A other \in Turns \ {t} : turns[other] = session.turns[other]
<1> DEFINE before == session.turns
           turns == Apply(session, t, event, item).turns
           turn == before[t]
<1>1. before \in [Turns -> TurnSequence] /\ turn \in TurnSequence
  BY DEF SessionFits
<1>2. turn = [phase |-> turn.phase, items |-> turn.items] /\ turn.items \in [Items -> ItemSequence]
  BY <1>1 DEF TurnSequence
<1>3. ShapeIsValid(event, item)
  BY DEF Apply, Refuse, Refusal
<1>4. CASE event = "turn.started"
  <2>1. /\ turn.phase = "absent"
        /\ Apply(session, t, event, item)
             = Accept([before EXCEPT ![t].phase = "running"], "running", 0)
    BY <1>3, <1>4 DEF Apply, StartTurn, Refuse, Refusal
  <2>2. turns = [before EXCEPT ![t] = [phase |-> "running", items |-> turn.items]]
    BY <1>1, <1>2, <2>1 DEF Accept, TurnSequence
  <2>3. [phase |-> "running", items |-> turn.items] \in TurnSequence
    BY <1>2 DEF TurnSequence, TurnPhases
  <2>4. turns \in [Turns -> TurnSequence] /\ turns[t].phase = "running"
    BY <1>1, <2>2, <2>3
  <2>5. \A other \in Turns \ {t} : turns[other] = before[other]
    BY <1>1, <2>2
  <2> HIDE DEF turns
  <2> QED
    BY <1>4, <2>1, <2>4, <2>5, TerminalEvents DEF turns
<1>5. CASE event # "turn.started"
  <2> DEFINE phase == IF IsTerminal(event) THEN TerminalPhase[event] ELSE "running"
             applied == ApplyItem(turn, IF IsTerminal(event) THEN "item.completed" ELSE event, item)
  <2>1. phase \in TurnPhases
    BY TerminalEvents DEF TurnPhases, IsTerminal
  <2>2. Apply(session, t, event, item) = AdvanceTurn(session, t, event, item)
    BY <1>3, <1>5 DEF Apply
  <2>3. Running(turn)
    BY <2>2 DEF AdvanceTurn, Refuse
  <2>4. PICK items \in [Items -> ItemSequence] :
          turns = [before EXCEPT ![t] = [phase |-> phase, items |-> items]]
    <3>1. CASE item = NoItem
      <4>1. Apply(session, t, event, item)
              = Accept([before EXCEPT ![t].phase = phase], phase, 0)
        BY <2>2, <3>1 DEF AdvanceTurn, Refuse
      <4>2. turns = [before EXCEPT ![t] = [phase |-> phase, items |-> turn.items]]
        BY <1>1, <1>2, <4>1 DEF Accept, TurnSequence
      <4> QED
        BY <1>2, <4>2
    <3>2. CASE item # NoItem
      <4>1. /\ applied.outcome = "ok"
            /\ Apply(session, t, event, item)
                 = Accept([before EXCEPT ![t].phase = phase, ![t].items[item.id] = applied.item],
                          phase, applied.item.revision)
        BY <2>2, <3>2 DEF AdvanceTurn, Refuse
      <4>2. turns = [before EXCEPT ![t] =
                       [phase |-> phase, items |-> [turn.items EXCEPT ![item.id] = applied.item]]]
        <5> DEFINE i == item.id
                   x == applied.item
                   items == turn.items
                   moved == [phase |-> phase, items |-> items]
        <5>1. turns = [before EXCEPT ![t].phase = phase, ![t].items[i] = x]
          BY <4>1 DEF Accept
        <5> HIDE DEF applied, phase, turns, before, i, x
        <5>2. [turn EXCEPT !.phase = phase] = moved
          BY <1>2
        <5>3. moved.items = items
          OBVIOUS
        <5>4. [moved EXCEPT !.items[i] = x] = [phase |-> phase, items |-> [items EXCEPT ![i] = x]]
          BY <5>3
        <5>5. [turn EXCEPT !.phase = phase, !.items[i] = x]
                = [phase |-> phase, items |-> [items EXCEPT ![i] = x]]
          BY <5>2, <5>4
        <5>6. turns = [before EXCEPT ![t] = [phase |-> phase, items |-> [items EXCEPT ![i] = x]]]
          BY <1>1, <1>2, <5>1, <5>5
        <5> QED
          BY <5>6 DEF i, x
      <4>3. [turn.items EXCEPT ![item.id] = applied.item] \in [Items -> ItemSequence]
        <5>1. item.id \in Items => applied.item \in ItemSequence
          BY <1>1, <1>3, <3>2, <4>1, ValidShapes, AppliedItemFits
        <5> QED
          BY <1>2, <5>1
      <4> QED
        BY <4>2, <4>3
    <3> QED
      BY <3>1, <3>2
  <2>5. turns[t] = [phase |-> phase, items |-> items]
    BY <1>1, <2>4
  <2>6. turns \in [Turns -> TurnSequence]
    BY <1>1, <2>1, <2>4 DEF TurnSequence
  <2> QED
    BY <1>1, <1>5, <2>3, <2>4, <2>5, <2>6 DEF Running
<1> QED
  BY <1>4, <1>5

(* prepare: what is prepared is the event that was asked for, numbered on  *)
(* from the last, and its Session is the one the event leads to.           *)
LEMMA PreparedMoves ==
  ASSUME NEW s, NEW session, SessionFits(session), NEW t \in Turns, NEW event, NEW item, NEW now,
         Prepare(s, session, t, event, item, now).outcome = "ok"
  PROVE  LET prepared == Prepare(s, session, t, event, item, now)
             next == prepared.session
         IN  /\ SessionFits(next) /\ next.lastEvent = prepared.envelope
             /\ prepared.envelope.turn = t /\ prepared.envelope.event = event
             /\ prepared.envelope.item = item /\ prepared.envelope.timestamp \in 1..MaxSafe
             /\ session.turns[t].phase = IF event = "turn.started" THEN "absent" ELSE "running"
             /\ next.turns[t].phase = IF IsTerminal(event) THEN TerminalPhase[event] ELSE "running"
             /\ \A other \in Turns \ {t} : next.turns[other] = session.turns[other]
<1> DEFINE prepared == Prepare(s, session, t, event, item, now)
           applied == Apply(session, t, event, item)
           envelope == Envelope(s, session, t, event, item, applied, now)
<1>1. /\ applied.outcome = "ok" /\ ~(session.sequence + 1 > MaxSafe) /\ ClockIsValid(now)
      /\ prepared.envelope = envelope
      /\ prepared.session = [sequence |-> envelope.sequence, timestamp |-> envelope.timestamp,
                             lastEvent |-> envelope, turns |-> applied.turns]
  BY DEF Prepare
<1> HIDE DEF prepared, applied
<1>2. /\ envelope.sequence = session.sequence + 1 /\ envelope.turn = t
      /\ envelope.event = event /\ envelope.item = item
      /\ envelope.timestamp = LargerOf(now, session.timestamp)
  BY DEF Envelope, NormalizedTimestamp
<1>3. /\ session.sequence \in 0..MaxSafe /\ session.timestamp \in 0..MaxSafe
      /\ MaxSafe \in Nat /\ now \in 1..MaxSafe
  BY <1>1, SequencerAssumption DEF SessionFits, ClockIsValid
<1>4. envelope.sequence \in 0..MaxSafe /\ envelope.timestamp \in 1..MaxSafe
  BY <1>1, <1>2, <1>3 DEF LargerOf
<1>5. /\ applied.turns \in [Turns -> TurnSequence]
      /\ session.turns[t].phase = IF event = "turn.started" THEN "absent" ELSE "running"
      /\ applied.turns[t].phase = IF IsTerminal(event) THEN TerminalPhase[event] ELSE "running"
      /\ \A other \in Turns \ {t} : applied.turns[other] = session.turns[other]
  BY <1>1, ApplyMoves DEF applied
<1> HIDE DEF envelope
<1>6. /\ prepared.session.sequence = envelope.sequence
      /\ prepared.session.timestamp = envelope.timestamp
      /\ prepared.session.lastEvent = envelope /\ prepared.session.turns = applied.turns
  BY <1>1
<1>7. SessionFits(prepared.session)
  BY <1>3, <1>4, <1>5, <1>6 DEF SessionFits
<1> QED
  BY <1>1, <1>2, <1>4, <1>5, <1>6, <1>7 DEF prepared

-----------------------------------------------------------------------------
(* What an accepted event does, exactly.                                   *)
PhaseAfter(event) == IF IsTerminal(event) THEN TerminalPhase[event] ELSE "running"
ItemApplied(turn, event, item) ==
  ApplyItem(turn, IF IsTerminal(event) THEN "item.completed" ELSE event, item)
TurnAfter(turn, event, item) ==
  [phase |-> PhaseAfter(event),
   items |-> IF item = NoItem THEN turn.items
             ELSE [turn.items EXCEPT ![item.id] = ItemApplied(turn, event, item).item]]
RevisionAfter(turn, event, item) ==
  IF item = NoItem THEN 0 ELSE ItemApplied(turn, event, item).item.revision

Allowed(session, t, event, item) ==
  /\ ShapeIsValid(event, item)
  /\ IF event = "turn.started"
     THEN session.turns[t].phase = "absent" /\ RunningTurns(session) = {}
     ELSE /\ Running(session.turns[t])
          /\ PhaseAfter(event) \in {"completed", "interrupted"} => OpenItems(session.turns[t]) = {}
          /\ item # NoItem => ItemApplied(session.turns[t], event, item).outcome = "ok"

LEMMA ApplyExactly ==
  ASSUME NEW session, SessionFits(session), NEW t \in Turns, NEW event, NEW item
  PROVE  /\ Apply(session, t, event, item).outcome = "ok" <=> Allowed(session, t, event, item)
         /\ Allowed(session, t, event, item) =>
              Apply(session, t, event, item)
                = Accept([session.turns EXCEPT ![t] = TurnAfter(session.turns[t], event, item)],
                         PhaseAfter(event), RevisionAfter(session.turns[t], event, item))
<1> DEFINE before == session.turns
           turn == before[t]
           result == Apply(session, t, event, item)
<1>1. before \in [Turns -> TurnSequence] /\ turn \in TurnSequence
  BY DEF SessionFits
<1>2. turn = [phase |-> turn.phase, items |-> turn.items] /\ turn.items \in [Items -> ItemSequence]
  BY <1>1 DEF TurnSequence
<1>3. \A outcome : Refuse(outcome).outcome = outcome
  BY DEF Refuse
<1>4. \A turns, state, revision : Accept(turns, state, revision).outcome = "ok"
  BY DEF Accept
<1>5. CASE ~ShapeIsValid(event, item)
  BY <1>3, <1>5 DEF Apply, Refusal, Allowed
<1>6. CASE ShapeIsValid(event, item) /\ event = "turn.started"
  <2>1. item = NoItem /\ ~IsTerminal(event)
    BY <1>6, ValidShapes, TerminalEvents
  <2>2. result = StartTurn(session, t)
    BY <1>6 DEF Apply
  <2>3. result.outcome = "ok" <=> turn.phase = "absent" /\ RunningTurns(session) = {}
    BY <1>3, <1>4, <2>2 DEF StartTurn, Refusal
  <2>4. Allowed(session, t, event, item) <=> turn.phase = "absent" /\ RunningTurns(session) = {}
    BY <1>6 DEF Allowed
  <2>5. ASSUME turn.phase = "absent" /\ RunningTurns(session) = {}
        PROVE  result = Accept([before EXCEPT ![t] = TurnAfter(turn, event, item)],
                               PhaseAfter(event), RevisionAfter(turn, event, item))
    <3>1. result = Accept([before EXCEPT ![t].phase = "running"], "running", 0)
      BY <2>2, <2>5 DEF StartTurn
    <3>2. TurnAfter(turn, event, item) = [phase |-> "running", items |-> turn.items]
      BY <2>1 DEF TurnAfter, PhaseAfter
    <3>3. [before EXCEPT ![t].phase = "running"]
            = [before EXCEPT ![t] = [phase |-> "running", items |-> turn.items]]
      BY <1>1, <1>2
    <3>4. PhaseAfter(event) = "running" /\ RevisionAfter(turn, event, item) = 0
      BY <2>1 DEF PhaseAfter, RevisionAfter
    <3> QED
      BY <3>1, <3>2, <3>3, <3>4
  <2> QED
    BY <2>3, <2>4, <2>5
<1>7. CASE ShapeIsValid(event, item) /\ event # "turn.started"
  <2> DEFINE phase == PhaseAfter(event)
             applied == ItemApplied(turn, event, item)
  <2>1. result = AdvanceTurn(session, t, event, item)
    BY <1>7 DEF Apply
  <2>2. result = IF ~Running(turn) THEN Refuse("rejected")
                 ELSE IF phase \in {"completed", "interrupted"} /\ OpenItems(turn) # {}
                 THEN Refuse("violation")
                 ELSE IF item = NoItem
                 THEN Accept([before EXCEPT ![t].phase = phase], phase, 0)
                 ELSE IF applied.outcome # "ok" THEN Refuse(applied.outcome)
                 ELSE Accept([before EXCEPT ![t].phase = phase, ![t].items[item.id] = applied.item],
                             phase, applied.item.revision)
    BY <2>1 DEF AdvanceTurn, PhaseAfter, ItemApplied
  <2>3. Allowed(session, t, event, item)
          <=> /\ Running(turn)
              /\ ~(phase \in {"completed", "interrupted"} /\ OpenItems(turn) # {})
              /\ item # NoItem => applied.outcome = "ok"
    BY <1>7 DEF Allowed
  <2> HIDE DEF phase, applied, result
  <2>4. result.outcome = "ok" <=> Allowed(session, t, event, item)
    BY <1>3, <1>4, <2>2, <2>3
  <2>5. ASSUME Allowed(session, t, event, item), item = NoItem
        PROVE  result = Accept([before EXCEPT ![t] = TurnAfter(turn, event, item)],
                               phase, RevisionAfter(turn, event, item))
    <3>1. result = Accept([before EXCEPT ![t].phase = phase], phase, 0)
      BY <2>2, <2>3, <2>5
    <3>2. TurnAfter(turn, event, item) = [phase |-> phase, items |-> turn.items]
      BY <2>5 DEF TurnAfter, phase
    <3>3. [before EXCEPT ![t].phase = phase]
            = [before EXCEPT ![t] = [phase |-> phase, items |-> turn.items]]
      BY <1>1, <1>2
    <3>4. RevisionAfter(turn, event, item) = 0
      BY <2>5 DEF RevisionAfter
    <3> QED
      BY <3>1, <3>2, <3>3, <3>4
  <2>6. ASSUME Allowed(session, t, event, item), item # NoItem
        PROVE  result = Accept([before EXCEPT ![t] = TurnAfter(turn, event, item)],
                               phase, RevisionAfter(turn, event, item))
    <3> DEFINE i == item.id
               x == applied.item
               items == turn.items
               moved == [phase |-> phase, items |-> items]
    <3>1. result = Accept([before EXCEPT ![t].phase = phase, ![t].items[i] = x],
                          phase, applied.item.revision)
      BY <2>2, <2>3, <2>6
    <3>2. /\ TurnAfter(turn, event, item) = [phase |-> phase, items |-> [items EXCEPT ![i] = x]]
          /\ RevisionAfter(turn, event, item) = applied.item.revision
      BY <2>6 DEF TurnAfter, RevisionAfter, phase, applied
    <3> HIDE DEF before, i, x
    <3>3. [turn EXCEPT !.phase = phase] = moved
      BY <1>2
    <3>4. moved.items = items
      OBVIOUS
    <3>5. [moved EXCEPT !.items[i] = x] = [phase |-> phase, items |-> [items EXCEPT ![i] = x]]
      BY <3>4
    <3>6. [turn EXCEPT !.phase = phase, !.items[i] = x]
            = [phase |-> phase, items |-> [items EXCEPT ![i] = x]]
      BY <3>3, <3>5
    <3>7. [before EXCEPT ![t].phase = phase, ![t].items[i] = x]
            = [before EXCEPT ![t] = [phase |-> phase, items |-> [items EXCEPT ![i] = x]]]
      BY <1>1, <1>2, <3>6
    <3> QED
      BY <3>1, <3>2, <3>7
  <2> QED
    BY <2>4, <2>5, <2>6 DEF phase, result
<1> QED
  BY <1>5, <1>6, <1>7

(* The envelope of an accepted event, and the Session after it.            *)
EventAfter(s, session, t, event, item, now) ==
  [session |-> s, turn |-> t, event |-> event, item |-> item,
   state |-> PhaseAfter(event), revision |-> RevisionAfter(session.turns[t], event, item),
   sequence |-> session.sequence + 1,
   timestamp |-> LargerOf(now, session.timestamp)]
SessionAfter(session, e) ==
  [sequence |-> e.sequence, timestamp |-> e.timestamp, lastEvent |-> e,
   turns |-> [session.turns EXCEPT ![e.turn] = TurnAfter(session.turns[e.turn], e.event, e.item)]]
Acceptable(session, t, event, item, now) ==
  /\ Allowed(session, t, event, item)
  /\ session.sequence + 1 <= MaxSafe /\ now \in 1..MaxSafe

LEMMA PreparedExactly ==
  ASSUME NEW s, NEW session, SessionFits(session), NEW t \in Turns, NEW event, NEW item, NEW now
  PROVE  LET prepared == Prepare(s, session, t, event, item, now)
             e == EventAfter(s, session, t, event, item, now)
         IN  /\ prepared.outcome = "ok" <=> Acceptable(session, t, event, item, now)
             /\ prepared.outcome = "ok" => /\ prepared.envelope = e
                                           /\ prepared.session = SessionAfter(session, e)
<1>1. PICK applied, e :
         /\ applied = Apply(session, t, event, item)
         /\ e = EventAfter(s, session, t, event, item, now)
  OBVIOUS
<1>2. PICK envelope : envelope = Envelope(s, session, t, event, item, applied, now)
  OBVIOUS
<1>3. PICK outcome : outcome = IF applied.outcome # "ok" THEN applied.outcome
                               ELSE IF session.sequence + 1 > MaxSafe \/ ~ClockIsValid(now)
                               THEN "bounds" ELSE "ok"
  OBVIOUS
<1>4. PICK prepared : prepared = Prepare(s, session, t, event, item, now)
  OBVIOUS
<1>5. prepared = [outcome |-> outcome,
                  expected |-> session.lastEvent,
                  envelope |-> IF outcome = "ok" THEN envelope ELSE NoEvent,
                  session |-> IF outcome = "ok"
                              THEN [sequence |-> envelope.sequence, timestamp |-> envelope.timestamp,
                                    lastEvent |-> envelope, turns |-> applied.turns]
                              ELSE session]
  BY <1>1, <1>2, <1>3, <1>4 DEF Prepare
<1>6. /\ prepared.outcome = outcome
      /\ outcome = "ok" =>
           /\ prepared.envelope = envelope
           /\ prepared.session = [sequence |-> envelope.sequence, timestamp |-> envelope.timestamp,
                                  lastEvent |-> envelope, turns |-> applied.turns]
  BY <1>5
<1>7. /\ applied.outcome = "ok" <=> Allowed(session, t, event, item)
      /\ Allowed(session, t, event, item) =>
           applied = Accept([session.turns EXCEPT ![t] = TurnAfter(session.turns[t], event, item)],
                            PhaseAfter(event), RevisionAfter(session.turns[t], event, item))
  BY <1>1, ApplyExactly
<1>8. session.sequence \in Nat /\ MaxSafe \in Nat
  BY SequencerAssumption DEF SessionFits
<1>9. outcome = "ok" <=> Acceptable(session, t, event, item, now)
  BY <1>3, <1>7, <1>8 DEF Acceptable, ClockIsValid
<1>10. ASSUME Allowed(session, t, event, item)
       PROVE  /\ envelope = e
              /\ applied.turns = [session.turns EXCEPT ![t] = TurnAfter(session.turns[t], event, item)]
  <2>1. PICK turns, state, revision :
           /\ turns = [session.turns EXCEPT ![t] = TurnAfter(session.turns[t], event, item)]
           /\ state = PhaseAfter(event) /\ revision = RevisionAfter(session.turns[t], event, item)
    OBVIOUS
  <2>2. applied.turns = turns /\ applied.state = state /\ applied.revision = revision
    <3>1. applied = Accept(turns, state, revision)
      BY <1>7, <1>10, <2>1
    <3> QED
      BY <3>1 DEF Accept
  <2>3. envelope = [session |-> s, turn |-> t, event |-> event, item |-> item,
                    state |-> applied.state, revision |-> applied.revision,
                    sequence |-> session.sequence + 1, timestamp |-> LargerOf(now, session.timestamp)]
    BY <1>2 DEF Envelope, NormalizedTimestamp
  <2>4. e = [session |-> s, turn |-> t, event |-> event, item |-> item,
             state |-> state, revision |-> revision,
             sequence |-> session.sequence + 1, timestamp |-> LargerOf(now, session.timestamp)]
    BY <1>1, <2>1 DEF EventAfter
  <2> QED
    BY <2>1, <2>2, <2>3, <2>4
<1>11. ASSUME outcome = "ok"
       PROVE  prepared.envelope = e /\ prepared.session = SessionAfter(session, e)
  <2>1. /\ prepared.envelope = e
        /\ prepared.session
             = [sequence |-> e.sequence, timestamp |-> e.timestamp, lastEvent |-> e,
                turns |-> [session.turns EXCEPT ![t] = TurnAfter(session.turns[t], event, item)]]
    BY <1>6, <1>9, <1>10, <1>11 DEF Acceptable
  <2>2. e.turn = t /\ e.event = event /\ e.item = item
    BY <1>1 DEF EventAfter
  <2> QED
    BY <2>1, <2>2 DEF SessionAfter
<1> QED
  BY <1>1, <1>4, <1>6, <1>9, <1>11

LEMMA ReplayExactly ==
  ASSUME NEW session, SessionFits(session), NEW e, e.turn \in Turns
  PROVE  /\ CanReplay(session, e)
              <=> /\ Acceptable(session, e.turn, e.event, e.item, e.timestamp)
                  /\ e = EventAfter(e.session, session, e.turn, e.event, e.item, e.timestamp)
         /\ CanReplay(session, e) => Replay(session, e) = SessionAfter(session, e)
<1> DEFINE again == Prepare(e.session, session, e.turn, e.event, e.item, e.timestamp)
           f == EventAfter(e.session, session, e.turn, e.event, e.item, e.timestamp)
<1>1. /\ again.outcome = "ok" <=> Acceptable(session, e.turn, e.event, e.item, e.timestamp)
      /\ again.outcome = "ok" => again.envelope = f /\ again.session = SessionAfter(session, f)
  BY PreparedExactly
<1>2. CanReplay(session, e) <=> again.outcome = "ok" /\ again.envelope = e
  BY DEF CanReplay
<1>3. Replay(session, e) = again.session
  BY DEF Replay
<1> HIDE DEF again, f
<1> QED
  BY <1>1, <1>2, <1>3 DEF f

LEMMA PreparedCarries ==
  ASSUME NEW s, NEW x, NEW t, NEW event, NEW item, NEW now,
         Prepare(s, x, t, event, item, now).outcome = "ok"
  PROVE  /\ Prepare(s, x, t, event, item, now).envelope.turn = t
         /\ Prepare(s, x, t, event, item, now).envelope.event = event
         /\ Prepare(s, x, t, event, item, now).envelope.item = item
BY DEF Prepare, Envelope
=============================================================================
