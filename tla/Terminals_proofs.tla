-------------------------- MODULE Terminals_proofs --------------------------
(***************************************************************************)
(* Terminals and their records stay in step, and a session that was put    *)
(* away is quiet, for any number of terminals, any ring and any bound.     *)
(*                                                                         *)
(* The invariant behind both: each identity has a terminal and a record    *)
(* that fit each other, or neither, or a terminal alone that a failed open *)
(* or restart kept; a stop holds the mutex, so the terminal it stops is    *)
(* not taken from under it; and a session is not put away while the        *)
(* runtime thread is between the sections of an open.                      *)
(* Three more stand on it: what a stop killed stays killed; what an open   *)
(* found is still so at its second section; and each byte of a ring is at  *)
(* its position, which only moves forward between two snapshots.           *)
(***************************************************************************)
EXTENDS Terminals, FiniteSetTheorems, TLAPS

Kinds == {"foreground", "background"}

Terms ==
  [life : 1..MaxLife, live : SUBSET Groups, front : Groups, killed : SUBSET Groups,
   reaped : BOOLEAN, bytes : Seq(Nat), end : 0..MaxOutput]
Records == [gen : 1..MaxLife, kind : Kinds, state : States]

(* An exit that is known is one that happened; the ring keeps its limit.   *)
Tidy(t) == /\ t \in Terms
           /\ t.reaped => Shell \notin t.live
           /\ Len(t.bytes) <= Cap
           /\ Len(t.bytes) <= t.end

Fits(r, t) == /\ r \in Records
              /\ r.gen = t.life
              /\ r.state = "exited" => t.reaped

(* A record has its terminal; a terminal without one was left by a failure *)
(* of the open or the restart that spawned it.                             *)
Entry(id) == /\ ~Absent(id) => Tidy(term[id]) /\ id \in opened
             /\ ~Absent(id) /\ rec[id] = None => id \in lost
             /\ rec[id] # None =>
                   ~Absent(id) /\ id \notin lost /\ Fits(rec[id], term[id])

Entries == /\ term = [id \in Ids |-> term[id]]
           /\ rec = [id \in Ids |-> rec[id]]
           /\ lost \subseteq opened
           /\ \A id \in Ids : Entry(id)

PutAway == session.archived \/ session.deletion # "none"

Stops == [op : {"stop"}, id : Ids, sent : {"HUP", "TERM", "KILL"},
          groups : SUBSET Groups]
Ops == {"idle", "open", "remove", "input", "stop", "excerpt", "handed"}

(* What the code of a thread between two of its sections relies on.        *)
WorkFits(t) ==
  /\ work[t].op \in Ops
  /\ t = "control" => work[t].op \in {"idle", "stop"}
  /\ work[t].op = "stop" =>
        work[t] \in Stops /\ lock = t /\ ~Absent(work[t].id)
  /\ work[t].op = "open" => work[t].kind \in Kinds /\ ~PutAway
  /\ work[t].op = "remove" => work[t].id \in Ids
  /\ work[t].op = "input" => lock = t
  /\ work[t].op = "excerpt" => /\ work[t].id \in Ids /\ lock = t
                               /\ ~Absent(work[t].id) /\ rec[work[t].id] # None

Works == /\ work = [t \in Threads |-> work[t]]
         /\ \A t \in Threads : WorkFits(t)

Sessions == [archived : BOOLEAN, deletion : {"none", "pending", "purged"}]

IInv == /\ Entries
        /\ Works
        /\ opened \subseteq Ids
        /\ session \in Sessions
        /\ lock \in Threads \cup {Nobody}
        /\ PutAway => \A id \in Ids : ~Busy(rec[id])

(* A record is not made busy, nor given another kind.                      *)
NoBusier(old, new) == Busy(new) => Busy(old) /\ new.kind = old.kind
NoneBusier == \A id \in Ids : NoBusier(rec[id], rec'[id])
Stand(id) == /\ term'[id] = None <=> term[id] = None
             /\ rec'[id] = None <=> rec[id] = None

-----------------------------------------------------------------------------
(* The entries one request changes *)

LEMMA NoneIsNeither == None \notin Terms /\ None \notin Records
BY DEF None, Terms, Records

(* Asking for the exit keeps a terminal tidy and what is known, known.     *)
LEMMA PolledIsTidy ==
  ASSUME NEW t, Tidy(t)
  PROVE  /\ Tidy(Polled(t)) /\ Polled(t).life = t.life
         /\ t.reaped => Polled(t).reaped
BY DEF Tidy, Terms, Polled, Groups, Shell, Job

(* What a record may become under a terminal: none is made, none is lost.  *)
Follows(r, d, t) == /\ r = None => d = None
                    /\ r # None => d # None /\ Fits(d, t)
                    /\ NoBusier(r, d)

(* A record that follows its terminal fits it, and is busy only if it was. *)
LEMMA DecoratedFits ==
  ASSUME NEW t, NEW r, Tidy(t), r # None => Fits(r, t), NEW p, p = Polled(t)
  PROVE  Follows(r, Decorated(r, p), p)
<1>1. Tidy(p) /\ p.life = t.life /\ (t.reaped => p.reaped)
  BY PolledIsTidy
<1>2. CASE r = None
  BY <1>2 DEF Follows, Decorated, NoBusier, Busy
<1>3. CASE r # None
  <2>1. /\ Decorated(r, p) \in Records
        /\ Decorated(r, p).gen = r.gen /\ Decorated(r, p).kind = r.kind
        /\ Decorated(r, p).state =
              IF p.reaped THEN "exited"
              ELSE IF r.state = "stopping" THEN "stopping" ELSE "running"
    BY <1>3 DEF Fits, Decorated, Records, States
  <2>2. Fits(Decorated(r, p), p)
    BY <1>1, <1>3, <2>1 DEF Fits
  <2>3. NoBusier(r, Decorated(r, p))
    BY <1>1, <1>3, <2>1, NoneIsNeither DEF NoBusier, Busy, Fits, Records, States
  <2> QED  BY <1>3, <2>1, <2>2, <2>3, NoneIsNeither DEF Follows
<1> QED  BY <1>2, <1>3

(* A stop's last word says no more than its snapshot does.                 *)
LEMMA StoppedFits ==
  ASSUME NEW t, NEW r, Tidy(t), r # None => Fits(r, t), NEW p, p = Polled(t),
         NEW d, d = Decorated(Asked(r), p)
  PROVE  Follows(r, d, p)
<1>1. Tidy(p) /\ p.life = t.life /\ (t.reaped => p.reaped)
  BY PolledIsTidy
<1>2. CASE r = None
  BY <1>2 DEF Follows, Asked, Decorated, NoBusier, Busy
<1>3. CASE r # None
  <2>1. PICK a : a = [r EXCEPT !.state = "stopping"]
    OBVIOUS
  <2>2. /\ a \in Records /\ a # None
        /\ a.gen = r.gen /\ a.kind = r.kind /\ a.state = "stopping"
    BY <1>3, <2>1, NoneIsNeither DEF Fits, Records, States
  <2>3. d = [a EXCEPT !.state = IF p.reaped THEN "exited"
                                ELSE IF @ = "stopping" THEN "stopping" ELSE "running"]
    BY <1>3, <2>1, <2>2 DEF Asked, Decorated
  <2>4. /\ d \in Records /\ d.gen = r.gen /\ d.kind = r.kind
        /\ d.state = IF p.reaped THEN "exited" ELSE "stopping"
    BY <2>2, <2>3 DEF Records, States
  <2>5. Fits(d, p)
    BY <1>1, <1>3, <2>4 DEF Fits
  <2>6. NoBusier(r, d)
    BY <1>1, <1>3, <2>4, NoneIsNeither DEF NoBusier, Busy, Fits, Records, States
  <2> QED  BY <1>3, <2>4, <2>5, <2>6, NoneIsNeither DEF Follows
<1> QED  BY <1>2, <1>3

(* A terminal and its record change together.                              *)
LEMMA BothMove ==
  ASSUME Entries, NEW id \in Ids, NEW u, NEW r, Tidy(u), ~Absent(id),
         Follows(rec[id], r, u), UNCHANGED <<opened, lost>>,
         Update(id, u), rec' = [rec EXCEPT ![id] = r]
  PROVE  Entries' /\ NoneBusier /\ \A i \in Ids : Stand(i)
<1>1. u # None
  BY NoneIsNeither DEF Tidy
<1>2. /\ term' = [i \in Ids |-> term'[i]] /\ rec' = [i \in Ids |-> rec'[i]]
      /\ (lost \subseteq opened)'
  BY DEF Entries, Update
<1>3. ASSUME NEW i \in Ids
      PROVE  Entry(i)' /\ NoBusier(rec[i], rec'[i]) /\ Stand(i)
  <2>1. CASE i = id
    <3>1. term'[i] = u /\ rec'[i] = r /\ Entry(id)
      BY <2>1 DEF Entries, Update
    <3> QED  BY <1>1, <2>1, <3>1 DEF Entry, Absent, Follows, Stand
  <2>2. CASE i # id
    <3>1. term'[i] = term[i] /\ rec'[i] = rec[i] /\ Entry(i)
      BY <2>2 DEF Entries, Update
    <3> QED  BY <3>1 DEF Entry, Absent, NoBusier, Stand
  <2> QED  BY <2>1, <2>2
<1> QED  BY <1>2, <1>3 DEF Entries, NoneBusier

(* A terminal changes under its record.                                    *)
LEMMA TerminalMoves ==
  ASSUME Entries, NEW id \in Ids, ~Absent(id), NEW u, Tidy(u),
         u.life = term[id].life, term[id].reaped => u.reaped, UNCHANGED <<opened, lost>>,
         Update(id, u), rec' = rec
  PROVE  Entries' /\ NoneBusier /\ \A i \in Ids : Stand(i)
<1>1. Follows(rec[id], rec[id], u)
  BY DEF Entries, Entry, Fits, Follows, NoBusier
<1>2. rec' = [rec EXCEPT ![id] = rec[id]]
  BY DEF Entries
<1> QED  BY <1>1, <1>2, BothMove

(* The facts an entry that is there gives.                                 *)
LEMMA Present ==
  ASSUME Entries, NEW id \in Ids, ~Absent(id)
  PROVE  Tidy(term[id]) /\ (rec[id] # None => Fits(rec[id], term[id]))
BY DEF Entries, Entry

LEMMA RefreshKeepsEntries ==
  ASSUME Entries, NEW id \in Ids, ~Absent(id), Refresh(id), UNCHANGED <<opened, lost>>
  PROVE  Entries' /\ NoneBusier /\ \A i \in Ids : Stand(i)
<1> DEFINE p == Polled(term[id])
           r == Decorated(rec[id], p)
<1>1. Tidy(p) /\ Follows(rec[id], r, p)
  BY Present, PolledIsTidy, DecoratedFits
<1>2. Update(id, p) /\ rec' = [rec EXCEPT ![id] = r]
  BY DEF Refresh, Entries
<1> QED  BY <1>1, <1>2, BothMove

LEMMA RefreshAllKeepsEntries ==
  ASSUME Entries, RefreshAll, UNCHANGED <<opened, lost>>
  PROVE  Entries' /\ NoneBusier /\ \A i \in Ids : Stand(i)
<1> SUFFICES ASSUME NEW id \in Ids
             PROVE  Entry(id)' /\ Stand(id) /\ NoBusier(rec[id], rec'[id])
  BY DEF Entries, RefreshAll, NoneBusier
<1>1. Entry(id)
  BY DEF Entries
<1>2. CASE rec[id] = None
  <2>1. term'[id] = term[id] /\ rec'[id] = None
    BY <1>2 DEF RefreshAll
  <2> QED  BY <1>1, <1>2, <2>1 DEF Entry, Absent, Stand, NoBusier, Busy
<1>3. CASE rec[id] # None
  <2> DEFINE p == Polled(term[id])
             r == Decorated(rec[id], p)
  <2>1. ~Absent(id) /\ Tidy(term[id]) /\ Fits(rec[id], term[id])
    BY <1>1, <1>3 DEF Entry
  <2>2. Tidy(p) /\ Follows(rec[id], r, p)
    BY <2>1, PolledIsTidy, DecoratedFits
  <2>3. p # None /\ term[id] # None
    BY <2>1, <2>2, NoneIsNeither DEF Tidy
  <2>4. term'[id] = p /\ rec'[id] = r
    BY <1>3 DEF RefreshAll
  <2> QED
    BY <1>1, <1>3, <2>2, <2>3, <2>4 DEF Entry, Absent, Follows, Stand
<1> QED  BY <1>2, <1>3

-----------------------------------------------------------------------------
(* What each thread is in the middle of *)

(* No thread moves.                                                        *)
LEMMA WorkStands ==
  ASSUME Works, work' = work, lock' = lock, session' = session,
         \A i \in Ids : Stand(i)
  PROVE  Works'
<1> SUFFICES ASSUME NEW t \in Threads PROVE WorkFits(t)'
  BY DEF Works
<1> QED  BY DEF Works, WorkFits, Absent, Stand, PutAway, Stops

(* A thread becomes idle, and gives the mutex back if it had it.           *)
LEMMA ThreadEnds ==
  ASSUME Works, NEW t \in Threads, work' = [work EXCEPT ![t] = Idle],
         session' = session, \A i \in Ids : Stand(i),
         \/ lock' = lock
         \/ lock' = Nobody /\ lock = t
  PROVE  Works'
<1> SUFFICES ASSUME NEW s \in Threads PROVE WorkFits(s)'
  BY DEF Works
<1>1. CASE s = t
  BY <1>1 DEF Works, WorkFits, Idle, Ops
<1>2. CASE s # t
  <2>1. work'[s] = work[s]
    BY <1>2 DEF Works
  <2>2. WorkFits(s)
    BY DEF Works
  <2> QED
    BY <1>2, <2>1, <2>2 DEF WorkFits, Absent, Stand, PutAway, Stops, Threads, Nobody
<1> QED  BY <1>1, <1>2

(* The runtime thread takes up something that fits.                        *)
LEMMA RuntimeBegins ==
  ASSUME Works, NEW w, work' = [work EXCEPT !["runtime"] = w],
         session' = session, \A i \in Ids : Stand(i),
         WorkFits("runtime")',
         \/ lock' = lock
         \/ lock = Nobody
         \/ lock' = Nobody /\ lock = "runtime"
  PROVE  Works'
<1>1. WorkFits("control")
  BY DEF Works, Threads
<1>2. work'["control"] = work["control"]
  BY DEF Works, Threads
<1>3. WorkFits("control")'
  BY <1>1, <1>2 DEF WorkFits, Absent, Stand, Stops, Nobody
<1> QED  BY <1>3 DEF Works, Threads

(* While nobody has the mutex, no stop is in progress.                     *)
LEMMA NobodyStops ==
  ASSUME Works, lock = Nobody, NEW t \in Threads
  PROVE  work[t].op # "stop"
BY DEF Works, WorkFits, Threads, Nobody

(* Between requests of both threads nothing depends on the entries.        *)
LEMMA NothingHeld ==
  ASSUME Works, Free("runtime"), work' = work
  PROVE  Works'
<1>1. \A t \in Threads : work[t].op = "idle"
  BY NobodyStops DEF Works, WorkFits, Free, Idle, Threads
<1> QED  BY <1>1 DEF Works, WorkFits, Ops

LEMMA QuietStays ==
  ASSUME IInv, NoneBusier, session' = session
  PROVE  (PutAway => \A id \in Ids : ~Busy(rec[id]))'
BY DEF IInv, NoneBusier, NoBusier, PutAway

(* A terminal is asked for its exit, its record is not told.               *)
LEMMA PolledOnly ==
  ASSUME Entries, NEW id \in Ids, ~Absent(id), Update(id, Polled(term[id])),
         rec' = rec, UNCHANGED <<opened, lost>>
  PROVE  Entries' /\ NoneBusier /\ \A i \in Ids : Stand(i)
<1>1. Tidy(term[id])
  BY Present
<1>2. /\ Tidy(Polled(term[id])) /\ Polled(term[id]).life = term[id].life
      /\ term[id].reaped => Polled(term[id]).reaped
  BY <1>1, PolledIsTidy
<1> QED  BY <1>2, TerminalMoves

(* A new process and its record.                                           *)
LEMMA SpawnedIsTidy ==
  ASSUME NEW life \in 1..MaxLife
  PROVE  Tidy(Spawned(life)) /\ Spawned(life).life = life
BY BoundsAssumption DEF Tidy, Spawned, Terms, Groups, Shell, Job

-----------------------------------------------------------------------------
(* Processes and readers *)

LEMMA PushIsTidy ==
  ASSUME NEW t, Tidy(t), NEW n \in Chunks, t.end + n <= MaxOutput
  PROVE  /\ Tidy(Push(t, n))
         /\ Push(t, n).life = t.life /\ Push(t, n).reaped = t.reaped
<1> DEFINE new == [i \in 1..n |-> t.end + i - 1]
           all == t.bytes \o new
           from == Larger(Len(all) - Cap, 0) + 1
<1>1. t.bytes \in Seq(Nat) /\ t.end \in Nat /\ t \in Terms /\ n \in Nat
  BY BoundsAssumption DEF Tidy, Terms
<1>2. new \in Seq(Nat) /\ Len(new) = n
  BY <1>1
<1>3. all \in Seq(Nat) /\ Len(all) = Len(t.bytes) + n
  BY <1>1, <1>2
<1>4. /\ from \in 1 .. Len(all) + 1 /\ Len(all) - from + 1 <= Cap
      /\ Len(all) - from + 1 <= Len(all)
  <2>1. Cap \in Nat \ {0} /\ Len(t.bytes) \in Nat
    BY <1>1, BoundsAssumption
  <2>2. PICK l \in Nat : l = Len(all)
    BY <1>1, <1>3, <2>1
  <2>3. from = (IF l - Cap > 0 THEN l - Cap ELSE 0) + 1
    BY <2>2 DEF Larger
  <2> HIDE DEF from
  <2>4. from \in 1 .. l + 1 /\ l - from + 1 <= Cap /\ l - from + 1 <= l
    BY <2>1, <2>3
  <2> QED  BY <2>2, <2>4
<1> HIDE DEF all, from
<1> DEFINE kept == SubSeq(all, from, Len(all))
<1>5. kept \in Seq(Nat) /\ Len(kept) <= Cap /\ Len(kept) <= Len(all)
  <2>1. PICK f \in 1 .. Len(all) + 1 : f = from
    BY <1>4
  <2>2. kept = SubSeq(all, f, Len(all)) /\ all \in Seq(Nat)
    BY <1>3, <2>1
  <2>3. kept \in Seq(Nat) /\ Len(kept) = Len(all) - f + 1
    BY <2>2
  <2> QED  BY <1>4, <2>1, <2>3
<1> HIDE DEF kept
<1>6. Push(t, n) = [t EXCEPT !.bytes = kept, !.end = @ + n]
  BY DEF Push, kept, all, from
<1>7. Push(t, n) \in Terms
  <2>1. t.end + n \in 0..MaxOutput
    BY <1>1, BoundsAssumption
  <2>2. Push(t, n) = [t EXCEPT !.bytes = kept, !.end = t.end + n]
    BY <1>1, <1>6 DEF Terms
  <2> QED  BY <1>1, <1>5, <2>1, <2>2 DEF Terms
<1>8. /\ Push(t, n).bytes = kept /\ Push(t, n).end = t.end + n
      /\ Push(t, n).live = t.live /\ Push(t, n).reaped = t.reaped
      /\ Push(t, n).life = t.life
  BY <1>1, <1>6 DEF Terms
<1> QED  BY <1>3, <1>5, <1>7, <1>8, <1>1 DEF Tidy

ProcessStep(id) ==
  \/ StartJob(id)
  \/ \E g \in Groups : ChangeFront(id, g) \/ Die(id, g)
  \/ \E n \in Chunks : ReadOutput(id, n)

LEMMA ProcessKeepsIInv ==
  ASSUME IInv, NEW id \in Ids, ProcessStep(id)
  PROVE  IInv' /\ NoneBusier
<1>1. ~Absent(id) /\ OthersStand
  BY DEF ProcessStep, StartJob, ChangeFront, Die, ReadOutput
<1>2. Tidy(term[id])
  BY <1>1, Present DEF IInv
<1>3. PICK u : /\ Update(id, u) /\ Tidy(u) /\ u.life = term[id].life
               /\ term[id].reaped => u.reaped
  <2>1. CASE StartJob(id)
    <3> DEFINE u == [term[id] EXCEPT !.live = Groups, !.front = Job]
    <3>1. Tidy(u) /\ u.life = term[id].life /\ u.reaped = term[id].reaped
      BY <1>2, <2>1 DEF Tidy, Terms, Groups, StartJob
    <3> QED  BY <2>1, <3>1 DEF StartJob
  <2>2. ASSUME NEW g \in Groups, ChangeFront(id, g)
        PROVE  \E u : /\ Update(id, u) /\ Tidy(u) /\ u.life = term[id].life
                      /\ term[id].reaped => u.reaped
    <3> DEFINE u == [term[id] EXCEPT !.front = g]
    <3>1. Tidy(u) /\ u.life = term[id].life /\ u.reaped = term[id].reaped
      BY <1>2 DEF Tidy, Terms
    <3> QED  BY <2>2, <3>1 DEF ChangeFront
  <2>3. ASSUME NEW g \in Groups, Die(id, g)
        PROVE  \E u : /\ Update(id, u) /\ Tidy(u) /\ u.life = term[id].life
                      /\ term[id].reaped => u.reaped
    <3> DEFINE u == [term[id] EXCEPT !.live = @ \ {g}]
    <3>1. Tidy(u) /\ u.life = term[id].life /\ u.reaped = term[id].reaped
      BY <1>2 DEF Tidy, Terms
    <3> QED  BY <2>3, <3>1 DEF Die
  <2>4. ASSUME NEW n \in Chunks, ReadOutput(id, n)
        PROVE  \E u : /\ Update(id, u) /\ Tidy(u) /\ u.life = term[id].life
                      /\ term[id].reaped => u.reaped
    BY <1>2, <2>4, PushIsTidy DEF ReadOutput
  <2> QED  BY <2>1, <2>2, <2>3, <2>4 DEF ProcessStep
<1>4. Entries' /\ NoneBusier /\ \A i \in Ids : Stand(i)
  BY <1>1, <1>3, TerminalMoves DEF IInv, OthersStand
<1>5. Works'
  BY <1>1, <1>4, WorkStands DEF IInv, OthersStand
<1> QED  BY <1>1, <1>4, <1>5, QuietStays DEF IInv, OthersStand

-----------------------------------------------------------------------------
(* Requests of the runtime thread *)

LEMMA OneSectionKeepsIInv ==
  ASSUME IInv, \/ List
               \/ \E id \in Ids : Read(id) \/ Signal(id)
  PROVE  IInv' /\ NoneBusier
<1>1. /\ Entries' /\ NoneBusier /\ \A i \in Ids : Stand(i)
      /\ UNCHANGED <<opened, session, lock, work>>
  <2>1. CASE List
    BY <2>1, RefreshAllKeepsEntries DEF List, IInv
  <2>2. ASSUME NEW id \in Ids, Read(id)
        PROVE  /\ Entries' /\ NoneBusier /\ \A i \in Ids : Stand(i)
               /\ UNCHANGED <<opened, session, lock, work>>
    BY <2>2, RefreshKeepsEntries DEF Read, IInv
  <2>3. ASSUME NEW id \in Ids, Signal(id)
        PROVE  /\ Entries' /\ NoneBusier /\ \A i \in Ids : Stand(i)
               /\ UNCHANGED <<opened, session, lock, work>>
    BY <2>3, PolledOnly DEF Signal, OthersStand, IInv
  <2> QED  BY <2>1, <2>2, <2>3
<1>2. Works'
  BY <1>1, WorkStands DEF IInv
<1> QED  BY <1>1, <1>2, QuietStays DEF IInv

(* What open_user makes of an identity that has no record, or loses it.    *)
LEMMA SpawnKeepsEntries ==
  ASSUME Entries, NEW id \in Ids, NEW life \in 1..MaxLife, NEW r,
         NEW end \in SpawnEnds, ManagerAfter(id, life, end),
         id \notin lost, opened' = opened \cup {id},
         end = "opened" => Fits(r, Spawned(life)),
         rec' = [rec EXCEPT ![id] = IF end = "opened" THEN r ELSE None]
  PROVE  Entries'
<1>1. Tidy(Spawned(life)) /\ Spawned(life) # None
  BY SpawnedIsTidy, NoneIsNeither DEF Tidy
<1>2. end = "opened" => r # None
  BY NoneIsNeither DEF Fits
<1>3. /\ term' = [i \in Ids |-> term'[i]] /\ rec' = [i \in Ids |-> rec'[i]]
      /\ (lost \subseteq opened)'
  BY DEF Entries, ManagerAfter, Update
<1>4. ASSUME NEW i \in Ids, i # id PROVE Entry(i)'
  <2>1. /\ Entry(i) /\ term'[i] = term[i] /\ rec'[i] = rec[i]
        /\ i \in lost' <=> i \in lost
        /\ i \in opened' <=> i \in opened
    BY <1>4 DEF Entries, ManagerAfter, Update
  <2> QED  BY <2>1 DEF Entry, Absent
<1>5. Entry(id)'
  <2>1. id \in opened' /\ rec'[id] = IF end = "opened" THEN r ELSE None
    BY DEF Entries
  <2>2. CASE end = "opened"
    <3>1. term'[id] = Spawned(life) /\ lost' = lost
      BY <2>2 DEF Entries, ManagerAfter, Update, Leaves
    <3> QED  BY <1>1, <1>2, <2>1, <2>2, <3>1 DEF Entry, Absent
  <2>3. CASE end = "kept"
    <3>1. term'[id] = Spawned(life) /\ id \in lost'
      BY <2>3 DEF Entries, ManagerAfter, Update, Leaves
    <3> QED  BY <1>1, <2>1, <2>3, <3>1 DEF Entry, Absent
  <2>4. CASE end \in {"refused", "dropped"}
    <3>1. term'[id] = None
      BY <2>4 DEF Entries, ManagerAfter, Update
    <3> QED  BY <2>1, <2>4, <3>1 DEF Entry, Absent
  <2> QED  BY <2>2, <2>3, <2>4 DEF SpawnEnds
<1> QED  BY <1>3, <1>4, <1>5 DEF Entries

LEMMA RestartKeepsIInv ==
  ASSUME IInv, NEW id \in Ids, NEW end \in SpawnEnds, Restart(id, end)
  PROVE  IInv'
<1>1. Works'
  BY NothingHeld DEF Restart, IInv
<1>2. ~PutAway'
  BY DEF Restart, MayStart, Bound, PutAway
<1>3. Entries'
  <2> DEFINE life == term[id].life + 1
  <2>1. /\ Tidy(term[id]) /\ Fits(rec[id], term[id]) /\ rec[id] \in Records
        /\ id \notin lost /\ id \in opened
    BY DEF Restart, IInv, Entries, Entry, Fits
  <2>2. life \in 1..MaxLife
    BY <2>1, BoundsAssumption DEF Restart, Tidy, Terms
  <2>3. Spawned(life).life = life
    BY <2>2, SpawnedIsTidy
  <2>4. Fits(Renewed(rec[id]), Spawned(life))
    BY <2>1, <2>2, <2>3 DEF Fits, Records, States, Renewed
  <2>5. /\ ManagerAfter(id, life, end) /\ opened' = opened \cup {id}
        /\ rec' = [rec EXCEPT ![id] =
                       IF end = "opened" THEN Renewed(rec[id]) ELSE None]
    BY <2>1 DEF Restart, Respawned
  <2> HIDE DEF life
  <2> QED  BY <2>1, <2>2, <2>4, <2>5, SpawnKeepsEntries DEF IInv
<1> QED  BY <1>1, <1>2, <1>3 DEF IInv, Restart

LEMMA OpenKeepsIInv ==
  ASSUME IInv, \/ \E kind \in Kinds : OpenChecks(kind)
               \/ OpenFails
  PROVE  IInv' /\ NoneBusier
<1>1. ASSUME NEW kind \in Kinds, OpenChecks(kind)
      PROVE  IInv' /\ NoneBusier
  <2>1. Entries' /\ NoneBusier /\ \A i \in Ids : Stand(i)
    BY <1>1, RefreshAllKeepsEntries DEF OpenChecks, IInv
  <2>2. ~PutAway'
    BY <1>1 DEF OpenChecks, MayStart, Bound, PutAway
  <2>3. Works'
    <3>1. CASE work' = work
      BY <1>1, <2>1, <3>1, WorkStands DEF OpenChecks, IInv
    <3>2. CASE work' = [work EXCEPT !["runtime"] = [op |-> "open", kind |-> kind]]
      <4>1. WorkFits("runtime")'
        BY <1>1, <2>2, <3>2 DEF WorkFits, IInv, Works, Threads, Ops
      <4> QED  BY <1>1, <2>1, <3>2, <4>1, RuntimeBegins DEF OpenChecks, IInv
    <3> QED  BY <1>1, <3>1, <3>2 DEF OpenChecks
  <2> QED  BY <1>1, <2>1, <2>3, QuietStays DEF IInv, OpenChecks
<1>2. CASE OpenFails
  <2>1. Works'
    BY <1>2, ThreadEnds DEF OpenFails, IInv, Stand, Threads
  <2> QED  BY <1>2, <2>1 DEF OpenFails, IInv, Entries, Entry, Absent, PutAway, NoneBusier,
                               NoBusier
<1> QED  BY <1>1, <1>2

LEMMA OpenSpawnsKeepsIInv ==
  ASSUME IInv, NEW id \in Ids, NEW end \in SpawnEnds, OpenSpawns(id, end)
  PROVE  IInv'
<1> DEFINE r == [gen |-> 1, kind |-> work["runtime"].kind, state |-> "running"]
<1>1. WorkFits("runtime") /\ work["runtime"].op = "open"
  BY DEF IInv, Works, Threads, OpenSpawns
<1>2. ~PutAway /\ work["runtime"].kind \in Kinds
  BY <1>1 DEF WorkFits
<1>3. 1 \in 1..MaxLife /\ Spawned(1).life = 1
  BY SpawnedIsTidy, BoundsAssumption
<1>4. Fits(r, Spawned(1))
  BY <1>2, <1>3, BoundsAssumption DEF Fits, Records, States
<1>5. id \notin lost /\ rec[id] = None
  BY DEF OpenSpawns, IInv, Entries, Entry
<1>6. rec' = [rec EXCEPT ![id] = IF end = "opened" THEN r ELSE None]
  BY <1>5 DEF OpenSpawns, IInv, Entries
<1>7. Entries'
  <2>1. ManagerAfter(id, 1, end) /\ opened' = opened \cup {id}
    BY DEF OpenSpawns
  <2> HIDE DEF r
  <2> QED  BY <1>3, <1>4, <1>5, <1>6, <2>1, SpawnKeepsEntries DEF IInv
<1>8. \A t \in Threads : work'[t].op = "idle"
  <2>1. work["control"].op = "idle"
    BY NobodyStops DEF OpenSpawns, IInv, Works, WorkFits, Threads
  <2> QED  BY <2>1 DEF OpenSpawns, IInv, Works, Threads, Idle
<1>9. Works'
  BY <1>8 DEF IInv, Works, WorkFits, Ops, OpenSpawns
<1> QED  BY <1>2, <1>7, <1>9 DEF IInv, OpenSpawns, PutAway

LEMMA RemoveKeepsIInv ==
  ASSUME IInv, \/ \E id \in Ids : RemoveChecks(id)
               \/ RemoveTakes
  PROVE  IInv' /\ NoneBusier
<1>1. ASSUME NEW id \in Ids, RemoveChecks(id)
      PROVE  IInv' /\ NoneBusier
  <2>1. Entries' /\ NoneBusier /\ \A i \in Ids : Stand(i)
    BY <1>1, RefreshKeepsEntries DEF RemoveChecks, IInv
  <2>2. Works'
    <3>1. CASE work' = work
      BY <1>1, <2>1, <3>1, WorkStands DEF RemoveChecks, IInv
    <3>2. CASE work' = [work EXCEPT !["runtime"] = [op |-> "remove", id |-> id]]
      <4>1. WorkFits("runtime")'
        BY <3>2 DEF WorkFits, IInv, Works, Threads, Ops
      <4> QED  BY <1>1, <2>1, <3>2, <4>1, RuntimeBegins DEF RemoveChecks, IInv
    <3> QED  BY <1>1, <3>1, <3>2 DEF RemoveChecks
  <2> QED  BY <1>1, <2>1, <2>2, QuietStays DEF IInv, RemoveChecks
<1>2. CASE RemoveTakes
  <2>1. \A t \in Threads : work'[t].op = "idle"
    <3>1. work["control"].op = "idle"
      BY <1>2, NobodyStops DEF RemoveTakes, IInv, Works, WorkFits, Threads
    <3> QED  BY <1>2, <3>1 DEF RemoveTakes, IInv, Works, Threads, Idle
  <2>2. Works'
    BY <1>2, <2>1 DEF IInv, Works, WorkFits, Ops, RemoveTakes
  <2>3. work["runtime"].id \in Ids
    BY <1>2 DEF RemoveTakes, IInv, Works, WorkFits, Threads
  <2>4. Entries' /\ NoneBusier
    BY <1>2, <2>3
       DEF RemoveTakes, IInv, Entries, Entry, Absent, Update, NoneBusier, NoBusier, Busy
  <2> QED  BY <1>2, <2>2, <2>4, QuietStays DEF IInv, RemoveTakes
<1> QED  BY <1>1, <1>2

LEMMA InputKeepsIInv ==
  ASSUME IInv, \/ \E id \in Ids : InputBegins(id)
               \/ InputEnds
  PROVE  IInv' /\ NoneBusier
<1>1. ASSUME NEW id \in Ids, InputBegins(id)
      PROVE  IInv' /\ NoneBusier
  <2>1. Entries' /\ NoneBusier /\ \A i \in Ids : Stand(i)
    BY <1>1, PolledOnly DEF InputBegins, IInv
  <2>2. Works' /\ lock' \in Threads \cup {Nobody}
    <3>1. CASE UNCHANGED <<lock, work>>
      BY <1>1, <2>1, <3>1, WorkStands DEF InputBegins, IInv
    <3>2. CASE /\ lock' = "runtime"
               /\ work' = [work EXCEPT !["runtime"] = [op |-> "input"]]
      <4>1. WorkFits("runtime")'
        BY <3>2 DEF WorkFits, IInv, Works, Threads, Ops
      <4> QED
        BY <1>1, <2>1, <3>2, <4>1, RuntimeBegins DEF InputBegins, IInv, Free, Threads
    <3> QED  BY <1>1, <3>1, <3>2 DEF InputBegins
  <2> QED  BY <1>1, <2>1, <2>2, QuietStays DEF IInv, InputBegins
<1>2. CASE InputEnds
  <2>1. lock = "runtime"
    BY <1>2 DEF InputEnds, IInv, Works, WorkFits, Threads
  <2>2. Works'
    BY <1>2, <2>1, ThreadEnds DEF InputEnds, IInv, Stand, Threads
  <2> QED  BY <1>2, <2>2 DEF InputEnds, IInv, Entries, Entry, Absent, PutAway, NoneBusier,
                               NoBusier
<1> QED  BY <1>1, <1>2

-----------------------------------------------------------------------------
(* Stops, excerpts and the session *)

(* A thread takes the mutex for a stop.                                    *)
LEMMA StopBeginsKeepsIInv ==
  ASSUME IInv, NEW t \in Threads, NEW id \in Ids, StopBegins(t, id)
  PROVE  IInv' /\ NoneBusier
<1>1. Entries' /\ NoneBusier /\ \A i \in Ids : Stand(i)
  BY PolledOnly DEF StopBegins, IInv
<1>2. PICK w \in Stops : work' = [work EXCEPT ![t] = w] /\ w.id = id
  <2>1. Tidy(term[id])
    BY Present DEF StopBegins, IInv
  <2> DEFINE p == Polled(term[id])
             g == IF p.reaped THEN {} ELSE {Shell, p.front}
             w == [op |-> "stop", id |-> id, sent |-> "HUP", groups |-> g]
  <2>2. p.front \in Groups
    BY <2>1, PolledIsTidy DEF Tidy, Terms
  <2>3. g \subseteq Groups
    BY <2>2 DEF Groups
  <2>4. w \in Stops /\ w.id = id
    BY <2>3 DEF Stops
  <2> QED  BY <2>4 DEF StopBegins
<1>3. Works'
  <2> SUFFICES ASSUME NEW s \in Threads PROVE WorkFits(s)'
    BY <1>2 DEF IInv, Works
  <2>1. CASE s = t
    BY <1>1, <1>2, <2>1
       DEF WorkFits, IInv, Works, Stops, Ops, StopBegins, Stand, Absent, Threads
  <2>2. CASE s # t
    <3>1. WorkFits(s) /\ work'[s] = work[s] /\ lock = Nobody
      BY <1>2, <2>2 DEF IInv, Works, StopBegins, Free
    <3> QED
      BY <3>1 DEF WorkFits, StopBegins, PutAway, Nobody, Threads
  <2> QED  BY <2>1, <2>2
<1> QED  BY <1>1, <1>3, QuietStays DEF IInv, StopBegins

LEMMA StopEscalatesKeepsIInv ==
  ASSUME IInv, NEW t \in Threads, StopEscalates(t)
  PROVE  IInv' /\ NoneBusier
<1> DEFINE id == work[t].id
           next == IF work[t].sent = "TERM" THEN "KILL" ELSE "TERM"
           u == [term[id] EXCEPT
                    !.killed = IF work[t].sent = "TERM" THEN @ \cup work[t].groups
                               ELSE @]
<1>1. work[t] \in Stops /\ lock = t /\ ~Absent(id) /\ id \in Ids
  BY DEF IInv, Works, WorkFits, StopEscalates, Stopping, Stops
<1>2. Tidy(term[id])
  BY <1>1, Present DEF IInv
<1>3. Tidy(u) /\ u.life = term[id].life /\ u.reaped = term[id].reaped
  BY <1>1, <1>2 DEF Tidy, Terms, Stops
<1>4. Update(id, u) /\ work' = [work EXCEPT ![t] = [work[t] EXCEPT !.sent = next]]
  BY DEF StopEscalates, IInv, Works
<1>5. Entries' /\ NoneBusier /\ \A i \in Ids : Stand(i)
  BY <1>1, <1>3, <1>4, TerminalMoves DEF IInv, StopEscalates
<1>6. Works'
  <2>1. /\ [work[t] EXCEPT !.sent = next] \in Stops
        /\ [work[t] EXCEPT !.sent = next].id = id
        /\ [work[t] EXCEPT !.sent = next].op = "stop"
    BY <1>1 DEF Stops
  <2> SUFFICES ASSUME NEW s \in Threads PROVE WorkFits(s)'
    BY <1>4 DEF IInv, Works
  <2>2. CASE s = t
    BY <1>1, <1>4, <1>5, <2>1, <2>2
       DEF WorkFits, IInv, Works, Ops, StopEscalates, Stand, Absent, Threads
  <2>3. CASE s # t
    <3>1. WorkFits(s) /\ work'[s] = work[s]
      BY <1>4, <2>3 DEF IInv, Works
    <3> QED
      BY <1>5, <3>1 DEF WorkFits, StopEscalates, PutAway, Stand, Absent, Stops
  <2> QED  BY <2>2, <2>3
<1> QED  BY <1>5, <1>6, QuietStays DEF IInv, StopEscalates

LEMMA StopEndsKeepsIInv ==
  ASSUME IInv, NEW t \in Threads, StopEnds(t)
  PROVE  IInv' /\ NoneBusier
<1> DEFINE id == work[t].id
           p == Polled(term[id])
           d == Decorated(Asked(rec[id]), p)
<1>1. lock = t /\ ~Absent(id) /\ id \in Ids
  BY DEF IInv, Works, WorkFits, StopEnds, Stopping, Stops
<1>2. Tidy(p) /\ Follows(rec[id], d, p)
  BY <1>1, Present, PolledIsTidy, StoppedFits DEF IInv
<1>3. Update(id, p) /\ rec' = [rec EXCEPT ![id] = d]
  BY DEF StopEnds, IInv, Entries
<1>4. Entries' /\ NoneBusier /\ \A i \in Ids : Stand(i)
  BY <1>1, <1>2, <1>3, BothMove DEF IInv, StopEnds
<1>5. Works'
  BY <1>1, <1>4, ThreadEnds DEF StopEnds, IInv
<1> QED  BY <1>4, <1>5, QuietStays DEF IInv, StopEnds

LEMMA SnapshotFailsKeepsIInv ==
  ASSUME IInv, NEW t \in Threads, SnapshotFails(t)
  PROVE  IInv' /\ NoneBusier
<1>1. lock = t
  BY DEF IInv, Works, WorkFits, SnapshotFails, Stopping
<1>2. Works'
  BY <1>1, ThreadEnds DEF SnapshotFails, IInv, Stand
<1> QED  BY <1>2 DEF SnapshotFails, IInv, Entries, Entry, Absent, PutAway, NoneBusier, NoBusier

LEMMA ExcerptKeepsIInv ==
  ASSUME IInv, \/ \E id \in Ids : ExcerptMeasures(id)
               \/ \E from, to \in 0..MaxOutput : ExcerptReads(from, to)
               \/ ExcerptSent
  PROVE  IInv' /\ NoneBusier
<1>1. ASSUME NEW id \in Ids, ExcerptMeasures(id)
      PROVE  IInv' /\ NoneBusier
  <2>1. Entries' /\ NoneBusier /\ \A i \in Ids : Stand(i)
    BY <1>1, PolledOnly DEF ExcerptMeasures, IInv
  <2>2. PICK w : /\ work' = [work EXCEPT !["runtime"] = w]
                 /\ w.op = "excerpt" /\ w.id = id
    <3> DEFINE p == Polled(term[id])
               w == [op |-> "excerpt", id |-> id, end |-> p.end,
                     desired |-> Larger(Retained(p),
                                        Larger(p.end, ExcerptLen) - ExcerptLen),
                     retained |-> Retained(p)]
    <3>1. work' = [work EXCEPT !["runtime"] = w]
      BY <1>1 DEF ExcerptMeasures
    <3>2. w.op = "excerpt" /\ w.id = id
      OBVIOUS
    <3> HIDE DEF w
    <3> QED  BY <3>1, <3>2
  <2>3. WorkFits("runtime")'
    BY <1>1, <2>1, <2>2
       DEF WorkFits, IInv, Works, Threads, Ops, ExcerptMeasures, Stand, Absent
  <2>4. Works'
    BY <1>1, <2>1, <2>2, <2>3, RuntimeBegins DEF ExcerptMeasures, IInv, Free
  <2> QED  BY <1>1, <2>1, <2>4, QuietStays DEF IInv, ExcerptMeasures, Threads
<1>2. ASSUME NEW from \in 0..MaxOutput, NEW to \in 0..MaxOutput, ExcerptReads(from, to)
      PROVE  IInv' /\ NoneBusier
  <2> DEFINE id == work["runtime"].id
  <2>1. id \in Ids /\ lock = "runtime" /\ ~Absent(id)
    BY <1>2 DEF ExcerptReads, IInv, Works, WorkFits, Threads
  <2>2. Update(id, Polled(term[id])) /\ UNCHANGED <<rec, opened, lost, session>>
    BY <1>2 DEF ExcerptReads
  <2>3. Entries' /\ NoneBusier /\ \A i \in Ids : Stand(i)
    BY <2>1, <2>2, PolledOnly DEF IInv
  <2>4. PICK w : /\ work' = [work EXCEPT !["runtime"] = w]
                 /\ w.op \in {"handed", "idle"}
    <3> DEFINE w0 == work["runtime"]
               t == Polled(term[w0.id])
               prefetch == Larger(w0.retained, Larger(w0.desired, Prefetch) - Prefetch)
               read == ReadAfter(t, prefetch)
               w == [op |-> "handed", gen |-> rec[w0.id].gen, life |-> t.life,
                     from |-> from, to |-> to,
                     content |-> SubSeq(read.bytes, from - prefetch + 1,
                                        to - prefetch)]
    <3>1. \/ work' = [work EXCEPT !["runtime"] = Idle]
          \/ work' = [work EXCEPT !["runtime"] = w]
      BY <1>2 DEF ExcerptReads
    <3>2. w.op = "handed" /\ Idle.op = "idle"
      BY DEF Idle
    <3> HIDE DEF w
    <3> QED  BY <3>1, <3>2
  <2>5. WorkFits("runtime")'
    BY <2>4 DEF WorkFits, IInv, Works, Threads, Ops
  <2>6. lock' = Nobody
    BY <1>2 DEF ExcerptReads
  <2>7. Works'
    BY <2>1, <2>2, <2>3, <2>4, <2>5, <2>6, RuntimeBegins DEF IInv
  <2> QED  BY <2>2, <2>3, <2>6, <2>7, QuietStays DEF IInv
<1>3. CASE ExcerptSent
  <2>1. Works'
    BY <1>3, ThreadEnds DEF ExcerptSent, IInv, Stand, Threads
  <2> QED  BY <1>3, <2>1 DEF ExcerptSent, IInv, Entries, Entry, Absent, PutAway, NoneBusier,
                               NoBusier
<1> QED  BY <1>1, <1>2, <1>3

LEMMA SessionKeepsIInv ==
  ASSUME IInv, \/ Archive \/ Unarchive \/ ScheduleDeletion \/ UndoDeletion \/ Purge
  PROVE  IInv' /\ NoneBusier
<1>1. /\ Works' /\ UNCHANGED <<opened, lost, lock>>
      /\ session' \in Sessions
  <2>1. Free("runtime") /\ UNCHANGED <<opened, lost, lock, work>>
    BY DEF Archive, Unarchive, ScheduleDeletion, UndoDeletion, Purge, SetSession
  <2>2. session' \in Sessions
    <3>1. session \in Sessions
      BY DEF IInv
    <3>2. CASE Archive \/ Unarchive
      BY <3>1, <3>2 DEF Archive, Unarchive, SetSession, Sessions
    <3>3. CASE ScheduleDeletion \/ UndoDeletion
      BY <3>1, <3>3 DEF ScheduleDeletion, UndoDeletion, SetSession, Sessions
    <3>4. CASE Purge
      BY <3>4 DEF Purge, Sessions
    <3> QED  BY <3>2, <3>3, <3>4
  <2> QED  BY <2>1, <2>2, NothingHeld DEF IInv
<1>2. CASE Purge
  BY <1>1, <1>2 DEF Purge, IInv, Entries, Entry, Absent, Busy, NoneBusier, NoBusier
<1>3. CASE Archive \/ ScheduleDeletion
  BY <1>1, <1>3 DEF Archive, ScheduleDeletion, SetSession, LiveActivity, IInv, Entries,
                       Entry, Absent, NoneBusier, NoBusier
<1>4. CASE Unarchive \/ UndoDeletion
  <2>1. PutAway /\ rec' = rec /\ term' = term
    BY <1>4 DEF Unarchive, UndoDeletion, SetSession, PutAway, IInv, Sessions
  <2> QED  BY <1>1, <2>1 DEF IInv, Entries, Entry, Absent, NoneBusier, NoBusier
<1> QED  BY <1>2, <1>3, <1>4

-----------------------------------------------------------------------------
(* The theorems *)

LEMMA StepKeepsIInv == IInv /\ [Next]_vars => IInv'
<1> SUFFICES ASSUME IInv, [Next]_vars PROVE IInv'
  OBVIOUS
<1>1. CASE UNCHANGED vars
  BY <1>1 DEF vars, IInv, Entries, Entry, Works, WorkFits, Absent, PutAway
<1>2. ASSUME NEW id \in Ids, ProcessStep(id) PROVE IInv'
  BY <1>2, ProcessKeepsIInv
<1>3. ASSUME NEW id \in Ids, NEW end \in SpawnEnds, OpenSpawns(id, end) PROVE IInv'
  BY <1>3, OpenSpawnsKeepsIInv
<1>4. ASSUME NEW id \in Ids, NEW end \in SpawnEnds, Restart(id, end) PROVE IInv'
  BY <1>4, RestartKeepsIInv
<1>5. ASSUME NEW id \in Ids, NEW t \in Threads, StopBegins(t, id) PROVE IInv'
  BY <1>5, StopBeginsKeepsIInv
<1>6. ASSUME NEW t \in Threads, StopEscalates(t) \/ StopEnds(t) \/ SnapshotFails(t)
      PROVE  IInv'
  BY <1>6, StopEscalatesKeepsIInv, StopEndsKeepsIInv, SnapshotFailsKeepsIInv
<1> QED
  BY <1>1, <1>2, <1>3, <1>4, <1>5, <1>6, OneSectionKeepsIInv, OpenKeepsIInv,
     RemoveKeepsIInv, InputKeepsIInv, ExcerptKeepsIInv, SessionKeepsIInv
     DEF Next, ProcessStep, Kinds

LEMMA InitEstablishesIInv == Init => IInv
BY DEF Init, IInv, Entries, Entry, Absent, Works, WorkFits, Ops, Idle, Sessions, PutAway, Busy

LEMMA IInvHolds == Spec => []IInv
BY InitEstablishesIInv, StepKeepsIInv, PTL DEF Spec

LEMMA IInvIsEnough == IInv => TypeOK /\ RecordsMatch /\ QuietWhenPutAway
<1> SUFFICES ASSUME IInv PROVE TypeOK /\ RecordsMatch /\ QuietWhenPutAway
  OBVIOUS
<1>1. RecordsMatch
  BY DEF IInv, Entries, Entry, Tidy, Fits, RecordsMatch, Absent
<1>2. QuietWhenPutAway
  BY DEF IInv, Entries, Entry, Tidy, Fits, Records, States, Busy, PutAway,
         QuietWhenPutAway, Absent
<1>3. TypeOK
  <2>1. \A id \in Ids :
           /\ term[id] = None \/
                 /\ term[id].life \in 1..MaxLife
                 /\ term[id].live \subseteq Groups /\ term[id].killed \subseteq Groups
                 /\ term[id].front \in Groups /\ term[id].reaped \in BOOLEAN
                 /\ term[id].end \in 0..MaxOutput /\ Len(term[id].bytes) <= Cap
           /\ rec[id] = None \/ rec[id] \in Records
    BY DEF IInv, Entries, Entry, Absent, Tidy, Fits, Terms
  <2>2. \A t \in Threads : work[t].op \in Ops
    BY DEF IInv, Works, WorkFits
  <2> QED
    BY <2>1, <2>2 DEF TypeOK, IInv, Entries, Ops, Records, Kinds, Sessions
<1> QED  BY <1>1, <1>2, <1>3

(* The state keeps its shape, and the ring its limit, whatever is written. *)
THEOREM TerminalTypes == Spec => []TypeOK
BY IInvHolds, IInvIsEnough, PTL

(* terminal_open_user, restart, remove, stop and purge of any number of    *)
(* terminals leave no record without its shell's terminal, at the same     *)
(* generation; what is said to have exited has; and a terminal that no     *)
(* record names was kept by an open_user that failed after its spawn.      *)
THEOREM RecordsAlwaysMatch == Spec => []RecordsMatch
BY IInvHolds, IInvIsEnough, PTL

(* Process, ring and record of a terminal are sound together, whatever     *)
(* was opened, restarted, stopped or purged before.                        *)
THEOREM EntriesStaySound == Spec => []EntriesAreSound
BY TerminalTypes, RecordsAlwaysMatch, PTL DEF EntriesAreSound

(* A session that session_archive or session_delete_schedule put away has  *)
(* no live shell, whatever the control thread was stopping meanwhile, but  *)
(* for one that a failed open or restart left without a record.            *)
THEOREM PutAwayIsQuiet == Spec => []QuietWhenPutAway
BY IInvHolds, IInvIsEnough, PTL

-----------------------------------------------------------------------------
(* What a stop leaves *)

(* After the last signal of a stop, what lives of its groups was killed.   *)
KillHolds ==
  \A t \in Threads : Stopping(t) /\ work[t].sent = "KILL" =>
      work[t].groups \cap term[work[t].id].live \subseteq term[work[t].id].killed

(* What holds of a step: kills are kept, and only StopEnds leaves a stop.  *)
KillsKept ==
  /\ KillHolds'
  /\ \A t \in Threads : Stopping(t) /\ work'[t].op # "stop" => WaitIsOver(t)

(* A request that needs the mutex free finds no stop and begins none.      *)
LEMMA NoStopAround ==
  ASSUME IInv, lock = Nobody,
         \A t \in Threads : work'[t].op # "stop" \/ work'[t] = work[t]
  PROVE  KillsKept
<1>1. \A t \in Threads : ~Stopping(t)
  BY NobodyStops DEF IInv, Stopping
<1> QED  BY <1>1 DEF KillsKept, KillHolds, Stopping

(* Nothing that a stop looks at changes but for the better.                *)
LEMMA StopUndisturbed ==
  ASSUME KillHolds,
         \A t \in Threads : Stopping(t) =>
            /\ work'[t] = work[t]
            /\ work[t].groups \cap term'[work[t].id].live
                  \subseteq term[work[t].id].live
            /\ term[work[t].id].killed \subseteq term'[work[t].id].killed,
         \A t \in Threads : Stopping(t)' => Stopping(t)
  PROVE  KillsKept
BY DEF KillsKept, KillHolds, Stopping

LEMMA ProcessKeepsKills ==
  ASSUME IInv, KillHolds, NEW id \in Ids, ProcessStep(id)
  PROVE  KillsKept
<1>1. UNCHANGED work /\ ~Absent(id)
  BY DEF ProcessStep, StartJob, ChangeFront, Die, ReadOutput, OthersStand
<1>2. Tidy(term[id])
  BY <1>1, Present DEF IInv
<1>3. ASSUME NEW t \in Threads, Stopping(t)
      PROVE  /\ work[t].groups \cap term'[work[t].id].live
                  \subseteq term[work[t].id].live
             /\ term[work[t].id].killed \subseteq term'[work[t].id].killed
  <2>1. work[t] \in Stops /\ work[t].id \in Ids /\ term = [i \in Ids |-> term[i]]
    BY <1>3 DEF IInv, Works, WorkFits, Stopping, Stops, Entries
  <2>2. CASE work[t].id # id
    BY <2>1, <2>2
       DEF ProcessStep, StartJob, ChangeFront, Die, ReadOutput, Update
  <2>3. CASE work[t].id = id
    <3>1. CASE StartJob(id)
      <4>1. /\ term'[id].live = Groups /\ term'[id].killed = term[id].killed
            /\ Shell \in term[id].live /\ Job \notin work[t].groups
        BY <1>2, <1>3, <2>1, <2>3, <3>1 DEF StartJob, Update, Tidy, Terms
      <4> QED  BY <2>1, <2>3, <4>1 DEF Stops, Groups
    <3>2. ASSUME NEW g \in Groups, ChangeFront(id, g) \/ Die(id, g)
          PROVE  /\ term'[id].live \subseteq term[id].live
                 /\ term'[id].killed = term[id].killed
      BY <1>2, <2>1, <2>3, <3>2 DEF ChangeFront, Die, Update, Tidy, Terms
    <3>3. ASSUME NEW n \in Chunks, ReadOutput(id, n)
          PROVE  /\ term'[id].live \subseteq term[id].live
                 /\ term'[id].killed = term[id].killed
      BY <1>2, <2>1, <2>3, <3>3 DEF ReadOutput, Push, Update, Tidy, Terms
    <3> QED  BY <2>3, <3>1, <3>2, <3>3 DEF ProcessStep
  <2> QED  BY <2>2, <2>3
<1> QED  BY <1>1, <1>3, StopUndisturbed DEF Stopping

(* Only one thread is in a stop, and what it becomes is as it should be.   *)
LEMMA OneStopMoves ==
  ASSUME NEW s \in Threads,
         \A t \in Threads \ {s} : work[t].op # "stop" /\ work'[t] = work[t],
         work'[s].op # "stop" => WaitIsOver(s),
         work'[s].op = "stop" /\ work'[s].sent = "KILL" =>
            work'[s].groups \subseteq term'[work'[s].id].killed
  PROVE  KillsKept
<1>1. KillHolds'
  <2> SUFFICES ASSUME NEW t \in Threads, Stopping(t)', work'[t].sent = "KILL"
               PROVE  work'[t].groups \cap term'[work'[t].id].live
                         \subseteq term'[work'[t].id].killed
    BY DEF KillHolds
  <2>1. t = s
    BY DEF Stopping
  <2> QED  BY <2>1 DEF Stopping
<1>2. \A t \in Threads : Stopping(t) /\ work'[t].op # "stop" => WaitIsOver(t)
  BY DEF Stopping
<1> QED  BY <1>1, <1>2 DEF KillsKept

LEMMA StopKeepsKills ==
  ASSUME IInv, KillHolds, NEW s \in Threads,
         \/ \E id \in Ids : StopBegins(s, id)
         \/ StopEscalates(s)
         \/ StopEnds(s)
         \/ SnapshotFails(s)
  PROVE  KillsKept
<1>1. ASSUME NEW id \in Ids, StopBegins(s, id)
      PROVE  KillsKept
  <2>1. \A t \in Threads : ~Stopping(t)
    BY <1>1, NobodyStops DEF IInv, Stopping, StopBegins, Free
  <2>2. \A t \in Threads : work'[t].op = "stop" => work'[t].sent = "HUP"
    <3> DEFINE p == Polled(term[id])
               w == [op |-> "stop", id |-> id, sent |-> "HUP",
                     groups |-> IF p.reaped THEN {} ELSE {Shell, p.front}]
    <3>1. work' = [work EXCEPT ![s] = w] /\ w.sent = "HUP"
      BY <1>1 DEF StopBegins
    <3> HIDE DEF w
    <3> QED  BY <2>1, <3>1 DEF IInv, Works, Stopping
  <2> QED  BY <2>1, <2>2 DEF KillsKept, KillHolds, Stopping
<1>2. ASSUME StopEscalates(s) \/ StopEnds(s)
      PROVE  /\ \A t \in Threads \ {s} : work[t].op # "stop" /\ work'[t] = work[t]
             /\ work[s] \in Stops /\ Tidy(term[work[s].id])
             /\ term = [i \in Ids |-> term[i]] /\ work[s].id \in Ids
  <2>1. lock = s /\ work[s] \in Stops /\ ~Absent(work[s].id) /\ work[s].id \in Ids
    BY <1>2 DEF IInv, Works, WorkFits, StopEscalates, StopEnds, Stopping, Stops
  <2>2. \A t \in Threads \ {s} : work[t].op # "stop"
    BY <2>1 DEF IInv, Works, WorkFits
  <2>3. \A t \in Threads \ {s} : work'[t] = work[t]
    BY <1>2 DEF IInv, Works, StopEscalates, StopEnds
  <2> QED  BY <2>1, <2>2, <2>3, Present DEF IInv, Entries
<1>3. CASE StopEscalates(s)
  <2> DEFINE id == work[s].id
  <2>1. CASE work[s].sent = "TERM"
    <3>1. term'[id].killed = term[id].killed \cup work[s].groups
      BY <1>2, <1>3, <2>1 DEF StopEscalates, Update, Tidy, Terms
    <3>2. work'[s].groups = work[s].groups /\ work'[s].id = id /\ work'[s].op = "stop"
      BY <1>2, <1>3 DEF StopEscalates, IInv, Works, Stops
    <3>3. work'[s].groups \subseteq term'[work'[s].id].killed
      BY <3>1, <3>2
    <3> QED  BY <1>2, <1>3, <3>2, <3>3, OneStopMoves
  <2>2. CASE work[s].sent # "TERM"
    <3>1. work'[s].sent = "TERM" /\ work'[s].op = "stop"
      BY <1>2, <1>3, <2>2 DEF StopEscalates, IInv, Works, Stops
    <3> QED  BY <1>2, <1>3, <3>1, OneStopMoves
  <2> QED  BY <2>1, <2>2
<1>4. CASE StopEnds(s)
  <2>1. work'[s].op = "idle" /\ WaitIsOver(s)
    BY <1>4 DEF StopEnds, IInv, Works, Idle
  <2> QED  BY <1>2, <1>4, <2>1, OneStopMoves
<1>5. CASE SnapshotFails(s) /\ Stopping(s)
  <2>1. work'[s].op = "idle" /\ WaitIsOver(s)
    BY <1>5 DEF SnapshotFails, Stopping, IInv, Works, Idle
  <2>2. lock = s
    BY <1>5 DEF IInv, Works, WorkFits, Stopping
  <2>3. \A t \in Threads \ {s} : work[t].op # "stop" /\ work'[t] = work[t]
    BY <1>5, <2>2 DEF IInv, Works, WorkFits, SnapshotFails
  <2> QED  BY <2>1, <2>3, OneStopMoves
<1>6. CASE SnapshotFails(s) /\ ~Stopping(s)
  <2>1. lock = s
    BY <1>6 DEF IInv, Works, WorkFits, SnapshotFails
  <2>2. \A t \in Threads : ~Stopping(t)
    BY <1>6, <2>1 DEF IInv, Works, WorkFits, Stopping
  <2>3. \A t \in Threads : work'[t] = work[t] \/ work'[t].op = "idle"
    BY <1>6 DEF SnapshotFails, IInv, Works, Idle
  <2> QED  BY <2>2, <2>3, StopUndisturbed DEF Stopping
<1> QED  BY <1>1, <1>2, <1>3, <1>4, <1>5, <1>6

LEMMA RequestKeepsKills ==
  ASSUME IInv, KillHolds,
         \/ List \/ OpenFails \/ RemoveTakes
         \/ Archive \/ Unarchive \/ ScheduleDeletion \/ UndoDeletion \/ Purge
         \/ \E kind \in Kinds : OpenChecks(kind)
         \/ \E id \in Ids : \/ Read(id) \/ Signal(id) \/ InputBegins(id)
                             \/ RemoveChecks(id) \/ ExcerptMeasures(id)
                             \/ \E end \in SpawnEnds :
                                   Restart(id, end) \/ OpenSpawns(id, end)
  PROVE  KillsKept
<1>1. lock = Nobody
  BY DEF List, OpenFails, RemoveTakes, Archive, Unarchive, ScheduleDeletion,
         UndoDeletion, Purge, OpenChecks, Read, Signal, InputBegins, RemoveChecks,
         OpenSpawns, ExcerptMeasures, Restart, Free
<1> DEFINE Takes(w) == work' = [work EXCEPT !["runtime"] = w] /\ w.op # "stop"
           Kept == \A t \in Threads : work'[t].op # "stop" \/ work'[t] = work[t]
<1>2. ASSUME NEW w, Takes(w) PROVE Kept
  BY <1>2 DEF IInv, Works
<1>3. ASSUME UNCHANGED work PROVE Kept
  BY <1>3
<1>4. ASSUME \/ List \/ Archive \/ Unarchive \/ ScheduleDeletion \/ UndoDeletion
             \/ Purge \/ OpenFails \/ RemoveTakes
             \/ \E id \in Ids : \/ Read(id) \/ Signal(id)
                                 \/ \E end \in SpawnEnds :
                                       Restart(id, end) \/ OpenSpawns(id, end)
      PROVE  Kept
  <2>1. UNCHANGED work \/ work' = [work EXCEPT !["runtime"] = Idle]
    BY <1>4 DEF List, OpenFails, RemoveTakes, Archive, Unarchive, ScheduleDeletion,
                UndoDeletion, Purge, Read, Signal, OpenSpawns, Restart, OthersStand,
                SetSession
  <2>2. Idle.op # "stop"
    BY DEF Idle
  <2> QED  BY <1>2, <1>3, <2>1, <2>2
<1>5. ASSUME NEW kind \in Kinds, OpenChecks(kind) PROVE Kept
  <2> DEFINE w == [op |-> "open", kind |-> kind]
  <2>1. UNCHANGED work \/ work' = [work EXCEPT !["runtime"] = w]
    BY <1>5 DEF OpenChecks
  <2>2. w.op # "stop"
    OBVIOUS
  <2> HIDE DEF w
  <2> QED  BY <1>2, <1>3, <2>1, <2>2
<1>6. ASSUME NEW id \in Ids, RemoveChecks(id) PROVE Kept
  <2> DEFINE w == [op |-> "remove", id |-> id]
  <2>1. UNCHANGED work \/ work' = [work EXCEPT !["runtime"] = w]
    BY <1>6 DEF RemoveChecks
  <2>2. w.op # "stop"
    OBVIOUS
  <2> HIDE DEF w
  <2> QED  BY <1>2, <1>3, <2>1, <2>2
<1>7. ASSUME NEW id \in Ids, InputBegins(id) PROVE Kept
  <2> DEFINE w == [op |-> "input"]
  <2>1. UNCHANGED work \/ work' = [work EXCEPT !["runtime"] = w]
    BY <1>7 DEF InputBegins
  <2>2. w.op # "stop"
    OBVIOUS
  <2> HIDE DEF w
  <2> QED  BY <1>2, <1>3, <2>1, <2>2
<1>8. ASSUME NEW id \in Ids, ExcerptMeasures(id) PROVE Kept
  <2> DEFINE p == Polled(term[id])
             w == [op |-> "excerpt", id |-> id, end |-> p.end,
                   desired |-> Larger(Retained(p),
                                      Larger(p.end, ExcerptLen) - ExcerptLen),
                   retained |-> Retained(p)]
  <2>1. work' = [work EXCEPT !["runtime"] = w] /\ w.op # "stop"
    BY <1>8 DEF ExcerptMeasures
  <2> HIDE DEF w
  <2> QED  BY <1>2, <2>1
<1>9. Kept
  BY <1>4, <1>5, <1>6, <1>7, <1>8
<1> QED  BY <1>1, <1>9, NoStopAround

(* The runtime thread ends what it held the mutex for, or what needs none. *)
LEMMA RuntimeEndKeepsKills ==
  ASSUME IInv, KillHolds,
         \/ InputEnds \/ ExcerptSent
         \/ \E from, to \in 0..MaxOutput : ExcerptReads(from, to)
  PROVE  KillsKept
<1>1. CASE InputEnds \/ ExcerptSent
  <2>1. work' = [work EXCEPT !["runtime"] = Idle] /\ term' = term
    BY <1>1 DEF InputEnds, ExcerptSent
  <2>2. ~Stopping("runtime")
    BY <1>1 DEF InputEnds, ExcerptSent, Stopping
  <2>3. work'["control"] = work["control"] /\ work'["runtime"].op = "idle"
    BY <2>1 DEF IInv, Works, Threads, Idle
  <2> QED  BY <2>1, <2>2, <2>3, StopUndisturbed DEF Stopping, Threads
<1>2. ASSUME NEW from \in 0..MaxOutput, NEW to \in 0..MaxOutput, ExcerptReads(from, to)
      PROVE  KillsKept
  <2>1. work["runtime"].op = "excerpt" /\ lock = "runtime"
    BY <1>2 DEF ExcerptReads, IInv, Works, WorkFits, Threads
  <2>2. \A t \in Threads : ~Stopping(t)
    BY <2>1 DEF IInv, Works, WorkFits, Stopping, Threads
  <2>3. work'["runtime"].op # "stop" /\ work'["control"] = work["control"]
    <3> DEFINE w0 == work["runtime"]
               t == Polled(term[w0.id])
               prefetch == Larger(w0.retained, Larger(w0.desired, Prefetch) - Prefetch)
               read == ReadAfter(t, prefetch)
               w == [op |-> "handed", gen |-> rec[w0.id].gen, life |-> t.life,
                     from |-> from, to |-> to,
                     content |-> SubSeq(read.bytes, from - prefetch + 1,
                                        to - prefetch)]
    <3>1. \/ work' = [work EXCEPT !["runtime"] = Idle]
          \/ work' = [work EXCEPT !["runtime"] = w]
      BY <1>2 DEF ExcerptReads
    <3>2. w.op = "handed" /\ Idle.op = "idle"
      BY DEF Idle
    <3> HIDE DEF w
    <3> QED  BY <3>1, <3>2 DEF IInv, Works, Threads
  <2> QED  BY <2>2, <2>3, StopUndisturbed DEF Stopping, Threads
<1> QED  BY <1>1, <1>2

LEMMA StepKeepsKills == IInv /\ KillHolds /\ [Next]_vars => KillsKept
<1> SUFFICES ASSUME IInv, KillHolds, [Next]_vars PROVE KillsKept
  OBVIOUS
<1>1. CASE UNCHANGED vars
  BY <1>1, StopUndisturbed DEF vars, Stopping
<1>2. ASSUME NEW id \in Ids, ProcessStep(id) PROVE KillsKept
  BY <1>2, ProcessKeepsKills
<1>3. ASSUME NEW s \in Threads, \/ \E id \in Ids : StopBegins(s, id)
                              \/ StopEscalates(s) \/ StopEnds(s) \/ SnapshotFails(s)
      PROVE  KillsKept
  BY <1>3, StopKeepsKills
<1> QED
  BY <1>1, <1>2, <1>3, RequestKeepsKills, RuntimeEndKeepsKills
     DEF Next, ProcessStep, Kinds

(* close_user: when a stop ends, each group it found in front or leading   *)
(* is gone, or was sent a KILL; none is forgotten while it resists.        *)
THEOREM StopsAreThorough == Spec => StopIsThorough
<1>1. Init => KillHolds
  BY DEF Init, KillHolds, Stopping, Idle
<1>2. IInv /\ KillHolds /\ [Next]_vars => KillHolds'
  BY StepKeepsKills DEF KillsKept
<1>3. IInv /\ KillHolds /\ [Next]_vars =>
        [\A t \in Threads :
          Stopping(t) /\ work'[t].op # "stop" =>
              LET x == term[work[t].id]
              IN  work[t].groups \cap x.live \subseteq x.killed]_vars
  BY StepKeepsKills DEF KillsKept, KillHolds, WaitIsOver, GroupsGone
<1> QED  BY <1>1, <1>2, <1>3, IInvHolds, PTL DEF Spec, StopIsThorough

-----------------------------------------------------------------------------
(* One busy foreground terminal *)

(* What the first section of an open found is still so at the second.      *)
Alone == work["runtime"].op = "open" /\ work["runtime"].kind = "foreground" =>
            Foregrounds(rec) = {}

NoOpenBegins == \/ work'["runtime"].op # "open"
                \/ work'["runtime"] = work["runtime"]

NoMoreForegrounds ==
  Cardinality(Foregrounds(rec')) <= Larger(1, Cardinality(Foregrounds(rec)))

IsRestarted == \E id \in Ids : /\ rec[id] # None /\ rec'[id] # None
                              /\ rec'[id].gen = rec[id].gen + 1

LEMMA FewerForegrounds ==
  ASSUME Foregrounds(rec') \subseteq Foregrounds(rec)
  PROVE  NoMoreForegrounds
<1>1. IsFiniteSet(Foregrounds(rec))
  BY FS_Subset, BoundsAssumption DEF Foregrounds
<1>2. Cardinality(Foregrounds(rec')) <= Cardinality(Foregrounds(rec))
  BY <1>1, FS_Subset
<1>3. Cardinality(Foregrounds(rec)) \in Nat /\ Cardinality(Foregrounds(rec')) \in Nat
  BY <1>1, FS_Subset, FS_CardinalityType
<1> QED  BY <1>2, <1>3 DEF NoMoreForegrounds, Larger

LEMMA NoneBusierIsAlone ==
  ASSUME NoneBusier
  PROVE  /\ NoMoreForegrounds
         /\ Alone /\ NoOpenBegins => Alone'
<1>1. Foregrounds(rec') \subseteq Foregrounds(rec)
  BY DEF Foregrounds, NoneBusier, NoBusier
<1> QED  BY <1>1, FewerForegrounds DEF Alone, NoOpenBegins

(* Every request but an open keeps the runtime thread out of one.          *)
LEMMA OthersOpenNothing ==
  ASSUME IInv,
         \/ List \/ OpenFails \/ RemoveTakes \/ InputEnds \/ ExcerptSent
         \/ Archive \/ Unarchive \/ ScheduleDeletion \/ UndoDeletion \/ Purge
         \/ \E id \in Ids : ProcessStep(id) \/ Read(id) \/ Signal(id)
                             \/ InputBegins(id) \/ RemoveChecks(id)
                             \/ ExcerptMeasures(id)
         \/ \E from, to \in 0..MaxOutput : ExcerptReads(from, to)
         \/ \E t \in Threads, id \in Ids : StopBegins(t, id)
         \/ \E t \in Threads : StopEscalates(t) \/ StopEnds(t) \/ SnapshotFails(t)
  PROVE  NoOpenBegins
<1> DEFINE Takes(t, w) == work' = [work EXCEPT ![t] = w] /\ w.op # "open"
<1>1. ASSUME NEW t \in Threads, NEW w, Takes(t, w) PROVE NoOpenBegins
  BY <1>1 DEF IInv, Works, NoOpenBegins, Threads
<1>2. ASSUME UNCHANGED work PROVE NoOpenBegins
  BY <1>2 DEF NoOpenBegins
<1>3. ASSUME \/ List \/ OpenFails \/ RemoveTakes \/ InputEnds \/ ExcerptSent
             \/ Archive \/ Unarchive \/ ScheduleDeletion \/ UndoDeletion \/ Purge
             \/ \E id \in Ids : ProcessStep(id) \/ Read(id) \/ Signal(id)
             \/ \E t \in Threads : StopEnds(t) \/ SnapshotFails(t)
      PROVE  NoOpenBegins
  <2>1. UNCHANGED work \/ \E t \in Threads : work' = [work EXCEPT ![t] = Idle]
    BY <1>3 DEF List, OpenFails, RemoveTakes, InputEnds, ExcerptSent, Archive,
                Unarchive, ScheduleDeletion, UndoDeletion, Purge, SetSession, Read,
                Signal, OthersStand, StopEnds, SnapshotFails, ProcessStep, StartJob, ChangeFront,
                Die, ReadOutput, Threads
  <2>2. Idle.op # "open"
    BY DEF Idle
  <2> QED  BY <1>1, <1>2, <2>1, <2>2
<1>4. ASSUME NEW id \in Ids, InputBegins(id) PROVE NoOpenBegins
  <2> DEFINE w == [op |-> "input"]
  <2>1. UNCHANGED work \/ work' = [work EXCEPT !["runtime"] = w]
    BY <1>4 DEF InputBegins
  <2>2. w.op # "open" /\ "runtime" \in Threads
    BY DEF Threads
  <2> HIDE DEF w
  <2> QED  BY <1>1, <1>2, <2>1, <2>2
<1>5. ASSUME NEW id \in Ids, RemoveChecks(id) PROVE NoOpenBegins
  <2> DEFINE w == [op |-> "remove", id |-> id]
  <2>1. UNCHANGED work \/ work' = [work EXCEPT !["runtime"] = w]
    BY <1>5 DEF RemoveChecks
  <2>2. w.op # "open" /\ "runtime" \in Threads
    BY DEF Threads
  <2> HIDE DEF w
  <2> QED  BY <1>1, <1>2, <2>1, <2>2
<1>6. ASSUME NEW id \in Ids, ExcerptMeasures(id) PROVE NoOpenBegins
  <2> DEFINE p == Polled(term[id])
             w == [op |-> "excerpt", id |-> id, end |-> p.end,
                   desired |-> Larger(Retained(p),
                                      Larger(p.end, ExcerptLen) - ExcerptLen),
                   retained |-> Retained(p)]
  <2>1. work' = [work EXCEPT !["runtime"] = w]
    BY <1>6 DEF ExcerptMeasures
  <2>2. w.op # "open" /\ "runtime" \in Threads
    BY DEF Threads
  <2> HIDE DEF w
  <2> QED  BY <1>1, <2>1, <2>2
<1>7. ASSUME NEW from \in 0..MaxOutput, NEW to \in 0..MaxOutput, ExcerptReads(from, to)
      PROVE  NoOpenBegins
  <2> DEFINE w0 == work["runtime"]
             u == Polled(term[w0.id])
             prefetch == Larger(w0.retained, Larger(w0.desired, Prefetch) - Prefetch)
             read == ReadAfter(u, prefetch)
             w == [op |-> "handed", gen |-> rec[w0.id].gen, life |-> u.life,
                   from |-> from, to |-> to,
                   content |-> SubSeq(read.bytes, from - prefetch + 1, to - prefetch)]
  <2>1. \/ work' = [work EXCEPT !["runtime"] = Idle]
        \/ work' = [work EXCEPT !["runtime"] = w]
    BY <1>7 DEF ExcerptReads
  <2>2. w.op # "open" /\ Idle.op # "open" /\ "runtime" \in Threads
    BY DEF Idle, Threads
  <2> HIDE DEF w
  <2> QED  BY <1>1, <2>1, <2>2
<1>8. ASSUME NEW t \in Threads, NEW id \in Ids, StopBegins(t, id)
      PROVE  NoOpenBegins
  <2> DEFINE p == Polled(term[id])
             w == [op |-> "stop", id |-> id, sent |-> "HUP",
                   groups |-> IF p.reaped THEN {} ELSE {Shell, p.front}]
  <2>1. work' = [work EXCEPT ![t] = w] /\ w.op # "open"
    BY <1>8 DEF StopBegins
  <2> HIDE DEF w
  <2> QED  BY <1>1, <2>1
<1>9. ASSUME NEW t \in Threads, StopEscalates(t) PROVE NoOpenBegins
  <2> DEFINE next == IF work[t].sent = "TERM" THEN "KILL" ELSE "TERM"
             w == [work[t] EXCEPT !.sent = next]
  <2>1. work[t] \in Stops
    BY <1>9 DEF StopEscalates, Stopping, IInv, Works, WorkFits
  <2>2. work' = [work EXCEPT ![t] = w]
    BY <1>9 DEF StopEscalates, IInv, Works
  <2>3. w.op = "stop"
    BY <2>1 DEF Stops
  <2> HIDE DEF w
  <2> QED  BY <1>1, <2>2, <2>3
<1> QED  BY <1>3, <1>4, <1>5, <1>6, <1>7, <1>8, <1>9

LEMMA StepKeepsAlone ==
  IInv /\ Alone /\ [Next]_vars => Alone' /\ (NoMoreForegrounds \/ IsRestarted)
<1> SUFFICES ASSUME IInv, Alone, [Next]_vars
             PROVE  Alone' /\ (NoMoreForegrounds \/ IsRestarted)
  OBVIOUS
<1>1. CASE UNCHANGED vars
  <2>1. NoneBusier /\ NoOpenBegins
    BY <1>1 DEF vars, NoneBusier, NoBusier, NoOpenBegins
  <2> QED  BY <2>1, NoneBusierIsAlone
<1>2. CASE \/ List \/ OpenFails \/ RemoveTakes \/ InputEnds \/ ExcerptSent
           \/ Archive \/ Unarchive \/ ScheduleDeletion \/ UndoDeletion \/ Purge
           \/ \E id \in Ids : ProcessStep(id) \/ Read(id) \/ Signal(id)
                               \/ InputBegins(id) \/ RemoveChecks(id)
                               \/ ExcerptMeasures(id)
           \/ \E from, to \in 0..MaxOutput : ExcerptReads(from, to)
           \/ \E t \in Threads, id \in Ids : StopBegins(t, id)
           \/ \E t \in Threads : StopEscalates(t) \/ StopEnds(t) \/ SnapshotFails(t)
  <2>1. NoOpenBegins
    BY <1>2, OthersOpenNothing
  <2>2. NoneBusier
    BY <1>2, ProcessKeepsIInv, OneSectionKeepsIInv, OpenKeepsIInv, RemoveKeepsIInv,
       InputKeepsIInv, ExcerptKeepsIInv, SessionKeepsIInv, StopBeginsKeepsIInv,
       StopEscalatesKeepsIInv, StopEndsKeepsIInv, SnapshotFailsKeepsIInv
  <2> QED  BY <2>1, <2>2, NoneBusierIsAlone
<1>3. ASSUME NEW kind \in Kinds, OpenChecks(kind)
      PROVE  Alone' /\ NoMoreForegrounds
  <2>1. NoneBusier
    BY <1>3, OpenKeepsIInv
  <2>2. CASE work' = work
    BY <2>1, <2>2, NoneBusierIsAlone DEF NoOpenBegins
  <2>3. CASE /\ work' = [work EXCEPT !["runtime"] = [op |-> "open", kind |-> kind]]
             /\ kind = "foreground" => Foregrounds(rec') = {}
    <3>1. work'["runtime"].kind = kind
      BY <2>3 DEF IInv, Works, Threads
    <3> QED  BY <2>1, <2>3, <3>1, NoneBusierIsAlone DEF Alone
  <2> QED  BY <1>3, <2>2, <2>3 DEF OpenChecks
<1>4. ASSUME NEW id \in Ids, NEW end \in SpawnEnds, OpenSpawns(id, end)
      PROVE  Alone' /\ NoMoreForegrounds
  <2>1. Alone'
    BY <1>4 DEF OpenSpawns, Alone, IInv, Works, Threads, Idle
  <2> DEFINE r == [gen |-> 1, kind |-> work["runtime"].kind, state |-> "running"]
  <2>0. CASE end # "opened"
    <3>1. Foregrounds(rec') = Foregrounds(rec)
      BY <1>4, <2>0 DEF OpenSpawns
    <3> QED  BY <2>1, <3>1, FewerForegrounds
  <2>2. end = "opened" => rec' = [rec EXCEPT ![id] = r]
    BY <1>4 DEF OpenSpawns
  <2>3. CASE end = "opened" /\ work["runtime"].kind = "foreground"
    <3>1. Foregrounds(rec) = {}
      BY <1>4, <2>3 DEF OpenSpawns, Alone
    <3>2. Foregrounds(rec') \subseteq {id}
      BY <2>2, <2>3, <3>1 DEF Foregrounds, IInv, Entries
    <3>3. Foregrounds(rec') = {} \/ Foregrounds(rec') = {id}
      BY <3>2
    <3>4. Cardinality(Foregrounds(rec)) = 0
      BY <3>1, FS_EmptySet
    <3>5. Cardinality(Foregrounds(rec')) \in 0..1
      <4>1. CASE Foregrounds(rec') = {}
        BY <4>1, FS_EmptySet
      <4>2. CASE Foregrounds(rec') = {id}
        <5>1. Cardinality({id}) = 1
          BY FS_Singleton
        <5> QED  BY <4>2, <5>1
      <4> QED  BY <3>3, <4>1, <4>2
    <3> QED  BY <2>1, <3>4, <3>5 DEF NoMoreForegrounds, Larger
  <2>4. CASE end = "opened" /\ work["runtime"].kind # "foreground"
    <3>1. Foregrounds(rec') \subseteq Foregrounds(rec)
      BY <2>2, <2>4 DEF Foregrounds, IInv, Entries
    <3> QED  BY <2>1, <3>1, FewerForegrounds
  <2> QED  BY <2>0, <2>3, <2>4
<1>5. ASSUME NEW id \in Ids, NEW end \in SpawnEnds, Restart(id, end)
      PROVE  Alone' /\ (NoMoreForegrounds \/ IsRestarted)
  <2>1. Alone'
    BY <1>5 DEF Restart, Free, Idle, Alone
  <2>2. /\ rec[id] \in Records /\ rec[id] # None
        /\ rec' = [rec EXCEPT ![id] =
                      IF end = "opened" THEN Renewed(rec[id]) ELSE None]
    BY <1>5, Present DEF Restart, Respawned, IInv, Entries, Fits
  <2>3. CASE end = "opened"
    <3>1. rec'[id] = Renewed(rec[id]) /\ Renewed(rec[id]).gen = rec[id].gen + 1
      BY <2>2, <2>3 DEF IInv, Entries, Renewed, Records
    <3>2. Renewed(rec[id]) # None
      BY <2>2 DEF Renewed, Records, None
    <3> QED  BY <2>1, <2>2, <3>1, <3>2 DEF IsRestarted
  <2>4. CASE end # "opened"
    <3>1. Foregrounds(rec') \subseteq Foregrounds(rec)
      BY <2>2, <2>4 DEF Foregrounds, Busy, IInv, Entries
    <3> QED  BY <2>1, <3>1, FewerForegrounds
  <2> QED  BY <2>3, <2>4
<1> QED  BY <1>1, <1>2, <1>3, <1>4, <1>5 DEF Next, ProcessStep, Kinds

(* terminal_open_user never adds a second busy foreground terminal though  *)
(* it gives the mutex back after its check: only a restart does.           *)
THEOREM OpensNeverDouble == Spec => OnlyRestartsDouble
<1>1. Init => Alone
  BY DEF Init, Alone, Idle, Threads
<1>2. IInv /\ Alone /\ [Next]_vars => Alone'
  BY StepKeepsAlone
<1>3. IInv /\ Alone /\ [Next]_vars =>
        [\/ Cardinality(Foregrounds(rec')) <=
             Larger(1, Cardinality(Foregrounds(rec)))
         \/ \E id \in Ids : rec[id] # None /\ rec'[id] # None
                              /\ rec'[id].gen = rec[id].gen + 1]_vars
  BY StepKeepsAlone DEF NoMoreForegrounds, IsRestarted
<1> QED  BY <1>1, <1>2, <1>3, IInvHolds, PTL DEF Spec, OnlyRestartsDouble

-----------------------------------------------------------------------------
(* What an excerpt holds *)

(* Byte i of a ring is the output of the position it stands for.           *)
Positioned(t) == \A i \in 1..Len(t.bytes) : t.bytes[i] = Retained(t) + i - 1

RingsFit == \A id \in Ids : ~Absent(id) => Positioned(term[id])

(* Between the two snapshots of an excerpt the output only grows.          *)
MeasureFits ==
  LET w == work["runtime"]
  IN  w.op = "excerpt" =>
        /\ {w.retained, w.desired, w.end} \subseteq Nat
        /\ w.retained <= w.desired /\ w.end <= w.desired + ExcerptLen
        /\ w.end <= term[w.id].end

ExcerptsFit == RingsFit /\ MeasureFits /\ ExcerptIsExact

ExcerptOps == {"excerpt", "handed"}

NoExcerptBegins == \/ work'["runtime"].op \notin ExcerptOps
                   \/ work'["runtime"] = work["runtime"]

LEMMA SameOutput ==
  ASSUME NEW t, NEW u, Positioned(t), u.bytes = t.bytes, u.end = t.end
  PROVE  Positioned(u)
BY DEF Positioned, Retained

LEMMA PolledIsPositioned ==
  ASSUME NEW t, Tidy(t), Positioned(t)
  PROVE  Positioned(Polled(t)) /\ Polled(t).end = t.end /\ Polled(t).bytes = t.bytes
<1>1. Polled(t).end = t.end /\ Polled(t).bytes = t.bytes
  BY DEF Tidy, Terms, Polled
<1> QED  BY <1>1, SameOutput

(* Capture::push keeps every byte it retains at its position.              *)
LEMMA PushIsPositioned ==
  ASSUME NEW t, Tidy(t), Positioned(t), NEW n \in Chunks
  PROVE  Positioned(Push(t, n)) /\ Push(t, n).end = t.end + n
<1> DEFINE new == [i \in 1..n |-> t.end + i - 1]
           all == t.bytes \o new
           from == Larger(Len(all) - Cap, 0) + 1
           kept == SubSeq(all, from, Len(all))
<1>1. /\ t.bytes \in Seq(Nat) /\ t.end \in Nat /\ t \in Terms
      /\ Len(t.bytes) \in Nat /\ Len(t.bytes) <= t.end /\ n \in Nat
  BY BoundsAssumption DEF Tidy, Terms
<1>2. new \in Seq(Nat) /\ Len(new) = n
  BY <1>1
<1>3. all \in Seq(Nat) /\ Len(all) = Len(t.bytes) + n
  BY <1>1, <1>2
<1>4. \A i \in 1..Len(all) : all[i] = t.end - Len(t.bytes) + i - 1
  <2> SUFFICES ASSUME NEW i \in 1..Len(all)
               PROVE  all[i] = t.end - Len(t.bytes) + i - 1
    OBVIOUS
  <2>1. CASE i <= Len(t.bytes)
    <3>1. all[i] = t.bytes[i]
      BY <1>1, <1>2, <2>1
    <3> QED  BY <1>1, <2>1, <3>1 DEF Positioned, Retained
  <2>2. CASE i > Len(t.bytes)
    <3>1. all[i] = new[i - Len(t.bytes)] /\ i - Len(t.bytes) \in 1..n
      BY <1>1, <1>2, <1>3, <2>2
    <3> QED  BY <1>1, <1>3, <2>2, <3>1
  <2> QED  BY <1>1, <1>3, <2>1, <2>2
<1>5. from \in 1 .. Len(all) + 1
  BY <1>3, BoundsAssumption, Cap \in Nat \ {0} DEF Larger
<1> HIDE DEF all, from
<1>6. /\ Len(kept) = Len(all) - from + 1
      /\ \A i \in 1..Len(kept) : kept[i] = all[from + i - 1]
  BY <1>3, <1>5
<1> HIDE DEF kept
<1>7. Push(t, n) = [t EXCEPT !.bytes = kept, !.end = @ + n]
  BY DEF Push, kept, all, from
<1>8. Push(t, n).bytes = kept /\ Push(t, n).end = t.end + n
  BY <1>1, <1>7 DEF Terms
<1>9. ASSUME NEW i \in 1..Len(kept)
      PROVE  kept[i] = (t.end + n) - Len(kept) + i - 1
  <2>1. Len(all) \in Nat /\ Len(kept) \in Nat /\ from + i - 1 \in 1..Len(all)
    BY <1>3, <1>5, <1>6
  <2>2. kept[i] = t.end - Len(t.bytes) + (from + i - 1) - 1
    BY <1>4, <1>6, <2>1
  <2>3. PICK e \in Nat, b \in Nat, f \in Nat, k \in Nat :
           e = t.end /\ b = Len(t.bytes) /\ f = from /\ k = Len(kept)
    <3>1. t.end \in Nat /\ Len(t.bytes) \in Nat /\ from \in Nat /\ Len(kept) \in Nat
      BY <1>1, <1>3, <1>5, <2>1
    <3> QED  BY <3>1, Zenon
  <2>4. k = b + n - f + 1 /\ kept[i] = e - b + (f + i - 1) - 1 /\ n \in Nat
    BY <1>1, <1>3, <1>6, <2>2, <2>3
  <2>5. kept[i] = (e + n) - k + i - 1
    <3>1. PICK c : c = kept[i]
      OBVIOUS
    <3>2. PICK m \in Nat, j \in Nat : m = n /\ j = i
      BY <2>1, <2>4
    <3>3. c = (e + m) - k + j - 1
      BY <2>4, <3>1, <3>2
    <3> QED  BY <3>1, <3>2, <3>3
  <2> QED  BY <2>3, <2>5
<1>10. PICK u : u = Push(t, n)
  OBVIOUS
<1>11. PICK bytes : bytes = kept
  OBVIOUS
<1>12. u.bytes = bytes /\ u.end = t.end + n
  BY <1>8, <1>10, <1>11
<1>13. \A i \in 1..Len(bytes) : bytes[i] = (t.end + n) - Len(bytes) + i - 1
  BY <1>9, <1>11
<1>14. Positioned(u)
  BY <1>12, <1>13 DEF Positioned, Retained
<1> QED  BY <1>10, <1>12, <1>14

(* A terminal that changes keeps its ring, one that is new has an empty one*)
LEMMA RingChanges ==
  ASSUME IInv, RingsFit, NEW id \in Ids, NEW u, Update(id, u),
         u = None \/ Positioned(u)
  PROVE  RingsFit'
BY DEF RingsFit, Update, IInv, Entries, Absent

LEMMA PolledKeepsRings ==
  ASSUME IInv, RingsFit, NEW id \in Ids, ~Absent(id), Update(id, Polled(term[id]))
  PROVE  RingsFit'
<1>1. Tidy(term[id]) /\ Positioned(term[id])
  BY Present DEF IInv, RingsFit
<1> QED  BY <1>1, PolledIsPositioned, RingChanges

LEMMA RefreshAllKeepsRings ==
  ASSUME IInv, RingsFit, RefreshAll
  PROVE  RingsFit'
<1> SUFFICES ASSUME NEW id \in Ids, ~Absent(id)' PROVE Positioned(term'[id])
  BY DEF RingsFit, Absent
<1>1. \/ term'[id] = term[id]
      \/ rec[id] # None /\ term'[id] = Polled(term[id])
  BY DEF RefreshAll
<1>2. ~Absent(id)
  BY <1>1 DEF IInv, Entries, Entry, Absent
<1>3. Tidy(term[id]) /\ Positioned(term[id])
  BY <1>2, Present DEF IInv, RingsFit
<1> QED  BY <1>1, <1>3, PolledIsPositioned

LEMMA ProcessKeepsExcerpts ==
  ASSUME IInv, ExcerptsFit, NEW id \in Ids, ProcessStep(id)
  PROVE  ExcerptsFit'
<1>1. ~Absent(id) /\ UNCHANGED work
  BY DEF ProcessStep, StartJob, ChangeFront, Die, ReadOutput, OthersStand
<1>2. Tidy(term[id]) /\ Positioned(term[id])
  BY <1>1, Present DEF IInv, ExcerptsFit, RingsFit
<1>3. PICK u : Update(id, u) /\ Positioned(u) /\ u.end \in Nat /\ u.end >= term[id].end
  <2> USE <1>2 DEF Tidy, Terms
  <2>0. term[id].end \in Nat
    BY BoundsAssumption
  <2>1. CASE StartJob(id)
    <3> DEFINE u == [term[id] EXCEPT !.live = Groups, !.front = Job]
    <3>1. u.bytes = term[id].bytes /\ u.end = term[id].end
      OBVIOUS
    <3>2. u.end \in Nat /\ u.end >= term[id].end
      BY <2>0, <3>1
    <3>4. Positioned(u)
      BY <3>1, SameOutput
    <3>3. Update(id, u)
      BY <2>1 DEF StartJob
    <3> QED  BY <3>2, <3>3, <3>4
  <2>2. ASSUME NEW g \in Groups, ChangeFront(id, g)
        PROVE  \E u : Update(id, u) /\ Positioned(u) /\ u.end \in Nat /\ u.end >= term[id].end
    <3> DEFINE u == [term[id] EXCEPT !.front = g]
    <3>1. u.bytes = term[id].bytes /\ u.end = term[id].end
      OBVIOUS
    <3>2. Positioned(u) /\ u.end \in Nat /\ u.end >= term[id].end
      BY <2>0, <3>1, SameOutput
    <3>3. Update(id, u)
      BY <2>2 DEF ChangeFront
    <3> QED  BY <3>2, <3>3
  <2>3. ASSUME NEW g \in Groups, Die(id, g)
        PROVE  \E u : Update(id, u) /\ Positioned(u) /\ u.end \in Nat /\ u.end >= term[id].end
    <3> DEFINE u == [term[id] EXCEPT !.live = @ \ {g}]
    <3>1. u.bytes = term[id].bytes /\ u.end = term[id].end
      OBVIOUS
    <3>2. Positioned(u) /\ u.end \in Nat /\ u.end >= term[id].end
      BY <2>0, <3>1, SameOutput
    <3>3. Update(id, u)
      BY <2>3 DEF Die
    <3> QED  BY <3>2, <3>3
  <2>4. ASSUME NEW n \in Chunks, ReadOutput(id, n)
        PROVE  \E u : Update(id, u) /\ Positioned(u) /\ u.end \in Nat /\ u.end >= term[id].end
    <3>1. Positioned(Push(term[id], n)) /\ Push(term[id], n).end = term[id].end + n
      BY PushIsPositioned
    <3>2. term[id].end + n \in Nat /\ term[id].end + n >= term[id].end
      BY <2>0, BoundsAssumption
    <3> QED  BY <2>4, <3>1, <3>2 DEF ReadOutput
  <2> QED  BY <2>1, <2>2, <2>3, <2>4 DEF ProcessStep
<1>4. RingsFit'
  BY <1>3, RingChanges DEF ExcerptsFit
<1>5. MeasureFits'
  <2> DEFINE w == work["runtime"]
  <2> SUFFICES ASSUME w.op = "excerpt"
               PROVE  /\ {w.retained, w.desired, w.end} \subseteq Nat
                      /\ w.retained <= w.desired /\ w.end <= w.desired + ExcerptLen
                      /\ w.end <= term'[w.id].end
    BY <1>1 DEF MeasureFits
  <2>1. w.id \in Ids /\ ~Absent(w.id)
    BY DEF IInv, Works, WorkFits, Threads
  <2>2. /\ {w.retained, w.desired, w.end} \subseteq Nat
        /\ w.retained <= w.desired /\ w.end <= w.desired + ExcerptLen
        /\ w.end <= term[w.id].end
    BY DEF ExcerptsFit, MeasureFits
  <2>3. CASE w.id = id
    <3>1. term'[id] = u /\ term[id].end \in Nat
      BY <1>2, <1>3, BoundsAssumption DEF Update, IInv, Entries, Tidy, Terms
    <3> QED  BY <2>2, <2>3, <3>1, <1>3, PushIsTidy
  <2>4. CASE w.id # id
    BY <1>3, <2>1, <2>2, <2>4 DEF Update, IInv, Entries
  <2> QED  BY <2>3, <2>4
<1> QED  BY <1>1, <1>4, <1>5 DEF ExcerptsFit, ExcerptIsExact

(* The request of another kind.                                            *)
LEMMA OthersKeepExcerpts ==
  ASSUME ExcerptsFit, RingsFit', NoExcerptBegins, work["runtime"].op # "excerpt"
  PROVE  ExcerptsFit'
BY DEF ExcerptsFit, NoExcerptBegins, ExcerptOps, MeasureFits, ExcerptIsExact

(* While an excerpt has the mutex, no other request and no stop goes on.   *)
LEMMA ExcerptHasMutex ==
  ASSUME IInv, work["runtime"].op = "excerpt"
  PROVE  lock = "runtime" /\ \A t \in Threads : ~Stopping(t)
BY DEF IInv, Works, WorkFits, Threads, Stopping

(* The requests and stops that are no part of an excerpt.                  *)
Elsewhere ==
  \/ List \/ OpenFails \/ RemoveTakes \/ InputEnds \/ ExcerptSent
  \/ Archive \/ Unarchive \/ ScheduleDeletion \/ UndoDeletion \/ Purge
  \/ \E kind \in Kinds : OpenChecks(kind)
  \/ \E id \in Ids : Read(id) \/ Signal(id) \/ InputBegins(id) \/ RemoveChecks(id)
  \/ \E id \in Ids, end \in SpawnEnds : Restart(id, end) \/ OpenSpawns(id, end)
  \/ \E t \in Threads, id \in Ids : StopBegins(t, id)
  \/ \E t \in Threads : StopEscalates(t) \/ StopEnds(t)

(* None of them runs while an excerpt has the mutex.                       *)
LEMMA ElsewhereWaits ==
  ASSUME IInv, Elsewhere
  PROVE  work["runtime"].op # "excerpt"
<1> SUFFICES ASSUME work["runtime"].op = "excerpt" PROVE FALSE
  OBVIOUS
<1>1. lock = "runtime" /\ \A t \in Threads : ~Stopping(t)
  BY ExcerptHasMutex
<1>2. lock # Nobody /\ ~StopBegins("runtime", Nobody)
  BY <1>1 DEF StopBegins, Free, Nobody
<1> QED
  BY <1>1, <1>2
     DEF Elsewhere, List, OpenFails, RemoveTakes, InputEnds, ExcerptSent, Archive,
         Unarchive, ScheduleDeletion, UndoDeletion, Purge, OpenChecks, Read, Signal,
         InputBegins, RemoveChecks, OpenSpawns, Restart, Free, StopBegins,
         StopEscalates, StopEnds

LEMMA ElsewhereTakesNoExcerpt ==
  ASSUME IInv, Elsewhere
  PROVE  NoExcerptBegins
<1> DEFINE Takes(t, w) == work' = [work EXCEPT ![t] = w] /\ w.op \notin ExcerptOps
<1>1. ASSUME NEW t \in Threads, NEW w, Takes(t, w) PROVE NoExcerptBegins
  BY <1>1 DEF IInv, Works, NoExcerptBegins, Threads
<1>2. ASSUME UNCHANGED work PROVE NoExcerptBegins
  BY <1>2 DEF NoExcerptBegins
<1>3. "runtime" \in Threads /\ Idle.op \notin ExcerptOps
  BY DEF Threads, Idle, ExcerptOps
<1>4. ASSUME \/ List \/ OpenFails \/ RemoveTakes \/ InputEnds \/ ExcerptSent
             \/ Archive \/ Unarchive \/ ScheduleDeletion \/ UndoDeletion \/ Purge
             \/ \E id \in Ids : Read(id) \/ Signal(id)
             \/ \E id \in Ids, end \in SpawnEnds :
                   Restart(id, end) \/ OpenSpawns(id, end)
             \/ \E t \in Threads : StopEnds(t)
      PROVE  NoExcerptBegins
  <2>1. UNCHANGED work \/ \E t \in Threads : work' = [work EXCEPT ![t] = Idle]
    BY <1>3, <1>4
       DEF List, OpenFails, RemoveTakes, InputEnds, ExcerptSent, Archive, Unarchive,
           ScheduleDeletion, UndoDeletion, Purge, SetSession, Read, Signal,
           OthersStand, OpenSpawns, Restart, StopEnds
  <2> QED  BY <1>1, <1>2, <1>3, <2>1
<1>5. ASSUME NEW kind \in Kinds, OpenChecks(kind) PROVE NoExcerptBegins
  <2> DEFINE w == [op |-> "open", kind |-> kind]
  <2>1. UNCHANGED work \/ work' = [work EXCEPT !["runtime"] = w]
    BY <1>5 DEF OpenChecks
  <2>2. w.op \notin ExcerptOps
    BY DEF ExcerptOps
  <2> HIDE DEF w
  <2> QED  BY <1>1, <1>2, <1>3, <2>1, <2>2
<1>6. ASSUME NEW id \in Ids, InputBegins(id) PROVE NoExcerptBegins
  <2> DEFINE w == [op |-> "input"]
  <2>1. UNCHANGED work \/ work' = [work EXCEPT !["runtime"] = w]
    BY <1>6 DEF InputBegins
  <2>2. w.op \notin ExcerptOps
    BY DEF ExcerptOps
  <2> HIDE DEF w
  <2> QED  BY <1>1, <1>2, <1>3, <2>1, <2>2
<1>7. ASSUME NEW id \in Ids, RemoveChecks(id) PROVE NoExcerptBegins
  <2> DEFINE w == [op |-> "remove", id |-> id]
  <2>1. UNCHANGED work \/ work' = [work EXCEPT !["runtime"] = w]
    BY <1>7 DEF RemoveChecks
  <2>2. w.op \notin ExcerptOps
    BY DEF ExcerptOps
  <2> HIDE DEF w
  <2> QED  BY <1>1, <1>2, <1>3, <2>1, <2>2
<1>8. ASSUME NEW t \in Threads, NEW id \in Ids, StopBegins(t, id)
      PROVE  NoExcerptBegins
  <2> DEFINE p == Polled(term[id])
             w == [op |-> "stop", id |-> id, sent |-> "HUP",
                   groups |-> IF p.reaped THEN {} ELSE {Shell, p.front}]
  <2>1. work' = [work EXCEPT ![t] = w] /\ w.op \notin ExcerptOps
    BY <1>8 DEF StopBegins, ExcerptOps
  <2> HIDE DEF w
  <2> QED  BY <1>1, <2>1
<1>9. ASSUME NEW t \in Threads, StopEscalates(t) PROVE NoExcerptBegins
  <2> DEFINE next == IF work[t].sent = "TERM" THEN "KILL" ELSE "TERM"
             w == [work[t] EXCEPT !.sent = next]
  <2>1. work[t] \in Stops
    BY <1>9 DEF StopEscalates, Stopping, IInv, Works, WorkFits
  <2>2. work' = [work EXCEPT ![t] = w]
    BY <1>9 DEF StopEscalates, IInv, Works
  <2>3. w.op \notin ExcerptOps
    BY <2>1 DEF Stops, ExcerptOps
  <2> HIDE DEF w
  <2> QED  BY <1>1, <2>2, <2>3
<1> QED  BY <1>4, <1>5, <1>6, <1>7, <1>8, <1>9 DEF Elsewhere

LEMMA ElsewhereKeepsRings ==
  ASSUME IInv, RingsFit, Elsewhere
  PROVE  RingsFit'
<1>1. ASSUME UNCHANGED term PROVE RingsFit'
  BY <1>1 DEF RingsFit, Absent
<1>2. CASE List \/ \E kind \in Kinds : OpenChecks(kind)
  BY <1>2, RefreshAllKeepsRings DEF List, OpenChecks
<1>3. CASE \/ OpenFails \/ InputEnds \/ ExcerptSent
           \/ Archive \/ Unarchive \/ ScheduleDeletion \/ UndoDeletion
  BY <1>1, <1>3 DEF OpenFails, InputEnds, ExcerptSent, Archive, Unarchive,
                    ScheduleDeletion, UndoDeletion, SetSession
<1>4. CASE Purge
  BY <1>4 DEF Purge, RingsFit, Absent
<1>5. CASE RemoveTakes
  <2>1. work["runtime"].id \in Ids /\ Update(work["runtime"].id, None)
    BY <1>5 DEF RemoveTakes, IInv, Works, WorkFits, Threads
  <2> QED  BY <2>1, RingChanges
<1>6. ASSUME NEW id \in Ids,
             \/ Read(id) \/ Signal(id) \/ InputBegins(id) \/ RemoveChecks(id)
             \/ \E t \in Threads : StopBegins(t, id)
      PROVE  RingsFit'
  <2>1. ~Absent(id) /\ Update(id, Polled(term[id]))
    BY <1>6 DEF Read, Signal, InputBegins, RemoveChecks, StopBegins, Refresh
  <2> QED  BY <2>1, PolledKeepsRings
<1>7. ASSUME NEW life PROVE Positioned(Spawned(life))
  BY DEF Positioned, Spawned
<1>8. ASSUME NEW id \in Ids, NEW end \in SpawnEnds,
             OpenSpawns(id, end) \/ Restart(id, end)
      PROVE  RingsFit'
  <2>1. PICK u : Update(id, u) /\ (u = None \/ \E life : u = Spawned(life))
    BY <1>8 DEF OpenSpawns, Restart, Respawned, ManagerAfter
  <2> QED  BY <1>7, <2>1, RingChanges
<1>9. ASSUME NEW t \in Threads, StopEscalates(t) \/ StopEnds(t)
      PROVE  RingsFit'
  <2> DEFINE id == work[t].id
  <2>1. id \in Ids /\ ~Absent(id)
    BY <1>9 DEF IInv, Works, WorkFits, StopEscalates, StopEnds, Stopping, Stops
  <2>2. Tidy(term[id]) /\ Positioned(term[id])
    BY <2>1, Present DEF IInv, RingsFit
  <2>3. CASE StopEnds(t)
    BY <2>1, <2>3, PolledKeepsRings DEF StopEnds
  <2>4. CASE StopEscalates(t)
    <3>1. PICK killed : Update(id, [term[id] EXCEPT !.killed = killed])
      BY <2>4 DEF StopEscalates
    <3> DEFINE u == [term[id] EXCEPT !.killed = killed]
    <3>2. u.bytes = term[id].bytes /\ u.end = term[id].end
      BY <2>2 DEF Tidy, Terms
    <3>3. Positioned(u)
      BY <2>2, <3>2, SameOutput
    <3> QED  BY <2>1, <3>1, <3>3, RingChanges
  <2> QED  BY <1>9, <2>3, <2>4
<1> QED
  BY <1>2, <1>3, <1>4, <1>5, <1>6, <1>8, <1>9 DEF Elsewhere

LEMMA ElsewhereKeepsExcerpts ==
  ASSUME IInv, ExcerptsFit, Elsewhere
  PROVE  ExcerptsFit'
BY ElsewhereWaits, ElsewhereTakesNoExcerpt, ElsewhereKeepsRings, OthersKeepExcerpts
   DEF ExcerptsFit

(* The first snapshot: what is asked for is retained, and has its length.  *)
LEMMA MeasuringKeepsExcerpts ==
  ASSUME IInv, ExcerptsFit, NEW id \in Ids, ExcerptMeasures(id)
  PROVE  ExcerptsFit'
<1>1. ~Absent(id) /\ Tidy(term[id]) /\ Positioned(term[id])
  BY Present DEF ExcerptMeasures, IInv, ExcerptsFit, RingsFit
<1>2. PICK p : p = Polled(term[id])
  OBVIOUS
<1>3. /\ p.end = term[id].end /\ p.bytes = term[id].bytes
  BY <1>1, <1>2, PolledIsPositioned
<1>4. p.end \in Nat /\ Retained(p) \in Nat /\ Retained(p) <= p.end
  BY <1>1, <1>3, BoundsAssumption DEF Tidy, Terms, Retained
<1>5. PICK desired :
         desired = Larger(Retained(p), Larger(p.end, ExcerptLen) - ExcerptLen)
  OBVIOUS
<1>6. desired \in Nat /\ Retained(p) <= desired /\ p.end <= desired + ExcerptLen
  <2>1. ExcerptLen \in Nat
    BY BoundsAssumption
  <2> QED  BY <1>4, <1>5, <2>1 DEF Larger
<1>7. PICK w : w = [op |-> "excerpt", id |-> id, end |-> p.end,
                    desired |-> desired, retained |-> Retained(p)]
  OBVIOUS
<1>8. work' = [work EXCEPT !["runtime"] = w]
  BY <1>2, <1>5, <1>7 DEF ExcerptMeasures
<1>9. work'["runtime"] = w /\ w.op = "excerpt" /\ w.id = id
  BY <1>7, <1>8 DEF IInv, Works, Threads
<1>10. RingsFit' /\ term'[id] = p
  BY <1>1, <1>2, PolledKeepsRings
     DEF ExcerptMeasures, ExcerptsFit, Update, IInv, Entries
<1>11. w.end = p.end /\ w.desired = desired /\ w.retained = Retained(p)
  BY <1>7
<1>12. MeasureFits'
  BY <1>4, <1>6, <1>9, <1>10, <1>11 DEF MeasureFits
<1> QED  BY <1>9, <1>10, <1>12 DEF ExcerptsFit, ExcerptIsExact

(* The output from one position up to another.                             *)
Output(from, to) == [i \in 1 .. to - from |-> from + i - 1]

(* What the second snapshot reads from a position on, it reads exactly.    *)
LEMMA ReadIsExact ==
  ASSUME NEW t, Tidy(t), Positioned(t), NEW after \in Nat,
         NEW read, read = ReadAfter(t, after), read.start = after,
         NEW from \in Nat, NEW to \in Nat, after <= from, from < to, to <= t.end
  PROVE  SubSeq(read.bytes, from - after + 1, to - after) = Output(from, to)
<1>1. /\ t.bytes \in Seq(Nat) /\ t.end \in Nat
      /\ Len(t.bytes) \in Nat /\ Len(t.bytes) <= t.end
  BY BoundsAssumption DEF Tidy, Terms
<1>2. PICK kept \in Nat, len \in Nat, bytes \in Seq(Nat) :
         /\ kept = Retained(t) /\ len = Len(t.bytes) /\ bytes = t.bytes
         /\ kept + len = t.end
  <2>1. Retained(t) \in Nat /\ Retained(t) + Len(t.bytes) = t.end
    BY <1>1 DEF Retained
  <2> QED  BY <1>1, <2>1
<1>3. after = Lesser(Larger(after, kept), kept + len)
  BY <1>2 DEF ReadAfter
<1>4. kept <= after
  BY <1>3 DEF Lesser, Larger
<1>5. read.bytes = SubSeq(bytes, after - kept + 1, len)
  BY <1>2, <1>3 DEF ReadAfter
<1>6. PICK tail : tail = read.bytes
  OBVIOUS
<1>7. after - kept + 1 \in 1 .. len + 1
  BY <1>2, <1>4
<1>8. /\ tail \in Seq(Nat) /\ Len(tail) = kept + len - after
      /\ \A i \in 1..Len(tail) : tail[i] = bytes[after - kept + i]
  <2>1. PICK f \in 1 .. len + 1 : f = after - kept + 1
    BY <1>7
  <2>2. tail = SubSeq(bytes, f, len) /\ len = Len(bytes)
    BY <1>2, <1>5, <1>6, <2>1
  <2>3. /\ tail \in Seq(Nat) /\ Len(tail) = len - f + 1
        /\ \A i \in 1..Len(tail) : tail[i] = bytes[f + i - 1]
    BY <2>2
  <2>4. Len(tail) = kept + len - after
    <3>1. Len(tail) = len - (after - kept + 1) + 1
      BY <2>1, <2>3
    <3> QED  BY <3>1
  <2>5. ASSUME NEW i \in 1..Len(tail) PROVE tail[i] = bytes[after - kept + i]
    <3>1. f + i - 1 = after - kept + i
      BY <2>1
    <3> QED  BY <2>3, <3>1
  <2> QED  BY <2>3, <2>4, <2>5
<1>9. ASSUME NEW i \in 1..Len(tail) PROVE tail[i] = after + i - 1
  <2>1. after - kept + i \in 1..len
    BY <1>4, <1>8
  <2>2. bytes[after - kept + i] = kept + (after - kept + i) - 1
    BY <1>2, <2>1 DEF Positioned
  <2> QED  BY <1>8, <2>2
<1>10. from - after + 1 \in 1..Len(tail) /\ to - after \in 1..Len(tail)
  <2>1. Len(tail) = t.end - after
    BY <1>2, <1>8
  <2>2. from - after + 1 \in 1..(t.end - after) /\ to - after \in 1..(t.end - after)
    BY <1>1
  <2> QED  BY <2>1, <2>2
<1>11. PICK f \in 1..Len(tail), l \in 1..Len(tail) : f = from - after + 1 /\ l = to - after
  BY <1>10
<1>12. PICK content : content = SubSeq(tail, f, l)
  OBVIOUS
<1>13. f <= l /\ l - f + 1 = to - from
  BY <1>11
<1>14. /\ content \in Seq(Nat) /\ Len(content) = to - from
       /\ \A i \in 1..Len(content) : content[i] = tail[f + i - 1]
  BY <1>8, <1>12, <1>13
<1>15. ASSUME NEW i \in 1..Len(content) PROVE content[i] = from + i - 1
  <2>1. f + i - 1 \in 1..Len(tail)
    BY <1>11, <1>13, <1>14
  <2>2. content[i] = after + (f + i - 1) - 1
    BY <1>9, <1>14, <2>1
  <2> QED  BY <1>11, <2>2
<1>16. content = Output(from, to)
  <2>1. content = [i \in 1..Len(content) |-> content[i]]
    BY <1>14
  <2> QED  BY <1>14, <1>15, <2>1 DEF Output
<1> QED  BY <1>6, <1>11, <1>12, <1>16

LEMMA ReadingKeepsExcerpts ==
  ASSUME IInv, ExcerptsFit,
         NEW from \in 0..MaxOutput, NEW to \in 0..MaxOutput, ExcerptReads(from, to)
  PROVE  ExcerptsFit'
<1>1. PICK w : w = work["runtime"]
  OBVIOUS
<1>2. /\ w.op = "excerpt" /\ w.id \in Ids /\ ~Absent(w.id)
      /\ Tidy(term[w.id]) /\ Positioned(term[w.id]) /\ Fits(rec[w.id], term[w.id])
  BY <1>1, Present
     DEF ExcerptReads, IInv, Works, WorkFits, Threads, ExcerptsFit, RingsFit
<1>3. PICK t : t = Polled(term[w.id])
  OBVIOUS
<1>4. /\ Tidy(t) /\ Positioned(t) /\ t.life = rec[w.id].gen
      /\ t.end = term[w.id].end /\ t.end \in Nat
  <2>1. Tidy(t) /\ t.life = term[w.id].life
    BY <1>2, <1>3, PolledIsTidy
  <2>2. Positioned(t) /\ t.end = term[w.id].end
    BY <1>2, <1>3, PolledIsPositioned
  <2>3. t.end \in Nat
    BY <2>1, BoundsAssumption DEF Tidy, Terms
  <2> QED  BY <1>2, <2>1, <2>2, <2>3 DEF Fits
<1>5. Update(w.id, t)
  BY <1>1, <1>3 DEF ExcerptReads
<1>6. RingsFit'
  BY <1>2, <1>4, <1>5, RingChanges DEF ExcerptsFit
<1>7. /\ {w.retained, w.desired, w.end} \subseteq Nat
      /\ w.retained <= w.desired /\ w.end <= w.desired + ExcerptLen
  BY <1>1, <1>2 DEF ExcerptsFit, MeasureFits
<1>8. PICK prefetch :
         prefetch = Larger(w.retained, Larger(w.desired, Prefetch) - Prefetch)
  OBVIOUS
<1>9. prefetch \in Nat /\ prefetch <= w.desired
  <2>1. Prefetch \in Nat
    BY BoundsAssumption
  <2> QED  BY <1>7, <1>8, <2>1 DEF Larger
<1>10. PICK read : read = ReadAfter(t, prefetch)
  OBVIOUS
<1>11. PICK content :
          content = SubSeq(read.bytes, from - prefetch + 1, to - prefetch)
  OBVIOUS
<1>12. PICK m : m = [op |-> "handed", gen |-> rec[w.id].gen, life |-> t.life,
                     from |-> from, to |-> to, content |-> content]
  OBVIOUS
<1>13. \/ work' = [work EXCEPT !["runtime"] = Idle]
       \/ /\ work' = [work EXCEPT !["runtime"] = m]
          /\ t.end >= w.end /\ read.start = prefetch
          /\ from \in w.desired .. (w.end - 1) /\ to \in (from + 1) .. w.end
  BY <1>1, <1>3, <1>8, <1>10, <1>11, <1>12 DEF ExcerptReads, ExcerptHolds
<1>14. CASE work' = [work EXCEPT !["runtime"] = Idle]
  <2>1. work'["runtime"].op = "idle"
    BY <1>14 DEF IInv, Works, Threads, Idle
  <2> QED  BY <1>6, <2>1 DEF ExcerptsFit, MeasureFits, ExcerptIsExact
<1>15. CASE /\ work' = [work EXCEPT !["runtime"] = m]
            /\ t.end >= w.end /\ read.start = prefetch
            /\ from \in w.desired .. (w.end - 1) /\ to \in (from + 1) .. w.end
  <2>1. from \in Nat /\ to \in Nat /\ prefetch <= from /\ from < to /\ to <= t.end
    BY <1>4, <1>7, <1>9, <1>15
  <2>2. content = [i \in 1 .. to - from |-> from + i - 1]
    <3>1. SubSeq(read.bytes, from - prefetch + 1, to - prefetch) = Output(from, to)
      <4>1. /\ Tidy(t) /\ Positioned(t) /\ prefetch \in Nat
            /\ read = ReadAfter(t, prefetch) /\ read.start = prefetch
            /\ from \in Nat /\ to \in Nat
            /\ prefetch <= from /\ from < to /\ to <= t.end
        BY <1>4, <1>9, <1>10, <1>15, <2>1
      <4> QED  BY <4>1, ReadIsExact
    <3> QED  BY <1>11, <3>1 DEF Output
  <2>3. to - from \in 1..ExcerptLen
    <3>1. ExcerptLen \in Nat
      BY BoundsAssumption
    <3> QED  BY <1>7, <1>15, <2>1, <3>1
  <2>4. work'["runtime"] = m
    BY <1>15 DEF IInv, Works, Threads
  <2>5. /\ m.op = "handed" /\ m.life = t.life /\ m.gen = rec[w.id].gen
        /\ m.from = from /\ m.to = to /\ m.content = content
    BY <1>12
  <2> HIDE <1>12
  <2>6. ExcerptIsExact'
    BY <1>4, <2>2, <2>3, <2>4, <2>5 DEF ExcerptIsExact
  <2>7. MeasureFits'
    BY <2>4, <2>5 DEF MeasureFits
  <2> QED  BY <1>6, <2>6, <2>7 DEF ExcerptsFit
<1> QED  BY <1>13, <1>14, <1>15

(* An excerpt or a stop that is given up leaves the rings as they are.      *)
LEMMA FailingKeepsExcerpts ==
  ASSUME IInv, ExcerptsFit, NEW t \in Threads, SnapshotFails(t)
  PROVE  ExcerptsFit'
<1>1. term' = term /\ work' = [work EXCEPT ![t] = Idle]
  BY DEF SnapshotFails
<1>2. RingsFit'
  BY <1>1 DEF ExcerptsFit, RingsFit, Absent
<1>3. work'["runtime"] = work["runtime"] \/ work'["runtime"].op = "idle"
  BY <1>1 DEF IInv, Works, Threads, Idle
<1> QED  BY <1>1, <1>2, <1>3 DEF ExcerptsFit, MeasureFits, ExcerptIsExact

LEMMA StepKeepsExcerpts == IInv /\ ExcerptsFit /\ [Next]_vars => ExcerptsFit'
<1> SUFFICES ASSUME IInv, ExcerptsFit, [Next]_vars PROVE ExcerptsFit'
  OBVIOUS
<1>1. CASE UNCHANGED vars
  BY <1>1 DEF vars, ExcerptsFit, RingsFit, MeasureFits, ExcerptIsExact, Absent
<1>2. CASE Next
  <2>1. \/ \E id \in Ids : ProcessStep(id) \/ ExcerptMeasures(id)
        \/ \E from, to \in 0..MaxOutput : ExcerptReads(from, to)
        \/ \E t \in Threads : SnapshotFails(t)
        \/ Elsewhere
    BY <1>2 DEF Next, ProcessStep, Elsewhere, Kinds
  <2> QED
    BY <2>1, FailingKeepsExcerpts, ProcessKeepsExcerpts, MeasuringKeepsExcerpts,
       ReadingKeepsExcerpts,
       ElsewhereKeepsExcerpts
<1> QED  BY <1>1, <1>2

(* create_excerpt: whatever the reader thread pushes between its two       *)
(* snapshots, an excerpt is made of exactly the bytes of the range and the *)
(* generation it names, and no more than asked (normalize_terminal_excerpt *)
(* then strips their control sequences).                                   *)
THEOREM ExcerptsAreExact == Spec => []ExcerptIsExact
<1>1. Init => ExcerptsFit
  BY DEF Init, ExcerptsFit, RingsFit, MeasureFits, ExcerptIsExact, Absent, Idle, Threads
<1>2. ExcerptsFit => ExcerptIsExact
  BY DEF ExcerptsFit
<1> QED  BY <1>1, <1>2, StepKeepsExcerpts, IInvHolds, PTL DEF Spec
==============================================================================
