------------------------------ MODULE Terminals ------------------------------
(***************************************************************************)
(* The user's terminals of one Work session: the shells the daemon spawned *)
(* (terminal.rs, TerminalManager), the records that name them (lib.rs,     *)
(* TerminalState) and the requests that touch both.                        *)
(*                                                                         *)
(* The manager and the records are behind one mutex.  Two threads take it: *)
(* the runtime thread, one request at a time, and the control thread, for  *)
(* stops, out of turn.  A stop keeps the mutex through three waits, and    *)
(* input keeps it for as long as the shell does not read; an open and a    *)
(* removal give it back between their check and their work.  The mutex     *)
(* holds up neither the reader of a terminal, which pushes output into a   *)
(* ring of its own, nor the processes, which die when they like: no signal *)
(* but KILL has an effect they cannot refuse.                              *)
(*                                                                         *)
(* A byte of output is its position; what identifies a process is its      *)
(* life, the number of times the terminal has been spawned.                *)
(***************************************************************************)
EXTENDS Naturals, FiniteSets, Sequences

CONSTANTS
    Ids,            \* terminal identities, each allocated once
    Chatty,         \* bound: those that write, start a job, are restarted, whose
                    \* open fails after its spawn, or whose last snapshot fails
    Cap,            \* CAPTURE_LIMIT, the bytes a ring retains
    ExcerptLen,     \* max_bytes of an excerpt
    Prefetch,       \* the bytes read ahead of an excerpt
    Chunks,         \* bound: the sizes of what a reader takes at a time
    MaxOutput,      \* bound: bytes one process writes
    MaxLife         \* bound: spawns of one terminal

ASSUME BoundsAssumption ==
    /\ Chatty \subseteq Ids
    /\ {Cap, ExcerptLen, MaxLife} \subseteq Nat \ {0}
    /\ {Prefetch, MaxOutput} \subseteq Nat /\ Chunks \subseteq Nat \ {0}
    /\ IsFiniteSet(Ids)

VARIABLES
    term,       \* TerminalManager.terminals, by identity
    rec,        \* TerminalState.records, by identity
    opened,     \* the identities allocated so far
    lost,       \* history: those whose open or restart failed after its spawn
    session,    \* the Work session: archived, and its deletion
    lock,       \* who holds the mutex of both maps
    work        \* the request each thread is in the middle of

vars == <<term, rec, opened, lost, session, lock, work>>

Threads == {"runtime", "control"}
Nobody == "nobody"

\* The process groups of a terminal: the shell, and one foreground job.
Shell == 0
Job == 1
Groups == {Shell, Job}

None == [none |-> TRUE]
Idle == [op |-> "idle"]
Absent(id) == term[id] = None

-----------------------------------------------------------------------------
(* The ring *)

Retained(t) == t.end - Len(t.bytes)

Larger(i, j) == IF i > j THEN i ELSE j
Lesser(i, j) == IF i < j THEN i ELSE j

\* Capture::push: the oldest bytes give way.
Push(t, n) ==
    LET all == t.bytes \o [i \in 1..n |-> t.end + i - 1]
    IN  [t EXCEPT !.bytes = SubSeq(all, Larger(Len(all) - Cap, 0) + 1, Len(all)),
                  !.end = @ + n]

\* Capture::read_after: what is retained of the output from `after` on.
ReadAfter(t, after) ==
    LET start == Lesser(Larger(after, Retained(t)), t.end)
    IN  [start |-> start,
         bytes |-> SubSeq(t.bytes, start - Retained(t) + 1, Len(t.bytes))]

-----------------------------------------------------------------------------
(* The manager and the records *)

\* poll_exit: the shell's exit is known once somebody has asked for it.
Polled(t) == [t EXCEPT !.reaped = @ \/ Shell \notin t.live]

\* A shell in front, of which a stop has killed nothing yet.
Spawned(life) ==
    [life |-> life, live |-> {Shell}, front |-> Shell, killed |-> {},
     reaped |-> FALSE, bytes |-> <<>>, end |-> 0]

\* decorate_snapshot: the record, where there is one, follows the snapshot.
Decorated(r, t) ==
    IF r = None THEN None ELSE
    [r EXCEPT !.state = IF t.reaped THEN "exited"
                        ELSE IF @ = "stopping" THEN "stopping" ELSE "running"]

Busy(r) == r # None /\ r.state \in {"running", "stopping"}
Foregrounds(records) ==
    {id \in Ids : Busy(records[id]) /\ records[id].kind = "foreground"}

\* terminal_session_binding, and the dispatcher's rule while a deletion is
\* pending: nothing may start.
Bound == ~session.archived /\ session.deletion # "purged"
MayStart == Bound /\ session.deletion = "none"

Free(t) == lock = Nobody /\ work[t] = Idle

Init ==
    /\ term = [id \in Ids |-> None]
    /\ rec = [id \in Ids |-> None]
    /\ opened = {}
    /\ lost = {}
    /\ session = [archived |-> FALSE, deletion |-> "none"]
    /\ lock = Nobody
    /\ work = [t \in Threads |-> Idle]

-----------------------------------------------------------------------------
(* The processes and the readers *)

Update(id, t) == term' = [term EXCEPT ![id] = t]

OthersStand == UNCHANGED <<rec, opened, lost, session, lock, work>>

Stopping(t) == work[t].op = "stop"

\* The shell starts a job in the foreground, a group no stop has met before.
StartJob(id) ==
    /\ ~Absent(id) /\ id \in Chatty /\ Shell \in term[id].live
    /\ Job \notin term[id].live \cup term[id].killed
    /\ \A t \in Threads : Stopping(t) /\ work[t].id = id => Job \notin work[t].groups
    /\ Update(id, [term[id] EXCEPT !.live = Groups, !.front = Job])
    /\ OthersStand

\* The shell calls a job back, or sends it to the background.
ChangeFront(id, g) ==
    /\ ~Absent(id) /\ Shell \in term[id].live
    /\ g \in term[id].live \ {term[id].front}
    /\ Update(id, [term[id] EXCEPT !.front = g])
    /\ OthersStand

Die(id, g) ==
    /\ ~Absent(id) /\ g \in term[id].live
    /\ Update(id, [term[id] EXCEPT !.live = @ \ {g}])
    /\ OthersStand

\* read_output: a chunk reaches the ring; output may be left when all are dead.
ReadOutput(id, n) ==
    /\ ~Absent(id) /\ id \in Chatty /\ term[id].end + n <= MaxOutput
    /\ Update(id, Push(term[id], n))
    /\ OthersStand

-----------------------------------------------------------------------------
(* Requests of one section under the mutex *)

Refresh(id) ==
    LET t == Polled(term[id])
    IN  /\ Update(id, t)
        /\ rec' = [rec EXCEPT ![id] = Decorated(@, t)]

\* The terminals that have a record; one that has none is not met.
RefreshAll ==
    /\ term' = [id \in Ids |-> IF rec[id] = None THEN term[id] ELSE Polled(term[id])]
    /\ rec' = [id \in Ids |-> IF rec[id] = None THEN None
                              ELSE Decorated(rec[id], Polled(term[id]))]

\* terminal/list
List ==
    /\ Free("runtime") /\ Bound
    /\ RefreshAll
    /\ UNCHANGED <<opened, lost, session, lock, work>>

\* terminal/read and terminal/attach: what an answer tells, its record tells.
Read(id) ==
    /\ Free("runtime") /\ Bound /\ ~Absent(id)
    /\ Refresh(id)
    /\ UNCHANGED <<opened, lost, session, lock, work>>

\* terminal/signal-user: the exit is noticed and the record is not told.  What
\* the signal does to the group in front is a death, or nothing.
Signal(id) ==
    /\ Free("runtime") /\ MayStart /\ ~Absent(id)
    /\ Update(id, Polled(term[id]))
    /\ OthersStand

Renewed(r) == [r EXCEPT !.gen = @ + 1, !.state = "running"]

\* How open_user ends: refused, or failing before its spawn; failing after it
\* with the shell dropped, unkilled; failing with the terminal in the manager
\* already, when the snapshot it answers with cannot be taken; or well.
SpawnEnds == {"refused", "dropped", "kept", "opened"}
Leaves == {"dropped", "kept"}

ManagerAfter(id, life, end) ==
    /\ Update(id, IF end \in {"kept", "opened"} THEN Spawned(life) ELSE None)
    /\ lost' = IF end \in Leaves THEN lost \cup {id} ELSE lost

\* Faulty variant: a restart that fails leaves the record behind.
RespawnedKeepsRecord(id, end) ==
    /\ ManagerAfter(id, term[id].life + 1, end)
    /\ rec' = [rec EXCEPT ![id] = IF end = "opened" THEN Renewed(@) ELSE @]

\* The old terminal is gone.  When open_user fails the record goes as well,
\* and the terminal it may have kept stays.
Respawned(id, end) ==
    /\ ManagerAfter(id, term[id].life + 1, end)
    /\ rec' = [rec EXCEPT ![id] = IF end = "opened" THEN Renewed(@) ELSE None]

\* terminal_restart_user: the process is replaced whatever it is doing and
\* whatever else runs.
Restart(id, end) ==
    /\ Free("runtime") /\ MayStart /\ ~Absent(id) /\ rec[id] # None
    /\ id \in Chatty /\ term[id].life < MaxLife
    /\ Respawned(id, end)
    /\ UNCHANGED <<opened, session, lock, work>>

-----------------------------------------------------------------------------
(* Requests of several sections *)

\* Faulty variant: a foreground terminal is opened beside another.
OpenChecksName(kind) ==
    /\ Free("runtime") /\ MayStart /\ opened # Ids
    /\ RefreshAll
    /\ work' = [work EXCEPT !["runtime"] = [op |-> "open", kind |-> kind]]
    /\ UNCHANGED <<opened, lost, session, lock>>

\* terminal_open_user, first section: validate_open_identity.
OpenChecks(kind) ==
    /\ Free("runtime") /\ MayStart /\ opened # Ids
    /\ RefreshAll
    /\ work' = IF kind = "foreground" /\ Foregrounds(rec') # {} THEN work
               ELSE [work EXCEPT !["runtime"] = [op |-> "open", kind |-> kind]]
    /\ UNCHANGED <<opened, lost, session, lock>>

\* Second section, when it comes to a spawn.  The Err branch removes nothing:
\* a terminal the manager has kept stays there, without a record.
OpenSpawns(id, end) ==
    /\ lock = Nobody /\ work["runtime"].op = "open" /\ id \notin opened
    /\ end = "opened" \/ (end \in Leaves /\ id \in Chatty)
    /\ ManagerAfter(id, 1, end)
    /\ rec' = IF end # "opened" THEN rec ELSE
              [rec EXCEPT ![id] = [gen |-> 1, kind |-> work["runtime"].kind,
                                   state |-> "running"]]
    /\ opened' = opened \cup {id}
    /\ work' = [work EXCEPT !["runtime"] = Idle]
    /\ UNCHANGED <<session, lock>>

\* Second section, when nothing was spawned: an identity nobody hears of.
OpenFails ==
    /\ lock = Nobody /\ work["runtime"].op = "open"
    /\ work' = [work EXCEPT !["runtime"] = Idle]
    /\ UNCHANGED <<term, rec, opened, lost, session, lock>>

\* terminal_remove_user, first section: a running terminal is refused.
RemoveChecks(id) ==
    /\ Free("runtime") /\ Bound /\ ~Absent(id)
    /\ Refresh(id)
    /\ work' = IF term'[id].reaped
               THEN [work EXCEPT !["runtime"] = [op |-> "remove", id |-> id]]
               ELSE work
    /\ UNCHANGED <<opened, lost, session, lock>>

\* Second section: the terminal and its record go together.
RemoveTakes ==
    /\ lock = Nobody /\ work["runtime"].op = "remove"
    /\ LET id == work["runtime"].id
       IN  /\ Update(id, None)
           /\ rec' = [rec EXCEPT ![id] = None]
           /\ work' = [work EXCEPT !["runtime"] = Idle]
    /\ UNCHANGED <<opened, lost, session, lock>>

-----------------------------------------------------------------------------
(* Input: the mutex is held until the pseudoterminal has taken every byte *)

InputBegins(id) ==
    /\ Free("runtime") /\ MayStart /\ ~Absent(id)
    /\ LET p == Polled(term[id])
       IN  /\ Update(id, p)
           /\ IF p.reaped THEN UNCHANGED <<lock, work>>
              ELSE /\ lock' = "runtime"
                   /\ work' = [work EXCEPT !["runtime"] = [op |-> "input"]]
    /\ UNCHANGED <<rec, opened, lost, session>>

\* Written, or refused by the system; not before somebody reads.
InputEnds ==
    /\ work["runtime"].op = "input"
    /\ lock' = Nobody
    /\ work' = [work EXCEPT !["runtime"] = Idle]
    /\ UNCHANGED <<term, rec, opened, lost, session>>

-----------------------------------------------------------------------------
(* Stopping: the mutex is held from the first signal to the answer *)

\* terminal_process_groups: the foreground group and the shell's, now.
StopBegins(t, id) ==
    /\ Free(t) /\ ~Absent(id)
    /\ t = "runtime" => Bound
    /\ LET p == Polled(term[id])
       IN  /\ Update(id, p)
           /\ work' = [work EXCEPT ![t] =
                  [op |-> "stop", id |-> id, sent |-> "HUP",
                   groups |-> IF p.reaped THEN {} ELSE {Shell, p.front}]]
    /\ lock' = t
    /\ UNCHANGED <<rec, opened, lost, session>>

\* Faulty variant: only the shell is waited for.
GroupsGoneShell(t) == {Shell} \cap work[t].groups \cap term[work[t].id].live = {}

\* wait_for_process_groups
GroupsGone(t) == work[t].groups \cap term[work[t].id].live = {}

\* A wait runs out: the next signal is sent.
StopEscalates(t) ==
    /\ Stopping(t) /\ ~GroupsGone(t) /\ work[t].sent # "KILL"
    /\ LET kill == work[t].sent = "TERM"
       IN  /\ work' = [work EXCEPT ![t].sent = IF kill THEN "KILL" ELSE "TERM"]
           /\ Update(work[t].id,
                     [term[work[t].id] EXCEPT
                         !.killed = IF kill THEN @ \cup work[t].groups ELSE @])
    /\ UNCHANGED <<rec, opened, lost, session, lock>>

\* Faulty variant: the last wait is for as long as it takes.
WaitIsOverPatient(t) == GroupsGone(t)

WaitIsOver(t) == GroupsGone(t) \/ work[t].sent = "KILL"

Asked(r) == IF r = None THEN None ELSE [r EXCEPT !.state = "stopping"]

\* The last snapshot is taken, and the record says what it knows.
StopEnds(t) ==
    /\ Stopping(t) /\ WaitIsOver(t)
    /\ LET id == work[t].id
           p == Polled(term[id])
       IN  /\ Update(id, p)
           /\ rec' = [rec EXCEPT ![id] = Decorated(Asked(@), p)]
    /\ work' = [work EXCEPT ![t] = Idle]
    /\ lock' = Nobody
    /\ UNCHANGED <<opened, lost, session>>

-----------------------------------------------------------------------------
(* Excerpts: two snapshots under one lock, and a reader that does not wait *)

ExcerptMeasures(id) ==
    /\ Free("runtime") /\ Bound /\ ~Absent(id) /\ rec[id] # None
    /\ LET p == Polled(term[id])
       IN  /\ Update(id, p)
           /\ p.end > Retained(p)
           /\ work' = [work EXCEPT !["runtime"] =
                  [op |-> "excerpt", id |-> id, end |-> p.end,
                   desired |-> Larger(Retained(p), Larger(p.end, ExcerptLen) - ExcerptLen),
                   retained |-> Retained(p)]]
    /\ lock' = "runtime"
    /\ UNCHANGED <<rec, opened, lost, session>>

\* Faulty variant: what the second snapshot starts with is not compared.
ExcerptHoldsUnread(w, read, t) == t.end >= w.end

\* The output the first snapshot measured is still there.
ExcerptHolds(w, read, t) ==
    /\ t.end >= w.end
    /\ read.start = Larger(w.retained, Larger(w.desired, Prefetch) - Prefetch)

\* create_excerpt, the second snapshot; terminal_utf8_bounds gives up bytes of
\* a cut character at either end.
ExcerptReads(from, to) ==
    LET w == work["runtime"]
        t == Polled(term[w.id])
        prefetch == Larger(w.retained, Larger(w.desired, Prefetch) - Prefetch)
        read == ReadAfter(t, prefetch)
    IN  /\ w.op = "excerpt"
        /\ Update(w.id, t)
        /\ IF ExcerptHolds(w, read, t) /\ Len(read.bytes) >= w.end - prefetch
           THEN /\ from \in w.desired .. (w.end - 1) /\ to \in (from + 1) .. w.end
                /\ work' = [work EXCEPT !["runtime"] =
                       [op |-> "handed", gen |-> rec[w.id].gen, life |-> t.life,
                        from |-> from, to |-> to,
                        content |-> SubSeq(read.bytes, from - prefetch + 1,
                                           to - prefetch)]]
           ELSE work' = [work EXCEPT !["runtime"] = Idle]
        /\ lock' = Nobody
        /\ UNCHANGED <<rec, opened, lost, session>>

\* The excerpt is answered, and the next request taken.
ExcerptSent ==
    /\ work["runtime"].op = "handed"
    /\ work' = [work EXCEPT !["runtime"] = Idle]
    /\ UNCHANGED <<term, rec, opened, lost, session, lock>>

\* poll_exit fails in the last snapshot of a stop or an excerpt: the request
\* is refused and no record is told.  (Where it fails before anything is done
\* it only refuses a request.)
SnapshotFails(t) ==
    /\ \/ Stopping(t) /\ WaitIsOver(t)
       \/ work[t].op = "excerpt"
    /\ work[t].id \in Chatty
    /\ work' = [work EXCEPT ![t] = Idle]
    /\ lock' = Nobody
    /\ UNCHANGED <<term, rec, opened, lost, session>>

-----------------------------------------------------------------------------
(* The session *)

\* Faulty variant: a terminal that is being stopped does not count.
LiveActivityRunning == \E id \in Ids : rec[id] # None /\ rec[id].state = "running"

\* has_running_terminal, session_deletion_live_reasons, protected_session_ids
LiveActivity == \E id \in Ids : Busy(rec[id])

SetSession(s) ==
    /\ session' = s
    /\ UNCHANGED <<term, rec, opened, lost, lock, work>>

Archive ==
    /\ Free("runtime") /\ MayStart /\ ~LiveActivity
    /\ SetSession([session EXCEPT !.archived = TRUE])

Unarchive ==
    /\ Free("runtime") /\ session = [archived |-> TRUE, deletion |-> "none"]
    /\ SetSession([session EXCEPT !.archived = FALSE])

ScheduleDeletion ==
    /\ Free("runtime") /\ session.deletion = "none" /\ ~LiveActivity
    /\ SetSession([session EXCEPT !.deletion = "pending"])

UndoDeletion ==
    /\ Free("runtime") /\ session.deletion = "pending"
    /\ SetSession([session EXCEPT !.deletion = "none"])

\* evict_purged_resident_sessions: purge_session takes every terminal that has
\* a record.
Purge ==
    /\ Free("runtime") /\ session.deletion = "pending" /\ ~LiveActivity
    /\ session' = [archived |-> FALSE, deletion |-> "purged"]
    /\ term' = [id \in Ids |-> IF rec[id] = None THEN term[id] ELSE None]
    /\ rec' = [id \in Ids |-> None]
    /\ UNCHANGED <<opened, lost, lock, work>>

-----------------------------------------------------------------------------
Next ==
    \/ \E id \in Ids :
          \/ StartJob(id) \/ Read(id) \/ Signal(id) \/ InputBegins(id) \/ RemoveChecks(id)
          \/ ExcerptMeasures(id)
          \/ \E g \in Groups : ChangeFront(id, g) \/ Die(id, g)
          \/ \E n \in Chunks : ReadOutput(id, n)
          \/ \E end \in SpawnEnds : Restart(id, end) \/ OpenSpawns(id, end)
          \/ \E t \in Threads : StopBegins(t, id)
    \/ \E kind \in {"foreground", "background"} : OpenChecks(kind)
    \/ \E t \in Threads : StopEscalates(t) \/ StopEnds(t) \/ SnapshotFails(t)
    \/ \E from, to \in 0..MaxOutput : ExcerptReads(from, to)
    \/ List \/ InputEnds \/ OpenFails \/ RemoveTakes \/ ExcerptSent
    \/ Archive \/ Unarchive \/ ScheduleDeletion \/ UndoDeletion \/ Purge

Spec == Init /\ [][Next]_vars

\* A thread inside a stop goes on; nothing is assumed of the processes, and
\* nothing of a write the shell does not read.
FairSpec ==
    /\ Spec
    /\ \A t \in Threads : WF_vars(StopEscalates(t)) /\ WF_vars(StopEnds(t))

-----------------------------------------------------------------------------
(* Properties *)

States == {"running", "stopping", "exited"}

\* The shape of the state, and the ring never retains more than its limit.
TypeOK ==
    /\ \A id \in Ids :
          /\ term[id] = None \/
                /\ term[id].life \in 1..MaxLife
                /\ term[id].live \subseteq Groups /\ term[id].killed \subseteq Groups
                /\ term[id].front \in Groups /\ term[id].reaped \in BOOLEAN
                /\ term[id].end \in 0..MaxOutput /\ Len(term[id].bytes) <= Cap
          /\ rec[id] = None \/
                rec[id] \in [gen : 1..MaxLife, kind : {"foreground", "background"},
                             state : States]
    /\ opened \subseteq Ids /\ lost \subseteq opened
    /\ session \in [archived : BOOLEAN, deletion : {"none", "pending", "purged"}]
    /\ lock \in Threads \cup {Nobody}
    /\ \A t \in Threads :
          work[t].op \in {"idle", "open", "remove", "input", "stop", "excerpt", "handed"}

\* Terminals and records name each other through every open, restart,
\* removal, failure and purge.  No record is without a terminal, which would
\* make every later open and list of the session fail; its generation is that
\* of the process, and it says "exited" only of a shell known to be dead.  A
\* terminal without a record, which list, archive and deletion do not see, is
\* left by an open_user that failed after its spawn and by nothing else; and
\* what it left never comes to have a record again.
RecordsMatch ==
    \A id \in Ids :
        /\ rec[id] # None =>
              /\ ~Absent(id) /\ id \notin lost
              /\ rec[id].gen = term[id].life
              /\ rec[id].state = "exited" =>
                    term[id].reaped /\ Shell \notin term[id].live
        /\ ~Absent(id) => rec[id] # None \/ id \in lost

\* Process, ring and record of every terminal are sound and fit.
EntriesAreSound == TypeOK /\ RecordsMatch

\* A session that is archived, or that waits to be deleted, has no shell
\* still alive, whatever a stop of the control thread was doing when it was
\* put away: its terminals can no longer be reached from the runtime thread.
\* A shell that a failed open or restart left behind has no record to count
\* and is excepted: that one may run on in an archived or deleted session.
QuietWhenPutAway ==
    session.archived \/ session.deletion # "none" =>
        \A id \in Ids \ lost : ~Absent(id) => Shell \notin term[id].live

\* An excerpt that is handed out is made from exactly the bytes of the range,
\* the terminal and the generation it names, however far the reader pushed the
\* ring between the two snapshots; control sequences are stripped afterwards.
ExcerptIsExact ==
    LET m == work["runtime"]
    IN  m.op = "handed" =>
            /\ m.life = m.gen /\ m.to - m.from \in 1..ExcerptLen
            /\ m.content = [i \in 1 .. m.to - m.from |-> m.from + i - 1]

\* A stop that ends has left no group it found alive and not killed.
StopIsThorough ==
    [][\A t \in Threads :
          Stopping(t) /\ work'[t].op # "stop" =>
              LET x == term[work[t].id]
              IN  work[t].groups \cap x.live \subseteq x.killed]_vars

\* A session comes to have a second busy foreground record by a restart only:
\* not by an open whose check is old when the shell is spawned.
OnlyRestartsDouble ==
    [][\/ Cardinality(Foregrounds(rec')) <=
             Larger(1, Cardinality(Foregrounds(rec)))
       \/ \E id \in Ids : rec[id] # None /\ rec'[id] # None
                              /\ rec'[id].gen = rec[id].gen + 1]_vars

\* A stop that has begun ends and gives the mutex back, even when a process
\* group never dies.  (A stop that waits for the mutex behind an input the
\* shell does not read is not covered: nothing bounds that wait.)
StopsEnd == \A t \in Threads : Stopping(t) ~> ~Stopping(t)
==============================================================================
