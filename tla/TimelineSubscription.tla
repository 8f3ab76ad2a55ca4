------------------------ MODULE TimelineSubscription ------------------------
(***************************************************************************)
(* How a client follows the public Timeline of a Session: it subscribes    *)
(* with the cursor it has, recovers what it missed up to a fixed head, in  *)
(* sync pages or in a snapshot, and then activates the live stream         *)
(* (timeline_subscription.rs and its handlers in lib.rs).  Meanwhile the   *)
(* runtime appends events to the journal and emits them; what it emits     *)
(* during the recovery is buffered.                                        *)
(*                                                                         *)
(* The event of sequence n is n.  The journal is its floor and its head    *)
(* (TimelineJournal shows that it has no gaps).  The handlers run one at a *)
(* time, so each is one action with its answer; an attempt that fails is   *)
(* retired in the same handler.  Requests name the Session and connection  *)
(* of their subscription; they may be early, late or repeated.  Byte       *)
(* limits, timestamps and watermarks chosen by the client are left out.    *)
(* A Turn is only started in a Session that has an attempt, but the        *)
(* attempt may end before the Turn: events come to Sessions without one.   *)
(***************************************************************************)
EXTENDS Integers, Sequences, FiniteSets, SequencesExt

CONSTANTS
  Sessions,
  Ids,            \* subscription identities
  NoSession,
  MaxHead,        \* bound: the events of all Sessions
  PageLimit,      \* events or Items in a page
  PendingLimit,   \* MAX_PENDING_TIMELINE_EVENTS_PER_CONNECTION
  IdLimit,        \* MAX_TIMELINE_SUBSCRIPTION_IDS_PER_CONNECTION
  MaxConnections  \* bound: connections of the client

ASSUME SubscriptionAssumption ==
  /\ NoSession \notin Sessions /\ IsFiniteSet(Sessions) /\ IsFiniteSet(Ids)
  /\ MaxHead \in Nat /\ PendingLimit \in Nat /\ IdLimit \in Nat
  /\ PageLimit \in Nat \ {0} /\ MaxConnections \in Nat \ {0}

VARIABLES
  head,        \* the last event of a Session in the journal
  floor,       \* the events up to here have been pruned
  unemitted,   \* history: events in the journal that were not emitted
  attempts,    \* registry: the attempt of each identity
  usedIds,     \* registry: the identities ever used
  pending,     \* registry: events held for all attempts
  transport,   \* the connection: "up" or "failed"
  connections, \* the connections so far
  belief,      \* client: what it was told of each identity
  base,        \* client: the anchor of its view of a Session
  received     \* client: the events it was given after its anchor

vars == <<head, floor, unemitted, attempts, usedIds, pending, transport,
          connections, belief, base, received>>

-----------------------------------------------------------------------------
NoAttempt == [session |-> NoSession, route |-> "sync", state |-> "absent", cursor |-> 0,
              fixedFloor |-> 0, fixedHead |-> 0, expectedAfter |-> 0, recovered |-> 0,
              complete |-> FALSE, buffered |-> <<>>, current |-> 0]

(* An activation token is held from the end of the recovery to the         *)
(* activation; expectedAfter is an event of a sync, an Item of a snapshot. *)
SubscriptionAttempt ==
  [session : Sessions \cup {NoSession}, route : {"sync", "snapshot"},
   state : {"absent", "pending", "active"}, cursor : 0..MaxHead,
   fixedFloor : 0..MaxHead, fixedHead : 0..MaxHead, expectedAfter : 0..MaxHead,
   recovered : 0..PendingLimit, complete : BOOLEAN, buffered : Seq(1..MaxHead),
   current : 0..MaxHead]

Init ==
  /\ head = [s \in Sessions |-> 0] /\ floor = head
  /\ unemitted = [s \in Sessions |-> {}]
  /\ attempts = [id \in Ids |-> NoAttempt]
  /\ usedIds = {} /\ pending = 0
  /\ transport = "up" /\ connections = 1
  /\ belief = [id \in Ids |-> "none"]
  /\ base = [s \in Sessions |-> 0]
  /\ received = [s \in Sessions |-> <<>>]

Journal == <<head, floor, unemitted>>
Connection == <<transport, connections>>

Exists(id) == attempts[id].state # "absent"
AttemptOf(s) == {id \in Ids : attempts[id].session = s}
PendingTotals(attempt) == attempt.recovered + Len(attempt.buffered)

(* The client takes what it is given; its cursor is the last of it.        *)
Cursor(s) == IF received[s] = <<>> THEN base[s] ELSE Last(received[s])
Receive(s, events) == received' = [received EXCEPT ![s] = @ \o events]
Tell(id, what) == belief' = [belief EXCEPT ![id] = what]
From(first, last) == [i \in 1..(last - first + 1) |-> first + i - 1]

(* retire: the attempt and what it holds go, its identity stays used.      *)
Retire(id) ==
  /\ attempts' = [attempts EXCEPT ![id] = NoAttempt]
  /\ pending' = pending - PendingTotals(attempts[id])
  /\ UNCHANGED usedIds

(* A request that fails retires its attempt, and the client is told.       *)
Refuse(id) ==
  /\ Retire(id)
  /\ Tell(id, "ended")
  /\ UNCHANGED <<Journal, Connection, base, received>>

(* The connection is given up: every attempt goes with it.                 *)
Disconnect ==
  /\ attempts' = [id \in Ids |-> NoAttempt]
  /\ usedIds' = {} /\ pending' = 0

-----------------------------------------------------------------------------
CanAppend == transport = "up" /\ FoldFunction(+, 0, head) < MaxHead

(* The runtime appends an event and emits it (route_runtime_timeline_      *)
(* message, publish_event).                                                *)

(* Faulty variant: the event after the fixed head is taken for old, too.   *)
CoveredByNextHead(attempt, event) == event <= attempt.fixedHead + 1
Covered(attempt, event) == event <= attempt.fixedHead

(* An attempt that fails while it is recovering fails the connection: no   *)
(* failure is defined for it.  Faulty variant: it is retired in silence.   *)
RetireInSilence(id) ==
  /\ Retire(id)
  /\ UNCHANGED <<transport, belief>>
FailLive(id) ==
  IF attempts[id].state = "active"
  THEN Retire(id) /\ Tell(id, "ended") /\ UNCHANGED transport
  ELSE Disconnect /\ transport' = "failed" /\ UNCHANGED belief

PublishTo(id, event) ==
  LET attempt == attempts[id]
  IN  \/ /\ Covered(attempt, event)
         /\ UNCHANGED <<attempts, usedIds, pending, transport, belief, received>>
      \/ /\ ~Covered(attempt, event)
         /\ \/ event # attempt.current + 1
            \/ attempt.state = "pending" /\ pending + 1 > PendingLimit
         /\ FailLive(id)
         /\ UNCHANGED received
      \/ /\ ~Covered(attempt, event) /\ event = attempt.current + 1
         /\ attempt.state = "active"
         /\ attempts' = [attempts EXCEPT ![id].current = event]
         /\ Receive(attempt.session, <<event>>)
         /\ UNCHANGED <<usedIds, pending, transport, belief>>
      \/ /\ ~Covered(attempt, event) /\ event = attempt.current + 1
         /\ attempt.state = "pending" /\ pending + 1 <= PendingLimit
         /\ attempts' = [attempts EXCEPT ![id].current = event,
                                         ![id].buffered = Append(@, event)]
         /\ pending' = pending + 1
         /\ UNCHANGED <<usedIds, transport, belief, received>>

Emit(s) ==
  /\ CanAppend
  /\ head' = [head EXCEPT ![s] = @ + 1]
  /\ \/ AttemptOf(s) = {} /\ UNCHANGED <<attempts, usedIds, pending, transport, belief, received>>
     \/ \E id \in AttemptOf(s) : PublishTo(id, head[s] + 1)
  /\ UNCHANGED <<floor, unemitted, connections, base>>

(* An event that is durable and not emitted: the start of a Turn whose     *)
(* user Item fails, a preview whose answer fails.                          *)
AppendUnemitted(s) ==
  /\ CanAppend
  /\ head' = [head EXCEPT ![s] = @ + 1]
  /\ unemitted' = [unemitted EXCEPT ![s] = @ \cup {head[s] + 1}]
  /\ UNCHANGED <<floor, attempts, usedIds, pending, Connection, belief, base, received>>

(* checkpoint_and_prune_public_timeline.                                   *)
Prune(s, through) ==
  /\ through \in (floor[s] + 1)..head[s]
  /\ floor' = [floor EXCEPT ![s] = through]
  /\ UNCHANGED <<head, unemitted, attempts, usedIds, pending, Connection, belief,
                 base, received>>

-----------------------------------------------------------------------------
(* The client's requests.                                                  *)

(* timeline/subscribe, with the client's cursor.                           *)
CanRegister(id, s) ==
  /\ id \notin usedIds
  /\ Cardinality(usedIds) < IdLimit
  /\ AttemptOf(s) = {}

Registered(s) ==
  [NoAttempt EXCEPT !.session = s, !.state = "pending",
     !.route = IF Cursor(s) < floor[s] THEN "snapshot" ELSE "sync",
     !.cursor = Cursor(s), !.fixedFloor = floor[s], !.fixedHead = head[s],
     !.expectedAfter = IF Cursor(s) < floor[s] THEN 0 ELSE Cursor(s),
     !.current = head[s]]

Subscribe(id, s) ==
  /\ transport = "up" /\ belief[id] \in {"none", "ended"}
  /\ \/ /\ CanRegister(id, s)
        /\ attempts' = [attempts EXCEPT ![id] = Registered(s)]
        /\ usedIds' = usedIds \cup {id}
        /\ Tell(id, "pending")
     \/ /\ ~CanRegister(id, s)
        /\ Tell(id, "ended")
        /\ UNCHANGED <<attempts, usedIds>>
  /\ UNCHANGED <<Journal, pending, Connection, base, received>>

(* The recovery takes a page of n, and is complete or goes on after it.    *)
(* Faulty variant: the pages of a complete recovery stay pending.          *)
TakePageForEver(id, n, after, complete) ==
  /\ attempts' = [attempts EXCEPT ![id].expectedAfter = after, ![id].complete = complete,
                    ![id].recovered = IF complete THEN 0 ELSE @ + n]
  /\ pending' = pending + n
  /\ UNCHANGED usedIds
TakePage(id, n, after, complete) ==
  /\ attempts' = [attempts EXCEPT ![id].expectedAfter = after, ![id].complete = complete,
                    ![id].recovered = IF complete THEN 0 ELSE @ + n]
  /\ pending' = IF complete THEN pending - attempts[id].recovered ELSE pending + n
  /\ UNCHANGED usedIds

PageEnd(after, last) == IF after + PageLimit < last THEN after + PageLimit ELSE last

(* timeline/subscription-sync.                                             *)
SyncIsPossible(id, after) ==
  LET attempt == attempts[id]
      end == PageEnd(after, attempt.fixedHead)
  IN  /\ attempt.cursor <= after /\ after <= attempt.fixedHead
      /\ after >= floor[attempt.session] /\ attempt.fixedHead >= floor[attempt.session]
      /\ attempt.state = "pending" /\ attempt.route = "sync"
      /\ ~attempt.complete /\ after = attempt.expectedAfter
      /\ pending + end - after <= PendingLimit

Sync(id, after) ==
  LET attempt == attempts[id]
      end == PageEnd(after, attempt.fixedHead)
  IN  /\ transport = "up" /\ Exists(id)
      /\ \/ /\ SyncIsPossible(id, after)
            /\ TakePage(id, end - after, end, end = attempt.fixedHead)
            /\ Receive(attempt.session, From(after + 1, end))
            /\ UNCHANGED <<Journal, Connection, belief, base>>
         \/ ~SyncIsPossible(id, after) /\ Refuse(id)

(* timeline/subscription-snapshot.  Each event up to the head is an Item.  *)
SnapshotIsPossible(id, after) ==
  LET attempt == attempts[id]
      end == PageEnd(after, attempt.fixedHead)
  IN  /\ floor[attempt.session] = attempt.fixedFloor
      /\ attempt.state = "pending" /\ attempt.route = "snapshot"
      /\ ~attempt.complete /\ after = attempt.expectedAfter
      /\ pending + end - after <= PendingLimit

Snapshot(id, after) ==
  LET attempt == attempts[id]
      end == PageEnd(after, attempt.fixedHead)
  IN  /\ transport = "up" /\ Exists(id)
      /\ \/ /\ SnapshotIsPossible(id, after)
            /\ TakePage(id, end - after, end, end = attempt.fixedHead)
            /\ IF end = attempt.fixedHead
               THEN /\ base' = [base EXCEPT ![attempt.session] = end]
                    /\ received' = [received EXCEPT ![attempt.session] = <<>>]
               ELSE UNCHANGED <<base, received>>
            /\ UNCHANGED <<Journal, Connection, belief>>
         \/ ~SnapshotIsPossible(id, after) /\ Refuse(id)

(* timeline/subscription-activate: the token is spent, and what was        *)
(* buffered follows the answer.  Faulty variant: it is dropped.            *)
DrainNothing(attempt) == <<>>
Drain(attempt) == attempt.buffered

Activate(id) ==
  LET attempt == attempts[id]
  IN  /\ transport = "up" /\ Exists(id)
      /\ \/ /\ attempt.state = "pending" /\ attempt.complete
            /\ attempts' = [attempts EXCEPT ![id].state = "active", ![id].buffered = <<>>]
            /\ pending' = pending - Len(attempt.buffered)
            /\ Receive(attempt.session, Drain(attempt))
            /\ Tell(id, "active")
            /\ UNCHANGED <<Journal, usedIds, Connection, base>>
         \/ /\ ~(attempt.state = "pending" /\ attempt.complete)
            /\ Refuse(id)

(* The client connects again, to a new process.                            *)
Reconnect ==
  /\ connections < MaxConnections
  /\ connections' = connections + 1
  /\ transport' = "up"
  /\ Disconnect
  /\ belief' = [id \in Ids |-> "none"]
  /\ UNCHANGED <<Journal, base, received>>

Next ==
  \/ \E s \in Sessions :
       \/ Emit(s)
       \/ AppendUnemitted(s)
       \/ \E through \in 1..MaxHead : Prune(s, through)
       \/ \E id \in Ids : Subscribe(id, s)
  \/ \E id \in Ids, after \in 0..MaxHead : Sync(id, after) \/ Snapshot(id, after)
  \/ \E id \in Ids : Activate(id)
  \/ Reconnect

Spec == Init /\ [][Next]_vars

-----------------------------------------------------------------------------
(* Every variable has its type.                                            *)
TypeOK ==
  /\ head \in [Sessions -> 0..MaxHead] /\ floor \in [Sessions -> 0..MaxHead]
  /\ \A s \in Sessions : unemitted[s] \subseteq 1..MaxHead
  /\ \A id \in Ids : attempts[id] \in SubscriptionAttempt
  /\ usedIds \subseteq Ids /\ pending \in 0..PendingLimit
  /\ transport \in {"up", "failed"} /\ connections \in 1..MaxConnections
  /\ belief \in [Ids -> {"none", "pending", "active", "ended"}]
  /\ base \in [Sessions -> 0..MaxHead]
  /\ \A s \in Sessions : received[s] \in Seq(1..MaxHead)

(* Over all its subscriptions and connections a client is given every      *)
(* event after its anchor once and in order: pages, drained and live       *)
(* events join without a gap or a repetition, whatever was emitted, pruned *)
(* or lost in between (expected_after, current_cursor, activate).          *)
NothingIsSkipped ==
  \A s \in Sessions : received[s] = From(base[s] + 1, base[s] + Len(received[s]))

(* The counter of the connection is what its attempts hold, so that the    *)
(* subtractions of release_pending never underflow, which would panic, and *)
(* never leak, which would starve every other attempt.                     *)
PendingIsAccounted ==
  pending = MapThenSumSet(LAMBDA id : PendingTotals(attempts[id]), Ids)

(* The registry is sound: within its limits, and its counter is true.      *)
RegistryIsSound == TypeOK /\ PendingIsAccounted

(* A subscriber that has not been told otherwise has everything that was   *)
(* emitted: an active one has been given it, a recovering one has it       *)
(* recoverable or buffered.                                                *)
SubscribersAreCurrent ==
  \A id \in Ids : Exists(id) =>
    LET attempt == attempts[id]
        reached == IF attempt.state = "active" THEN Cursor(attempt.session)
                   ELSE attempt.current
    IN  /\ (reached + 1)..head[attempt.session] \subseteq unemitted[attempt.session]
        /\ attempt.state = "pending" =>
             attempt.buffered = From(attempt.fixedHead + 1, attempt.current)

(* As long as the connection lives the client knows the state of each of   *)
(* its subscriptions: none is dropped in silence, whoever failed it.       *)
ClientKnows ==
  transport = "up" => \A id \in Ids :
    belief[id] \in {"pending", "active"} \/ Exists(id) => belief[id] = attempts[id].state
=============================================================================
