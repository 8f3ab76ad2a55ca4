# TLA+ models of the Aegisy agent runtime

This directory holds TLA+ specifications of the parts of Aegisy that are hard to get right by testing: what stays true while
threads interleave, the process stops between two writes, the store refuses a transaction, a client repeats a call or reconnects, and
an external agent process answers late or never. Every definition is translated from the source; `PROJECT.json` names, for each of
them, the file and lines it stands for.

Paths below are relative to the repository; `agentd/` stands for `agent-runtime/crates/aegisy-agentd/src/`.

- [1 The system and its components](#1-the-system-and-its-components)
- [2 Modules, and how they correspond to the code](#2-modules-and-how-they-correspond-to-the-code)
- [3 Model checking: runs, bounds, fairness](#3-model-checking-runs-bounds-fairness)
- [4 Proofs](#4-proofs)
- [5 Where code and documents disagree](#5-where-code-and-documents-disagree)
- [6 What is not modelled](#6-what-is-not-modelled)
- [7 Plan](#7-plan)

## 1 The system and its components

A Qt desktop application (`src/`) starts the agent runtime (`agentd/`, Rust) as a child process and speaks AAP, a framed JSON
protocol, with it over standard streams, a socket or a pipe. The runtime stores Projects, Sessions, Turns and Items in SQLite, and
drives a provider (a Codex process) that does the agent's work. The events of a Session form its public *Timeline*: an ordered, durable,
replayable log the desktop renders.

```
 desktop ──frames──▶ reader thread ──queue(32)──▶ dispatcher ──▶ turn_start_stream ──▶ run_turn ⇄ provider process
    ▲                  │ heartbeat, cancel, steer      │  prepare ▸ append ▸ commit ▸ emit
    │                  └──▶ active Turn, identities    ▼
    └──events, answers──── subscriptions ◀── EventSequencer ⇄ public Timeline journal (SQLite) ─▶ projection, floor snapshot
```

### Modelled

| Component | State | Operations | Hard behaviour | What makes it correct |
|---|---|---|---|---|
| **Event sequencer** `event_sequencer.rs` | per Session: last number, time and event; phase of each Turn; phase, revision and shape of each Item | `prepare`, `commit`, checkpoint, restore by replay | two-step commit; clock going back; exhausted numbers; errors that close a Turn and errors that do not | Turns never overlap and end once; a prepared event is accepted by every later check, the last safe integer apart; a checkpoint with the rows after it restores the sequencer |
| **Public Timeline projection** `public_timeline_projection.rs` | visible Turns and Items with first and latest event | `apply`, floor snapshot and its validation | a second reading of the sequencer's rules, which must agree with the first | accepts every history the sequencer can produce; the snapshot of every prefix is valid, if it fits |
| **Public Timeline journal** `public_timeline_journal.rs` | SQLite: cursor (head, floor), retained rows, checkpoint, floor snapshot | append, restore, checkpoint-and-prune, reset | a stop between append and commit; limits in the middle of a Turn; pruning with open Items | always recoverable; contiguous; pruning changes nothing a reader sees |
| **Session deletion** `workbench_store.rs` | none, pending, purged | schedule, undo, purge | the journal is emptied under a sequencer that still stands at its old head | a purged Session leaves nothing and takes nothing |
| **Turn execution** `lib.rs` (`turn_start_stream`), `codex_adapter.rs` (`run_turn`) | locals of the handler: error, pending terminal, trace; Items the adapter has open | reserve, dispatch, answer, stream, terminal, retry, settle | any write refused; provider silent, late or off protocol; runtime stopped by its own failure | when the call has returned its Turn has ended, durably and visibly, once |
| **Mutation operations** `workbench_store.rs` | per idempotency key: accepted, terminal, reconciliation-required; its Turn | reserve, bind to a Turn, bind to its end, mark, recover at startup | repeats during, after and across process stops | at most one dispatch; every answer true; acknowledgement and Turn end together |
| **Identity allocation** `lib.rs` (`allocate_id`) | a counter from zero in every process; the tables with unique keys | every operation that names what it stores | restarts | only what a former process left can be in the way, and repeats get past it |
| **Timeline subscriptions** `timeline_subscription.rs`, `lib.rs` | attempts with fixed head, page position and buffer; used identities; one counter of held events | subscribe, sync pages, snapshot pages, activate, publish, fail | events and pruning during recovery; gaps of events never emitted; full buffer | every event once and in order, or the client knows that its subscription ended |
| **Connection threads and runtime control** `main.rs`, `lib.rs` (`RuntimeControl`) | request queue, fault gate, readiness, claimed identities, active Turn with cancel flag and steer queue | read, queue or refuse, serve, control, begin and finish a Turn, poll, drain | two threads on the same records; full queues; late cancellations | a request runs once; controls hit the Turn they name, get past the queue and arrive |
| **Provider adapter** `codex_adapter.rs` | open Items, deadline, interruption | `run_turn` | deadlines, out-of-order notifications, blocking writes to the provider | every call ends, if those writes return |
| **Workspace edits** `workspace_edit_apply.rs` | files, staged files and backups in the workspace; the undo journal in memory | prepare, stage, revalidate, commit, verify, clean up, roll back | another program saves or deletes the same files; any call fails; the process stops between two of them | all or nothing, nothing lost that was there, nothing overwritten that was seen to be someone else's, leftovers named |
| **Background jobs** `background_job.rs`, `background_scheduler*.rs`, `background_process_observation.rs`, `background_recovery_decision.rs`, `workbench_store.rs` | rows of job and lease; registry of processes; the scheduler's snapshot | thirteen operations on a job, five on a lease; register, rebind, observe; refresh and record | several runtimes on old copies, restarts, expiry, rows read one after the other | no cancellation lost, no unsafe repeat, a lease covers its own attempt, what is recorded is true |
| **Terminals** `terminal.rs`, `lib.rs` (`TerminalState`) | processes and rings by identity; records by identity; one mutex over both | open, list, read, input, signal, stop, restart, remove, excerpt; archive, delete, purge of the Session | two threads; a mutex held through waits and writes; processes that die or resist; spawns that fail half-way; a ring overtaken by output | both maps agree, but for what a failed spawn left; nothing else alive in a Session that is put away; a stop ends and spares nothing |

They interact as follows. `serve_connection` calls `handle_frame_stream`, which runs one handler at a time; `turn_start_stream` calls
`run_turn`, which calls back with what the provider says; each callback prepares an event in the sequencer, appends it in the
transaction that changes the Turn's rows, commits the sequencer and emits; emitting goes through the subscription of the Session.
The reader thread reaches into a running Turn only through `RuntimeControl`'s locks. The journal and the sequencer are
two copies of one state, kept equal by the order of these steps and rebuilt by replay at startup.

Beside this core, workspace edits change files of the user's project in a transaction of their own; terminals run under one mutex
that the reader thread takes for stops while the dispatcher takes it for everything else, and their records decide whether a Session
may be archived or deleted; background jobs are rows that any runtime with the store open may change, under leases.

### Listed, not modelled

Store recovery and migrations; mutation reservations of other kinds; child tasks and budgets; Git transactions; compaction; artifacts and
durable blobs; traces, usage and diagnostics; model catalog; permissions; workspace reads; transports; the desktop client; companion
activation; updates; extensions; the rest of the desktop. Each is a component of `PROJECT.json` with its sources and the reason;
section 7 says which come next.

### Hazards

`PROJECT.json` lists what can go wrong here that a test would hardly reach, at the line where it bites, with the
properties that would catch it. Hazards of components not yet modelled are listed too, without a property; they set the order of the plan.

## 2 Modules, and how they correspond to the code

| Module | Models | Uses |
|---|---|---|
| `EventSequencer` | `event_sequencer.rs` as operators on a Session record; `EventEnvelope::validate` of the protocol crate | |
| `TimelineProjection` | `public_timeline_projection.rs` as operators on a view record | `EventSequencer` |
| `TimelineJournal` | journal, sequencer in memory, the call under way, process stops, deletion | `TimelineProjection` |
| `TimelineJournalProps` | properties of `TimelineJournal`; the refinement of `EventLog` | `TimelineJournal`, `EventLog` |
| `EventLog` | what a reader is promised: the abstract append-only log | |
| `TurnExecution`, `TurnExecutionProps` | `turn_start_stream`, `run_turn`, the ledger of acknowledgements | `EventSequencer` |
| `IdentityAllocation` | `allocate_id` and the operations that store what it names | |
| `TimelineSubscription` | the subscription registry, its handlers and the client's cursor | |
| `RuntimeControl` | reader and dispatcher threads, `RuntimeControl`, the rounds of `run_turn` | |
| `WorkspaceEdit` | `apply_workspace_edit`, call by call, beside another program | |
| `BackgroundJobs` | a job, its lease, its process and the scheduler that looks at them, with several runtimes | |
| `Terminals` | the manager, the records, their mutex, the processes and rings, the Session they belong to | |
| `MC*` | small instances: requests, frames, symmetry | the module they are named for |
| `EventSequencer_proofs` | lemmas about the sequencer's operators (section 4) | `EventSequencer` |
| `*_proofs` | theorems (section 4); `TurnExecution_proofs` also has those of `IdentityAllocation`, whose names are therefore its own (`AllocationSpec`, `process`, …) | the module they are named for |

**EventSequencer.** `Prepare` is `EventSequencer::prepare` with `apply`, `apply_item`, `validate_requested_shape` and `finish`; it
returns the outcome, the envelope and the Session as it would be, and changes nothing: `PreparedEvent` holds the same. `IsStale` is the
compare of `commit`. The table `EventShapes` is the match of `validate_requested_shape`; `NextItemPhase` is the match of `apply_item`,
arm by arm. An event's identifier is a digest of its other fields, so the envelope stands for it; kind and role are one
"shape"; an Item's content is left out. `MaxSafe` is `MAX_SAFE_JSON_INTEGER`, made small.

**TimelineProjection** derives from Item *states* what the sequencer derives from its *phases*, as the code does: the two are
independent readings of one protocol, and `OnlyLimitsRefuseACut` compares them. What `validate_for_session` and `validate_floor_snapshot` ask is split in two: how many
Turns and Items there may be (`CheckpointFits`, `FloorFits`, with the limits as constants) and everything else (`CheckpointIsSound`, `SnapshotIsSound`).

**TimelineJournal.** One action per step of a call: `PrepareEvent` (or `PreparePreview`, six events staged on a copy of the
sequencer), `AppendCall` (one SQLite transaction, with every check of `append_event_tx`) or `AppendFails`, `CommitCall`, `EmitEvent`
(one event at a time). `CursorMayPass` is the `CHECK` on the cursor's `next_sequence`, by which the last safe integer, which `finish` gives out, never enters the journal. `Crash` loses the sequencer and the call;
`Restart` is `restore_all`, all Sessions or none, with the limits on events and the validation of cursor, checkpoint and floor snapshot (`JournalIsRestorable`). `Prune` is
`checkpoint_and_prune_tx`, which validates, projects, replays and cuts in one transaction; `ItemsAreDistinct` is the `UNIQUE(session_id, item_id)` of the stored snapshot. It exists and is tested but is
marked `allow(dead_code)`: nothing invokes it in production yet, and the model checks that it could be. `Purge` empties the journal and leaves the
sequencer in memory alone, as `purge_session_deletion` does. `log` and `emitted` are history: what was ever durable, and what clients saw.

**TurnExecution.** A call goes through `Reserve` (or `Repeat`, `Refused`), `TurnStarted`, `Greet` (the user's Item, then the answer and the
start), streaming (`ItemStarted`, `ItemDelta`, `ItemCompleted`, `Observe`), the end (`TurnEnds`, `TurnEndsUnheard`,
`AnotherTurnEnds`, `AdapterFails`) and the settlement (`GiveUp`, `RetryTerminal`, `CloseTurn`, `Abandon`, `Finish`). `call` holds the
handler's locals: `error` is `persistence_error`/`sequence_error` by what they lead to, `pending` is `PendingTurnTerminal`, `trace` the
accumulator that is taken before the first attempt to persist the end. Every write to the store has an alternative in which the store refuses it. `run_turn` writes to the provider's
standard input on its own thread and without a deadline: `writing` says that it is in such a write (`WriteBegins`, `WriteReturns`), and meanwhile nothing of its loop happens (`Loops`).
Session is one record for sequencer and journal: that they agree is what `TimelineJournal` shows. The negotiated
capability of durable mutation acknowledgements is assumed. The preview backend's Turns are in `TimelineJournal` only.

**IdentityAllocation** keeps the counter, the set of stored identities and what an operation takes from the counter and in which order; a
refused operation uses its numbers up.

**TimelineSubscription.** Each handler of `timeline/subscribe*` is one action with its answer; `PublishTo` is `publish_event`. The
event of number *n* is *n*: content does not matter to who gets what. Requests can name any position, be early, late or
repeated; every failure takes the code's way out (retire the attempt, or fail the connection when no live subscription
could be told). `belief`, `base` and `received` are the client: what it was told and what it was given.

**RuntimeControl.** `ReadFrame`, `ReaderServes`, `ReaderStops`, `Fail` are the reader; `Serve`, `MainServesControl`, `MainEnds`,
`MainBreaks` the dispatcher; `TurnStarts`, `Poll`, `Drain`, `Receive`, `TurnReturns`, `FinishTurn` a Turn as the
dispatcher executes it. Each write to the provider is a state the thread is in (`Writing`) until it returns, if it does (`InterruptWritten`, `SteerWritten` for one of the steers in `drained`,
`AnswerWritten`). Steps are split where a lock is dropped: a control request is claimed in one and served in another. The gate's lock is held
by the dispatcher while it serves, so `Fail` waits for `main.at = "idle"`.

**WorkspaceEdit.** A file is an entry in `dir` (a name) and a number whose bytes are in `content`: hard links share the number, so a
backup of a file that another program rewrites in place changes with it, and one that is replaced does not. `phase`, `op` and `todo` are
where `apply_with_fault` stands; `StepsOf` is the order of the calls of `commit_operation`, and each call is a step (`Check`, `MakeBackup`,
`RemoveFile`, `Install`, `Unstage`), which may fail (`StepFails`). `RollBack` goes through the undo journal backwards, compares (`Compare`) in one step and
removes or links back in later ones. `SaveInPlace`, `SaveAnew` and `DeleteFile` are the other program, bounded in number; `Stop` is the end
of the process at any point. `noticed` remembers what the transaction has read, so that `KnownSavesSurvive` can say: what it has
seen to be someone else's it never destroys. Operations of one edit are on different paths, as `validate_contents` has it.

**BackgroundJobs.** Each operation of `BackgroundJobState` gives the set of states it may lead to, empty when it is refused, and ends in
`apply_update`, which validates. `UpdateJob` is the store's transaction: it compares its row with what the caller started
from, asks the table of events and writes. `copy` is what the followed runtime read, at any earlier time; the others act on what they have just read, which is
the case the compare lets through. A generation stands for the identity digest of the state. `ObserveJob` and `ObserveLease` are one refresh in
its two queries, `Recordable` is what `append_background_recovery_decision` accepts. Nothing in production calls this code but the inspection at
startup, so the operations come in any order their checks admit.

**Terminals.** One action per section under the mutex: requests with one section are one action (`List`, `Read`, `Signal`, `Restart`), those that
give it back in between are two (`OpenChecks`/`OpenSpawns`, `RemoveChecks`/`RemoveTakes`), and those during which others may move hold `lock` (`StopBegins` to `StopEnds`,
`InputBegins` to `InputEnds`, the two snapshots of an excerpt). An open or a restart ends in one of four ways (`SpawnEnds`): refused before the spawn; failed after it with the shell dropped and not
killed; failed with the terminal in the manager, because the snapshot it answers with cannot be taken; or well. `lost` is history: the identities of which an `open_user` failed after its spawn. `SnapshotFails` is the same failure of `poll_exit` at the
end of a stop or an excerpt. The reader of a terminal takes no lock but the ring's, so `ReadOutput` may come
anywhere. The processes are a shell and one job; they die when they like, and a signal changes nothing but what KILL is known to have been sent to (`killed`).
A byte of output is its position in it. That a refresh of all terminals happens in one section is the code's own `validate_open_identity` and `terminal_list`.

**Faulty variants.** Next to some definitions stands a variant with a plausible bug (`PruneBelow`, `Release`, `ClaimIfQueued`, …). No
specification uses them. Each replaces the definition beside it to show that one property notices (`mutants` of `PROJECT.json`): every property of every passing run
has one.

## 3 Model checking: runs, bounds, fairness

| Run | Instance | Distinct states | Shows |
|---|---|---|---|
| `TimelineJournal_lifecycle` | 1 Session, 2 Turns, 3 Items, 8 requests, 4 events retained of 5, numbers to 6, checkpoints of 1 Item, floors of 2 Items, clock {1, 2}, no stops, prune anywhere | 55,372 | `RestoreIsFaithful`, `PreparedEventsFit`, `PruneIsSafe`, `TurnsAreWellFormed` |
| `TimelineJournal_crash` | 2 Sessions, 1 Turn and 1 preview Turn of six events, limits 6 per Session and 7 in all, clock {1}, 1 stop, deletion | 25,813 | `JournalIsSound`, `SequencerFollowsJournal`, `PreviewTurnsAreWhole`, `PurgeIsFinal`, refinement of `EventLog` |
| `TurnExecution_call` | 2 keys, 2 Turns, 1 provider Item in two shapes, 2 observations, 1 stop, 7 events, writes that block | 202,951 | `LedgerIsSound`, `TurnsEndOnce`, `AtMostOneDispatch`, `AnswersAreTrue`, `CallsEnd`; no deadlock |
| `IdentityAllocation` | numbers to 4, 2 restarts | 462,699 | `RefusalsAreBounded`, `OnlyThePastRefuses` |
| `TimelineSubscription` | 2 Sessions, 2 identities, 3 events, pages of 1, 2 held events, 2 connections | 110,281 | `RegistryIsSound`, `NothingIsSkipped`, `SubscribersAreCurrent`, `ClientKnows` |
| `RuntimeControl` | 4 frames of 6 methods, 2 Turns, 1 repeated identity, queue of 2, steer queue of 1, writes that block | 244,005 | `ConnectionIsSound`, `RequestsRunOnce`, `ControlsHitTheirTurn`, `ControlsArrive`, `RequestsAreAnswered` |
| `WorkspaceEdit` | 2 operations of any kinds, 2 saves by another program, 2 failed calls, 1 stop | 701,855 | `WorkspaceIsSound`, `AllOrNothing`, `ReportsAreTrue`, `KnownSavesSurvive` |
| `BackgroundJobs` | 2 runtimes, 2 attempts, 1 process, clock to 2, 4 changes of the job, 2 of the lease | 2,308,167 | `RowsAreSound`, `RetriesAreSafe`, `EveryJobCanEnd`, `DecisionsAreSound`, `CancelIsNotLost` |
| `Terminals` | 2 terminals (1 with output, a job, restarts and failures after its spawn), ring of 2, 3 bytes, 2 lives | 627,704 | `EntriesAreSound`, `QuietWhenPutAway`, `ExcerptIsExact`, `StopIsThorough`, `OnlyRestartsDouble`, `StopsEnd` |
| `TimelineJournal_resume` | 1 Session, 1 stop | | violates `NewTurnsAfterRestart` (section 5) |
| `TurnExecution_correlation` | 2 keys, 2 Turns | | violates `ExactTurnCorrelation` |
| `RuntimeControl_steer` | 3 frames, 1 Turn | | violates `AcceptedSteersAreApplied` |

A property that is a conjunction of named parts (`PruneIsSafe`, `TurnsEndOnce`, `ControlsArrive`, …) is one question asked of one state from two
sides; the parts stand before it, each with what it says of the code.

**Why the bounds are enough.**

- *Journal.* Five events are the shortest history in which a Turn with a streamed Item ends and a second Turn starts after it, and
  a sixth number, `MaxSafe`, is given out by the sequencer and refused by the journal; `MaxSafe` bounds revisions and times, too. Four events may be retained, so
  the journal is full in the middle of a Turn and must be pruned there. The instance has a streamed
  Item and an updating one (`usage.truncated`, which ends one like `item.completed` does, is left to the theorems), and shares an identifier between the usage Item and the error Item, so a clash is possible, in one Turn and between two. A checkpoint of one Item and a floor of
  two refuse cuts in some histories and not in others; the limits on Turns are not reached with two (the theorem has them at any size). In the run with stops a preview Turn
  of six events just fits a Session, but not beside an event of its own Session (limit 6) nor beside two of another (limit 7), so both
  limits are reached in the middle of Turns. In the first run the two clock readings come in any order; in the run with stops
  the clock stands still, and that times stay in order across a restart is the theorem `HistoryIsContiguous`. One stop falls at every step of every call, of what
  was started before and, the history being kept, of what is replayed after it.
- *Turn execution.* Two keys and two Turns: one Turn can be given up while the provider works on, and the next is
  started on the same thread. One provider Item in two shapes is enough for the adapter's open Items to differ from the sequencer's. `MaxSafe` lets a whole
  Turn with a report and its failure be sequenced, and run out of numbers in the second. The clock stands still here; that it may go back is
  the journal's subject.
- *Identities.* The largest operation takes three numbers, so numbers to 4 let operations overlap what is stored in every way; two restarts give a process
  that starts behind two former ones.
- *Subscriptions.* Pages of one event make recoveries of several pages; two held events overflow with three; two identities on one
  Session conflict, on two Sessions share the counter.
- *Control.* Four frames hold a start, its cancellation or steer and either a second start or a repetition, after the handshake; a queue of two is full
  while a Turn runs, and lets a control request be queued behind the handshake and served by the dispatcher.
- *Workspace edits.* Two operations give one that is committed while the other is not, and an undo journal of two; all sixteen pairs of kinds are covered. Two saves and a
  deletion let another program change a file before and after it was compared, by rewriting and by replacing it. Two failures: one starts the
  rollback, the other meets it.
- *Background jobs.* Two attempts and one process: a process of the first can be met under a lease of the second. Two owners: the observer and another.
  A clock of two with a time to live and a backoff of one has a before and an after for each deadline. Four changes of the job are enough to run, be asked
  to cancel, fail and be retried; with two of the lease a lease is taken and then bound,
  rebound, renewed, released or lost, which the proofs of section 4 extend to any number.
- *Terminals.* A ring of two under three bytes drops one byte, at the moment an excerpt of one, with one byte read ahead, is between its two snapshots. One terminal (`Chatty`) has
  output, a job beside its shell, a second life, and an `open_user` or a snapshot that fails; the other one is there to be opened beside it. Both threads stop, both foreground.

`CHECK_DEADLOCK FALSE` is set where the system may really stop: bounded histories end (`TimelineJournal`, `TimelineSubscription`,
`IdentityAllocation`, `WorkspaceEdit`, `BackgroundJobs`, `Terminals`), and the runtime ends (`RuntimeControl`). The run of `TurnExecution` checks deadlock.

Symmetry is used for identifiers no definition distinguishes (Turns in `TimelineJournal_lifecycle`, as no request names one; Sessions and
subscription identities in `TimelineSubscription`), and in no run with a liveness property.

**Fairness.** Where nothing is assumed but what the code's own scheduling gives:

- `TurnExecution!FairSpec`: the handler goes on with its own steps (answering, settling), and `run_turn` returns by `REQUEST_TIMEOUT` or
  `TURN_TIMEOUT`. The deadline is read once in each round of the loop, between two writes to the provider, so it is strongly fair: it is taken if it is possible again and again, and a write that does not return
  keeps it from ever being possible. No fairness is assumed of `WriteReturns`, nor anything of the provider, the store or the client. `CallsEnd` therefore has the premise `WritesReturn`, that the thread is outside a write
  again and again; without it TLC finds the provider that stops reading. It holds because both deadlines stay armed
  after an interruption was requested.
- `RuntimeControl!FairSpec`: weak fairness of the reader's serving step and of its fault, of the dispatcher's steps and of the rounds of
  `run_turn` (each waits at most 100 ms for a message). A Turn need not start or end, a write to the provider need not return, and the client need not send.
  `ControlsArrive` holds in a Turn that goes on for ever: an acceptance is answered whatever the provider does, and the cancellation reaches the provider under the premise `WritesReturn`. `RequestsAreAnswered` has the premise that Turns end
  (`TurnsEnd`), which is what the deadlines of `run_turn` provide as long as its writes return.
- `Terminals!FairSpec`: weak fairness of the next signal and of the end of a stop, for each thread, since each of the three waits of a stop is
  bounded by `STOP_SIGNAL_GRACE`. Nothing is assumed of the processes, which may ignore every signal but KILL and outlive even that, and nothing of a
  write to a shell that does not read: `StopsEnd` is about a stop that has begun.

**What the runs show about the ordering of writes.** The order *prepare, append, commit, emit* carries most of the journal's
properties: a stop after the append leaves the journal one call ahead of everything else, and replay catches up; a stop before it leaves nothing. `SequencerFollowsJournal` says that this one
call is the only difference there ever is, hence that a commit is never refused as stale after its row is durable (`prepared-event-stale`): the code would report such a call as failed although
its event is in the journal, and every later append of the Session would be refused.

## 4 Proofs

Checked by tlapm with Z3, Zenon and LS4; no step is taken on trust. They hold for every finite set of Sessions, Turns and Items, every
set of requests, every clock, all limits and any number of process stops, under the named `ASSUME`s of the modules (`SequencerAssumption`,
`ProjectionAssumption`, `JournalAssumption`, `ExecutionAssumption`, `ControlAssumption`, `SubscriptionAssumption`, `AllocationAssumption`,
`BoundsAssumption`, `JobsAssumption`, `NoneAssumption`, `EditAssumption`), which say that constants are finite sets, natural numbers and well-formed requests, and
that "no file" is no content (`EditAssumption`). Two
conjuncts of `JournalAssumption` deserve a word. The Items of a preview Turn are no caller's (`preview_turn` draws their identities from
the allocator). And the five event names of `PreviewNames` are strings: TLC knows, but tlapm has no rule for the type of a string literal.

Every invariant and every action property of the passing runs is a theorem; what the runs alone show is the four liveness properties.

`EventSequencer_proofs` has the lemmas: what `Prepare` returns is the last event of the Session it returns, exactly what it changes
(`PreparedMoves`, `PreparedExactly`: one Turn, of it at most one Item unless the Turn ends, and the phases it may go between), that preparing an event again as `replay_event` does gives the
same (`ReplayExactly`); facts about concatenations, suffixes and histories.

`TimelineJournal_proofs`:

| Theorem | States |
|---|---|
| `IInvIsInvariant` | `Spec => []IInv` |
| `TypeIsCorrect` | `Spec => []TypeOK` |
| `HistoryIsContiguous` | `Spec => []LogIsContiguous` |
| `JournalStaysSound` | `Spec => []JournalIsSound`, the two together |
| `CommitIsNeverStale` | `Spec => []SequencerFollowsJournal` |
| `WhatIsEmittedIsDurable` | `Spec => []EmittedIsDurable` |
| `JournalImplementsTheLog` | `Spec => ImplementsEventLog` |
| `PurgedStaysPurged` | `Spec => PurgeIsFinal` |
| `HistoriesReplay` | `Spec => []ReplayInv` |
| `HistoriesAreWellFormed` | `Spec => []TurnsAreWellFormed` |
| `RestoreStaysFaithful` | `Spec => []RestoreIsFaithful` |
| `PreparedEventsAlwaysFit` | `Spec => []PreparedEventsFit` |
| `PreviewTurnsStayWhole` | `Spec => []PreviewTurnsAreWhole` |
| `PruningStaysSafe` | `Spec => []PruneIsSafe` |

None of the properties is inductive by itself. Whether emitting keeps `EmittedIsDurable` depends on where the pending call's events
stand in the history, and that depends on the append, which depends on the head being the last event. `IInv` ties these together:

1. the head is the last event of the history of a Session that is not purged, and the rows are its part above the floor (`HeadIsLast`);
2. histories are numbered from one in the order of their times, and what was emitted is in them, in order;
3. a prepared call still stands on the sequencer it was prepared from (`CallIsPrepared`); an appended or committed one is the end of its
   Session's history, above all that was emitted, and its Session is not being deleted (`CallIsPending`, `CallIsAppended`);
4. the sequencer of every other Session is at the head (`SequencerIsAtHead`), and without a runtime there is no call.

Each action keeps it (one lemma per action). The append is the only action that extends histories, and there the journal's own guards
(`ValidEnvelope`, `FollowsHead`), not the sequencer's good behaviour, give types and numbering: the proof shows which of the two layers each property rests on.
As far as `IInv` goes, the restart rests on `RestoreCompletes`, which compares the replayed head with the cursor's; what the replay gives is the next question.
The refinement maps `published` to `emitted` and `closed` to the purged Sessions; appending maps to `AppendEvents`, emitting to `Publish`, purging
to `Close`, everything else to a stutter.

Of the journal's checks, `PreparedEventsFit` shows each but one to be implied by what the sequencer gives; the one is `CursorMayPass`, and the theorem says exactly when it refuses. That the journal is restorable takes a small invariant of the store (`StoreInv`): the floor snapshot was validated when it was written, and
what is retained is within the limits `HasRoom` keeps.

`RestoreIsFaithful`, `PreparedEventsFit`, `TurnsAreWellFormed` and `PruneIsSafe` are about folds over histories of any length. Since no induction theorem of the library can be used, the
induction is done by hand: a set of numbers (or of subsets) where something fails would have a least member, which the library's `WFMin` gives
(`LeastSubset`, `CountUp`). This shows that the library's folds exist and are walks from the first event to the last (`FoldExists`, `FoldIsWalk`). What follows works with the unrolled form, a function from each number of events to the state reached (`Runs`), and steps from one to the next by a lemma about the
operator concerned. `ReplayInv` then adds to `IInv`:

1. every history replays from nothing, to the state `StateAfter(log[s])` (`HistoryReplays`);
2. the checkpoint is `CheckpointOf` the state at the floor, or empty after a purge (`FloorIsReached`);
3. the sequencer and the state at the head are the `Same`, up to the Items of Turns that have ended, which a checkpoint forgets and no rule
   of `Apply` reads (`SequencerIsReached`): this is why a restart restores a state that behaves the same and yet is not equal;
4. a prepared call replays on the sequencer and leads to its candidate (`CallReplays`).

A Turn's phase then tells what its Session's history holds of it (`PhasesTell`), which gives `TurnsAreWellFormed`; and a checkpoint passes
`validate_for_session` because a running Turn has at least as many events behind it as its Items have revisions (`Counted`).

`PruneIsSafe` compares the two readings of the protocol, the sequencer's and the projection's. `Matches` relates a Session record to a view: the same anchor, the same
phase of each Turn, and for each Item of it a state, revision and shape that go with the sequencer's phase (`ItemLooks`). It is kept by each event that replays, and while it holds, an event that replays
is one the projection `Applies` (`FollowedApplies`, over the table `EventShapes`). That the view of every prefix is a `ValidSnapshot` takes an invariant of the views themselves: first and latest events of
Items lie within their Turn, no two Items share one, Turns are in order and the running one is last (`OtherTurnsAreBefore`, `TurnsStayOrdered`, `ItemsStayPlaced`, `OpenItemsStayRecorded`). `ViewInv` finally says that the
floor snapshot is the view of the history up to the floor. So a cut is refused by the three limits on what is kept and by nothing else (`OnlyLimitsRefuseACut`, an equivalence).

`PreviewsEnd` is about the six events of a preview Turn: whatever is in the history or prepared and contains the Item of the user's message contains
the end of its Turn behind it. It is the one invariant that looks at the batch as a whole, and it fails when a transaction holds less than the batch.

`TurnExecution_proofs` ends with the theorems of `IdentityAllocation`: `IdentityTypes`, `OnlyFormerProcessesRefuse`, `RefusalsEnd` (`refused <= Cardinality(atStart)`), of `AllocationSpec`.
The two specifications are separate: no theorem relates their variables. Every identity in the tables that was not there when the process started
is at or below the counter, so a refusal is caused by an older one beyond the counter; and each refusal moves the counter past at least one of
those, so their number bounds the refusals (by cardinality of the identities the counter has passed).

`Terminals_proofs`, for any terminals, rings, excerpts and numbers of restarts:

| Theorem | States |
|---|---|
| `TerminalTypes`, `RecordsAlwaysMatch`, `EntriesStaySound` | `Spec => []TypeOK`, `Spec => []RecordsMatch`, and both as `EntriesAreSound` |
| `PutAwayIsQuiet` | `Spec => []QuietWhenPutAway` |
| `StopsAreThorough` | `Spec => StopIsThorough` |
| `OpensNeverDouble` | `Spec => OnlyRestartsDouble` |
| `ExcerptsAreExact` | `Spec => []ExcerptIsExact` |

`IInv` says of each identity that it has a terminal and a record, which agree in their generation and are tidy, or neither, or, if it is `lost`, perhaps a terminal alone (`Entries`), of each thread
what it may hold between two sections (`Works`: an open has chosen an identity nobody else can take, a removal
and a stop hold a terminal that is still there), and that a Session that is put away has no busy record. The last part is the point: archiving looks at
records, not at processes, and a record that says "stopping" counts as busy. Two more invariants carry the action properties: after the last signal of a
stop what lives of its groups has been killed (`KillHolds`), and what the first section of an open found is still so at
the second although the mutex was free in between (`Alone`): no other request of the runtime thread can come in, and the control thread only stops.
For excerpts, each byte of a ring stands at its position (`Positioned`), and between the two snapshots the range that
was measured begins no lower than the ring then did, is no longer than asked, and ends no higher than the ring (`MeasureFits`): the output only grows, so the second snapshot finds each byte it hands out where the first one counted it, or refuses.

`BackgroundJobs_proofs`, for any number of runtimes, attempts, processes and changes:

| Theorem | States |
|---|---|
| `RowsStaySound` | `Spec => []RowsAreSound` |
| `RetriesStaySafe` | `Spec => []RetriesAreSafe` |
| `JobsCanEnd` | `Spec => []EveryJobCanEnd` |
| `DecisionsStaySound` | `Spec => []DecisionsAreSound` |
| `CancelsAreKept` | `Spec => CancelIsNotLost` |

What `validate` checks is not enough for an operation to keep it: of the attempts it only counts those that run, and it looks at the last one. `Sound` adds
that every attempt but the last was repeatable, so the one that runs is the last (`OpenIsLast`), which is the one `finish_active_attempt` writes. One lemma per
operation then gives a sound state, an event of the store's table and an answer to a cancellation (`Step`). For the rest `IInv` says that
what a runtime holds of a job is the row itself or of an earlier generation (`Older`): a process, a lease or a copy bound to the
present generation is of the present attempt, and one of an earlier generation is bound to nothing until it is rebound, which asks for the attempt. What a refresh
found of a lease is so while the lease has the number it had (`Remembered`).

`RuntimeControl_proofs`, for any frames, capacities and numbers:

| Theorem | States |
|---|---|
| `ConnectionStaysSound` | `Spec => []ConnectionIsSound` |
| `RequestsRunAtMostOnce` | `Spec => []RequestsRunOnce` |
| `ControlsStayWithTheirTurn` | `Spec => []ControlsHitTheirTurn` |

A frame that was read is at one place: with the reader, in the queue, with the dispatcher, or done (`QueueFits`, `ReaderFits`, `MainFits`); so none is
answered twice. Whatever is or was served has claimed its identity, and no two frames served have the same (`ClaimsFit`): this is what holds when a control request is claimed by the
reader in one step and an equal one by the dispatcher in another. The record of controls is there exactly while the dispatcher is in a Turn and names that
Turn or none (`ActiveFits`); a cancellation in force and every queued steer was accepted for it, and what the provider was given, what the loop has drained and not yet written, and what is queued are one ascending sequence.

`TurnExecution_proofs`, for any keys, Turns, Items and process stops:

| Theorem | States |
|---|---|
| `LedgerStaysSound` | `Spec => []LedgerIsSound` |
| `TurnsAlwaysEndOnce` | `Spec => []TurnsEndOnce` |
| `KeysAreDispatchedOnce` | `Spec => []AtMostOneDispatch` |
| `AnswersStayTrue` | `Spec => []AnswersAreTrue` |

While a call is under way its key is the only accepted one (`OnlyCallIsAccepted`), and unless its end is durable already (`Settled`) its Turn is running (`Underway`), hence no other
Turn is. Every way out of the call either ends that Turn in the transaction that closes the key, or leaves the runtime unusable, and the restart marks what is accepted. An operation is terminal exactly when its Turn has
ended, and an emitted end is the Turn's phase (`LedgerFits`, `EmittedFits`): a second end would have to change a phase that `Prepare` never leaves.

`TimelineSubscription_proofs`, for any Sessions, subscriptions, connections and limits:

| Theorem | States |
|---|---|
| `NothingIsEverSkipped` | `Spec => []NothingIsSkipped` |
| `SubscribersStayCurrent` | `Spec => []SubscribersAreCurrent` |
| `ClientAlwaysKnows` | `Spec => []ClientKnows` |
| `RegistryStaysSound` | `Spec => []RegistryIsSound` |

What a client has of a Session is one run of events (`ViewFits`), and the attempt of that Session knows where it ends: at the page that is due while it
recovers, at the fixed head once that is complete, at the last event emitted once it is active; what was emitted after the fixed head is buffered in order (`AttemptFits`). Sessions have one attempt
each. For the limits, the counter of held events is the sum over the attempts (`RegistryFits`): each handler changes one term of the sum, and the counter by as much.

`WorkspaceEdit_proofs`, for any number of operations of any kinds, saves by another program and failing calls:

| Theorem | States |
|---|---|
| `WorkspaceStaysSound` | `Spec => []WorkspaceIsSound` |
| `EditsAreAllOrNothing` | `Spec => []AllOrNothing` |
| `ReportsStayTrue` | `Spec => []ReportsAreTrue` |
| `KnownSavesAlwaysSurvive` | `Spec => KnownSavesSurvive` |

`Recoverable` is not inductive: whether removing a file loses its content depends on the backup, whether dropping the backup does on what is under the file's own name, and
that on where in the transaction, and where in an operation, the code stands. `IInv` (checked by TLC on the run's instance before it was proved) has these parts:

1. `Course`: the journal holds the operations committed so far, in their order, and loses them from the end; what is left of an operation is one of the few
   suffixes of its calls, with or without an entry, or of the calls that undo it. It is also where each phase says whether there was a failure.
2. `DiskFits`: which inodes a name can be linked to at all: a stage, the new content; a backup, the old content or a save; nothing of another operation.
3. `Kept`, of a file nobody else has changed: with an entry its old content is under the name that undoes it (`Spare`: the backup, or the target of a rename); while
   the entry's last call is due, under its own name again; without an entry, under its own name, or under the spare one where an entry could not be undone.
4. `Followed`, of an undisturbed operation: it is `Original` without an entry and `Made` with one. This is `AllOrNothing`, said of every state.
5. `NewIsKnown` and `Leftover`: the Agent's content is at a target only with an entry, or where undoing was refused and so is not reported complete; a stage or backup that nothing is
   going to remove is in `reported`. These two give `ReportsAreTrue`.
6. `Known`: the transaction that has read what somebody else wrote has failed, so it only goes back; and what it is about to take away it has just compared and found not to be a save it has noticed.
   Hence no step of it takes a name from such a save (`KnownSavesSurvive`).

Each call of the transaction and each act of the other program keeps each part (one lemma per group of calls and part). The other program is the hard half: `SaveInPlace` changes every name of an inode at once,
backups included, which is why 3 and 4 speak of files that are not `touched`, 2 admits saves under a backup's name, and 6 has to hold of contents, not of names.

The proof also showed a fault of the model: `Verdict` was written as a `CASE` of which two guards could hold at once, where TLA+ leaves the choice open and TLC takes
the first. The code compares the backup before it looks at the target (`rollback_backup`), and the definition now says so; no other `CASE` of the modules overlaps.

**Only model-checked.** Liveness under fairness (`CallsEnd`, `ControlsArrive`, `RequestsAreAnswered`, `StopsEnd`) is out of TLAPS's reach: it needs `ENABLED` and the fairness conjuncts.
The three properties of section 5 are violated, and the runs show how.

## 5 Where code and documents disagree

Three runs end in a violation of what a specification document says. `PROJECT.json` quotes document and code.

- **A Turn left running by a process stop** (`TimelineJournal_resume`). The Session-management specification promises that a restart
  lets a Session append new Turns. A Turn that ran when the process stopped is restored as running and nothing appends its end, so `apply` refuses
  every further `turn.started` of the Session.
- **A late message joins the next Turn** (`TurnExecution_correlation`). Agent messages are correlated by thread, not by Turn; a Turn given up
  at its deadline is not interrupted, and what it still says is recorded in the next one.
- **An accepted steer is dropped** (`RuntimeControl_steer`). Steering is accepted while the Turn is active, and the queue is emptied only at the
  top of the loop; what arrives after the last round goes with the active Turn, with no event.

The models were written from the code, so other places where a document promises more show as what a model does, not as a run. They are listed for the
reader who compares; `docs/` and `openspec/` lines are of this commit.

- *Turns.* `turn/start` is specified to return an identity and to emit a start before the one
  terminal event (`agent-runtime-protocol/spec.md`, line 199). If the user's Item is refused by the store (`lib.rs`, line 13426) the handler has already made
  the Turn durable; it sends neither answer nor `turn.started`, and then persists and emits `turn.failed` (lines 14881-14898). `TurnExecution` has
  this behaviour (`Greet` fails, `CloseTurn`), and `TurnsAreSettled` holds in it: the Turn ends; it was only never announced.
- *Identities.* The counter behind `item-N` and `error-N` starts at zero in each
  process (`lib.rs`, lines 5558 and 19971), and the rows of former processes keep their names. A Turn the provider has accepted fails because its first Item's identity
  is taken (`workbench_store.rs`, line 25852). Repeating gets past it (`RefusalsAreBounded`), one refused operation at a time.
- *Workspace edits.* "A post-commit external rewrite is preserved instead of overwritten" (`verification.md`, lines 1702-1706) holds except between
  the comparison of a path and the call that removes it: `KnownSavesSurvive` is stated for what the transaction has looked at.
- *Background jobs.* A paused job whose cancellation was rejected cannot be resumed: `resume` asks for a cancellation that was never requested, although the
  specification (`background-multi-agent-execution/spec.md`, lines 74-75) has the scheduler resume or retry from a safe boundary. A lease that expired or was released is never
  taken again, and a registered process is never removed from its registry, so a retried attempt is not monitored but handed to the user (`DecisionsAreSound` holds:
  the decision is "manual"). `EveryJobCanEnd` is what remains true of such jobs: they can be cancelled.
- *Writes to the provider.* `write_codex_message` (`codex_adapter.rs`, lines 1598-1606) writes to the provider's standard input on the thread of the loop, with no deadline and no writer of its own. A provider
  that stops reading therefore holds the handler, and with it the dispatcher, for ever: neither `TURN_TIMEOUT` nor a cancellation, both read between writes, is seen. The channel its output comes in by is bounded (`codex_message_channel`), so a provider may stop reading
  because it cannot write. `CallsEnd` and `ControlsArrive` have `WritesReturn` as a premise for this reason; the end of a blocked call is not promised by the code.
- *Largest number.* `EventSequencer::finish` gives out 9007199254740991 (`event_sequencer.rs`, lines 785-789), and the cursor's `CHECK(next_sequence <= 9007199254740991)` (`public_timeline_journal.rs`, line 42) refuses the append that uses it:
  the Session ends one event earlier than the sequencer says, and a preview Turn that would reach it is refused whole (`PreparedEventsFit`).
- *Cuts.* A cut is refused when the view up to it has more than 10,000 Turns or Items, the checkpoint more than 100,000 of either, or when one Item identifier is in two Turns: sequencer and projection key Items by Turn, the stored snapshot by
  Session (`public_timeline_journal.rs`, line 131). What is visible never becomes less, so a Session that has once reached the floor's limits or repeated an Item cannot be cut there or later, and its journal fills. The store's own table of Items refuses a repeated
  identifier, too, but only of Items that are stored there, which a started one is not.
- *Orphaned terminals.* `open_user` puts the terminal into the manager and then takes a snapshot, which may fail (`terminal.rs`, lines 200-223); the error branches of an open and of a restart (`lib.rs`, lines 15644 and 15973-15977) do not remove it. Other failures after
  the spawn (lines 185-198) drop the shell without killing it. Neither has a record: list, restart, excerpt, archive, deletion and purge do not see it, and it may live in a Session that is archived or deleted. Who knows the identity can still read, signal, stop or remove a terminal that was kept. `RecordsMatch` and `QuietWhenPutAway` name this exception
  (`lost`) and admit no other.
- *Terminals.* A restart does not look for another foreground terminal, so two can run in a Session (`OnlyRestartsDouble` is stated around it; the
  task list, `tasks.md` line 1377, and `PROJECT-MEMORY.md`, line 2979, allow one). Restart, removal, purge and shutdown send HUP to the group
  in front and to the shell, then kill the shell alone (`terminal.rs`, line 656), so a job that ignores HUP lives on, whereas line 1377 has shutdown terminate
  every process tree; the escalation to TERM and KILL is that of stop requests. An input the shell does not read is written with the mutex held (`terminal.rs`, line 261), and until it returns no stop can begin, although
  `tasks.md`, line 1396, has stops out of band.

## 6 What is not modelled

- *Content*: prompts, payload, digests, byte sizes, formatting. Limits in bytes are left out: the size of an event, 16 MiB of a checkpoint, the bytes of a floor snapshot and the total of all checkpoints. They may refuse an append, a cut or a
  restore that the models permit; so may, in `restore_all`, `MAX_JOURNAL_SESSIONS`, 10,000 Sessions with a cursor (`public_timeline_journal.rs`, lines 2034-2053). `RestoreIsFaithful` and `OnlyLimitsRefuseACut` are about everything else these functions check.
- *Commands, file-change proposals, usage, plans, diffs* are reports (`Observe`) with a sequencer effect and none of their own.
- *Two Sessions with Turns at once* in `TurnExecution`: the dispatcher serves one request at a time.
- *Subscriptions* do not model identities bound to the wrong connection, or client-chosen watermarks.
- *Transport*: malformed or oversized frames, failing writes, bootstrap authentication. The client is assumed to read what it is sent; the provider is not.
- *Workspace edits*: a program that keeps a file open and writes to it later, and a loss of power (what `sync` is for). The review of an edit,
  its approval and the snapshots it may be restored from come before and after the transaction.
- *Background jobs*: what a job does. Notifications about it are written in the same transaction and read elsewhere.
- *Terminals*: the processes of a shell that was dropped; that a shell whose exit status cannot be read is not killed by its removal (`terminate_terminal`); the stripping of control sequences from an excerpt after its
  bytes were taken (`lib.rs`, lines 3213-3245), so that `ExcerptIsExact` is about the bytes, not the text; resizing, the Windows backend, and the desktop's side, which polls and draws.
- Everything listed under "Listed, not modelled" in section 1.

## 7 Plan

Modules come in the order of what could go wrong at the highest price: what is written twice without a transaction, then what outlives a process, then the rest.

1. **AuthoritySlots** (`authority_slot_publication.cpp`): two slots with generations, torn writes, selection. Abstract
   specification: an atomic register that survives stops. **CompanionActivation** (`companion_activation_journal.cpp`) composes two of them: reserve, write,
   commit over a record store and an authority store, with a stop or an unconfirmed write at each of three writes, and `finishReservedPhase` as
   recovery. To prove: selection never goes back; a committed phase is never lost.
2. **GitCommit** (`git_commit_transaction.rs`, `git_workflow_state.rs`): compare-and-swap of the reference, verification and rollback beside another
   mover of the reference; the record of the workflow and its reconciliation.
3. **StoreRecovery** (`workbench_store.rs`, `operation_reconciliation.rs`): which rows startup marks, in which order, and a second stop during it; the purge sweep and
   the deletions it must retain.
4. **ChildBudget**, **MutationReservation**: limits that are reserved, spent and given back; each a small state machine well suited to proof.
5. **DurableBlobs**, **UpdateProgress**, and **RuntimeClient**: the desktop's side of `TimelineSubscription` and
   `RuntimeControl` (reconnection, readiness, recovery), composed with them.
6. **Proofs** of each of these as they are modelled: selection of an authority slot never goes back, a committed reference is never lost, a budget is never overspent.
   The modules that exist have a theorem for every safety property their runs check.
