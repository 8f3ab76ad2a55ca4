--------------------------- MODULE BackgroundJobs ---------------------------
(***************************************************************************)
(* The life of one background job: its durable state (background_job.rs),  *)
(* the lease of the scheduler that looks after it                          *)
(* (background_scheduler_lease.rs), the process that does its work         *)
(* (background_process_observation.rs), and what a scheduler concludes     *)
(* from the three after a restart (background_scheduler.rs,                *)
(* background_recovery_decision.rs).                                       *)
(*                                                                         *)
(* Several runtimes may have the store open.  Each works on a copy of the  *)
(* job that it read or wrote at some time; the store compares it with its  *)
(* row before it changes anything, and so for the lease.  Job and lease    *)
(* change in different transactions, the registry of processes is in       *)
(* memory, and a runtime may stop at any point.  Nothing of this is called *)
(* in production but the scheduler's inspection, so the operations may     *)
(* come in any order their own checks admit.                               *)
(*                                                                         *)
(* A generation has one durable state, so it stands for the identity of    *)
(* that state.  The clock does not step back.  Evidence, approval and      *)
(* result references are left out, and so are the limits on the number of  *)
(* jobs and decisions: jobs do not depend on each other.                   *)
(***************************************************************************)
EXTENDS Naturals, Sequences, SequencesExt, FiniteSets

CONSTANTS
  Owners,         \* the runtimes
  Observer,       \* the runtime whose scheduler is followed
  None,           \* no lease, no process, no copy
  MaxAttempts,    \* JobRetryPolicy.max_attempts
  Backoff,        \* JobRetryPolicy.backoff_ms
  Ttl,            \* how long a lease lasts
  MaxTime,        \* bound: the clock
  MaxGeneration,  \* bound: changes of the job
  MaxLease,       \* bound: changes of the lease
  MaxSpawned      \* bound: processes

ASSUME JobsAssumption ==
  /\ Observer \in Owners
  /\ MaxAttempts \in Nat \ {0} /\ Ttl \in Nat \ {0} /\ Backoff \in Nat
  /\ MaxTime \in Nat \ {0}
  /\ MaxGeneration \in Nat /\ MaxLease \in Nat /\ MaxSpawned \in Nat

(* A receipt of the registry, and the row of a lease.                      *)
Processes == [pid : Nat, generation : Nat, attempt : Nat]
Leases ==
  [owner : Owners, generation : Nat, process : Processes \cup {None},
   status : {"active", "expired", "released"}, renewed : Nat, number : Nat]

ASSUME NoneAssumption == None \notin Nat /\ None \notin Leases

VARIABLES
  boundary,  \* the job has a safe boundary to pause at and to retry from
  now,       \* the clock
  job,       \* the row of the job
  lease,     \* the row of its lease
  copy,      \* the job as the observer last read or wrote it
  registry,  \* the process each runtime owns
  entry,     \* the observer's scheduler: what its refresh has read or found
  spawned    \* bound: processes so far

memory == <<copy, registry, entry>>
vars == <<boundary, now, job, lease, memory, spawned>>

Working == {"running", "pause_requested", "waiting_approval", "cancelling"}
Terminal == {"completed", "failed", "cancelled", "interrupted"}
Statuses == Working \cup Terminal \cup {"queued", "paused"}
Cancellations == {"not_requested", "requested", "acknowledged", "failed", "superseded"}

(* process_observation_required: a process should be there.                *)
Active == {"running", "pause_requested", "cancelling"}

LastAttempt(j) == Last(j.attempts)
Running(j) == j.attempts # <<>> /\ LastAttempt(j).status = "running"

Init ==
  /\ boundary \in BOOLEAN
  /\ now = 1
  /\ job = [status |-> "queued", cancellation |-> "not_requested", generation |-> 0,
            eligible |-> 1, attempts |-> <<>>]
  /\ lease = None
  /\ copy = job
  /\ registry = [o \in Owners |-> None]
  /\ entry = None
  /\ spawned = 0

-----------------------------------------------------------------------------
(* background_job.rs: each operation gives the states it leads to, one or  *)
(* none.                                                                   *)

(* Where a cancellation may be waiting.                                    *)
WaitsForCancel == {"queued", "paused", "waiting_approval", "pause_requested", "cancelling"}

(* validate_cancellation.                                                  *)
CancellationFits(j) ==
  CASE j.cancellation \in {"not_requested", "failed"} -> j.status # "cancelled"
    [] j.cancellation = "requested" -> j.status \in WaitsForCancel
    [] j.cancellation = "acknowledged" -> j.status = "cancelled"
    [] j.cancellation = "superseded" -> j.status = "completed"

(* BackgroundJobState::validate.                                           *)
Valid(j) ==
  /\ Len(j.attempts) <= MaxAttempts
  /\ \A a \in ToSet(j.attempts) : a.retryable => a.status \in {"failed", "interrupted"}
  /\ LET open == {n \in DOMAIN j.attempts : j.attempts[n].status = "running"}
     IN  Cardinality(open) = IF j.status \in Working THEN 1 ELSE 0
  /\ j.status \in {"queued", "paused"} /\ j.attempts # <<>> => LastAttempt(j).retryable
  /\ j.status \in {"completed", "failed", "interrupted"} =>
       j.attempts # <<>> /\ LastAttempt(j).status = j.status
  /\ j.status = "cancelled" /\ j.attempts # <<>> => LastAttempt(j).status # "running"
  /\ CancellationFits(j)

(* apply_update.                                                           *)
Updated(j, next) ==
  LET changed == [next EXCEPT !.generation = j.generation + 1]
  IN  IF Valid(changed) THEN {changed} ELSE {}
With(j, status) == [j EXCEPT !.status = status]

(* finish_active_attempt.                                                  *)
Finished(j, status, retryable) ==
  [j EXCEPT !.attempts[Len(j.attempts)] = [status |-> status, retryable |-> retryable]]

(* A cancellation that was still asked for when the job ended otherwise.   *)
Settled(j, otherwise) ==
  IF j.cancellation = "requested" THEN [j EXCEPT !.cancellation = otherwise] ELSE j

Start(j) ==
  IF /\ j.status = "queued" /\ j.cancellation = "not_requested"
     /\ now >= j.eligible /\ Len(j.attempts) < MaxAttempts
  THEN Updated(j, [With(j, "running") EXCEPT
                     !.attempts = Append(@, [status |-> "running", retryable |-> FALSE])])
  ELSE {}

RequestPause(j) ==
  CASE j.status = "queued" -> Updated(j, With(j, "paused"))
    [] j.status = "running" /\ boundary -> Updated(j, With(j, "pause_requested"))
    [] OTHER -> {}

AcknowledgePause(j) ==
  IF j.status = "pause_requested"
  THEN Updated(j, With(Finished(j, "interrupted", boundary), "paused")) ELSE {}

Resume(j) ==
  IF j.status = "paused" /\ j.cancellation = "not_requested"
  THEN Updated(j, [With(j, "queued") EXCEPT !.eligible = IF @ < now THEN now ELSE @]) ELSE {}

WaitForApproval(j) ==
  IF j.status = "running" THEN Updated(j, With(j, "waiting_approval")) ELSE {}

ResumeAfterApproval(j) ==
  IF j.status = "waiting_approval" THEN Updated(j, With(j, "running")) ELSE {}

RequestCancel(j) ==
  IF j.status \notin Terminal /\ j.cancellation # "requested"
  THEN Updated(j, [j EXCEPT !.cancellation = "requested",
                            !.status = IF @ = "running" THEN "cancelling" ELSE @])
  ELSE {}

AcknowledgeCancel(j) ==
  IF j.cancellation = "requested"
  THEN LET ended == IF Running(j) THEN Finished(j, "cancelled", FALSE) ELSE j
       IN  Updated(j, [ended EXCEPT !.status = "cancelled", !.cancellation = "acknowledged"])
  ELSE {}

RejectCancel(j) ==
  IF j.cancellation = "requested" /\ j.status = "cancelling"
  THEN Updated(j, [With(j, "running") EXCEPT !.cancellation = "failed"]) ELSE {}

Complete(j) ==
  IF j.status \in {"running", "cancelling"}
  THEN Updated(j, Settled(With(Finished(j, "completed", FALSE), "completed"), "superseded"))
  ELSE {}

(* The caller may call any failure retryable, but it is only with a        *)
(* boundary.  Faulty variant: the caller is believed.                      *)
FailOnTrust(j) ==
  IF j.status \in {"running", "waiting_approval", "cancelling"}
  THEN UNION {Updated(j, Settled(With(Finished(j, "failed", retryable), "failed"), "failed"))
                : retryable \in BOOLEAN}
  ELSE {}

Fail(j) ==
  IF j.status \in {"running", "waiting_approval", "cancelling"}
  THEN UNION {Updated(j, Settled(With(Finished(j, "failed", retryable /\ boundary), "failed"),
                                 "failed")) : retryable \in BOOLEAN}
  ELSE {}

CanRetry(j) ==
  /\ j.status \in {"failed", "interrupted"}
  /\ LastAttempt(j).retryable
  /\ Len(j.attempts) < MaxAttempts

Retry(j) ==
  IF CanRetry(j)
  THEN Updated(j, [With(j, "queued") EXCEPT !.cancellation = "not_requested",
                                            !.eligible = now + Backoff])
  ELSE {}

(* The restart of a runtime interrupts what was at work.                   *)
RecoverAfterRestart(j) ==
  IF j.status \in Active
  THEN Updated(j, Settled(With(Finished(j, "interrupted", boundary), "interrupted"), "failed"))
  ELSE {}

JobSteps(j) ==
  UNION {Start(j), RequestPause(j), AcknowledgePause(j), Resume(j), WaitForApproval(j),
         ResumeAfterApproval(j), RequestCancel(j), AcknowledgeCancel(j), RejectCancel(j),
         Complete(j), Fail(j), Retry(j), RecoverAfterRestart(j)}

-----------------------------------------------------------------------------
(* workbench_store.rs: the row of the job.                                 *)

(* What a retry is taken from.  Faulty variant: not from an attempt that a *)
(* restart interrupted.                                                    *)
RetriedShort == {"failed"}
Retried == {"failed", "interrupted"}

(* background_job_event_kind: every change is the change of an event, and  *)
(* one that is none is refused.                                            *)
HasEvent(prev, next) ==
  LET moves(from, to) == prev.status = from /\ next.status = to
  IN  \/ next.status \in Terminal
      \/ next.cancellation = "requested" /\ prev.cancellation # "requested"
      \/ moves("queued", "running")
      \/ moves("queued", "paused") \/ moves("pause_requested", "paused")
      \/ moves("paused", "queued")
      \/ moves("running", "pause_requested")
      \/ moves("running", "waiting_approval") \/ moves("waiting_approval", "running")
      \/ moves("cancelling", "running") /\ next.cancellation = "failed"
      \/ prev.status \in Retried /\ next.status = "queued"

(* The observer loads the job and may do so long before it acts; the       *)
(* others act on what they have just read.                                 *)
ReadJob ==
  /\ copy # job
  /\ copy' = job
  /\ UNCHANGED <<boundary, now, job, lease, registry, entry, spawned>>

Known(o) == IF o = Observer THEN copy ELSE job
Noted(o, j) == IF o = Observer THEN j ELSE copy

(* The row must still be the one the change started from.  Faulty variant: *)
(* it is not compared.                                                     *)
UnchangedRowUnread(o) == TRUE
UnchangedRow(o) == job = Known(o)

(* update_background_job_state with the result of one operation.  What the *)
(* observer found of the job before is of no use any more.                 *)
UpdateJob(o) ==
  /\ UnchangedRow(o)
  /\ Known(o).generation < MaxGeneration
  /\ \E next \in JobSteps(Known(o)) :
       /\ HasEvent(Known(o), next)
       /\ job' = next
       /\ copy' = Noted(o, next)
  /\ entry' = IF entry # None /\ entry.step = "found" THEN None ELSE entry
  /\ UNCHANGED <<boundary, now, lease, registry, spawned>>

-----------------------------------------------------------------------------
(* background_scheduler_lease.rs: a lease is bound to one generation of    *)
(* the job and to at most one process; each change has a number.           *)

(* require_current_owner.                                                  *)
IsOwner(o, l) == l.status = "active" /\ l.owner = o /\ now < l.renewed + Ttl

Numbered(l) == [l EXCEPT !.number = @ + 1]

(* The store records a renewal only when the time has moved.               *)
Renewed(o, j, l) ==
  IF IsOwner(o, l) /\ l.generation = j.generation /\ now > l.renewed
  THEN {Numbered([l EXCEPT !.renewed = now])} ELSE {}

(* bind_process: the receipt of the registry for this very state.  A bound *)
(* process is not replaced.                                                *)
Bound(o, j, l) ==
  IF /\ IsOwner(o, l) /\ l.generation = j.generation /\ l.process = None
     /\ j.status \in Active /\ registry[o] # None /\ registry[o].generation = j.generation
  THEN {Numbered([l EXCEPT !.process = registry[o]])} ELSE {}

(* rebind_job_state: to the next generation of the job, with the process   *)
(* registered for it or without one.                                       *)
Rebound(o, j, l) ==
  IF IsOwner(o, l) /\ j.generation = l.generation + 1
  THEN {Numbered([l EXCEPT !.generation = j.generation, !.renewed = now, !.process = p]) :
          p \in {q \in {registry[o], None} : q # None => q.generation = j.generation}}
  ELSE {}

(* expire: by any runtime.                                                 *)
Expired(l) ==
  IF l.status = "active" /\ now >= l.renewed + Ttl
  THEN {Numbered([l EXCEPT !.status = "expired"])} ELSE {}

Released(o, j, l) ==
  IF IsOwner(o, l) /\ l.generation = j.generation
  THEN {Numbered([l EXCEPT !.status = "released"])} ELSE {}

(* acquire, create_background_scheduler_lease: a job has one lease for     *)
(* ever.                                                                   *)
Acquire(o) ==
  /\ UnchangedRow(o) /\ lease = None
  /\ job.status \notin Terminal
  /\ lease' = [owner |-> o, generation |-> job.generation, process |-> None,
               status |-> "active", renewed |-> now, number |-> 1]
  /\ UNCHANGED <<boundary, now, job, copy, registry, entry, spawned>>

(* update_background_scheduler_lease: both rows must be as the runtime     *)
(* last read them, so the change is one of the rows as they are.           *)
UpdateLease(o) ==
  /\ UnchangedRow(o) /\ lease # None
  /\ lease.number < MaxLease
  /\ \E next \in UNION {Renewed(o, job, lease), Bound(o, job, lease), Rebound(o, job, lease),
                        Expired(lease), Released(o, job, lease)} :
       /\ lease' = next
  /\ UNCHANGED <<boundary, now, job, copy, registry, entry, spawned>>

-----------------------------------------------------------------------------
(* background_process_observation.rs: the registry, in memory.             *)

(* register_spawned_child.  An entry is never removed, so a runtime        *)
(* registers one process for a job.                                        *)
Spawn(o) ==
  /\ registry[o] = None /\ Known(o).status \in Active
  /\ spawned < MaxSpawned
  /\ registry' = [registry EXCEPT ![o] =
                    [pid |-> spawned + 1, generation |-> Known(o).generation,
                     attempt |-> Len(Known(o).attempts)]]
  /\ spawned' = spawned + 1
  /\ UNCHANGED <<boundary, now, job, lease, copy, entry>>

(* rebind_active_state: the process goes on with a later state of the same *)
(* attempt.  Faulty variant: of any attempt.                               *)
SameAttemptUnread(p, j) == j.status \in Active
SameAttempt(p, j) == j.status \in Active /\ p.attempt = Len(j.attempts)

RebindProcess(o) ==
  /\ registry[o] # None
  /\ Known(o).generation > registry[o].generation
  /\ SameAttempt(registry[o], Known(o))
  /\ registry' = [registry EXCEPT ![o].generation = Known(o).generation]
  /\ UNCHANGED <<boundary, now, job, lease, copy, entry, spawned>>

(* The runtime stops and another takes its place under the same identity   *)
(* and reads the job.  Drop ends the process.                              *)
Crash(o) ==
  /\ registry[o] # None
  /\ copy' = Noted(o, job)
  /\ registry' = [registry EXCEPT ![o] = None]
  /\ entry' = IF o = Observer THEN None ELSE entry
  /\ UNCHANGED <<boundary, now, job, lease, spawned>>

Tick ==
  /\ now < MaxTime
  /\ now' = now + 1
  /\ UNCHANGED <<boundary, job, lease, memory, spawned>>

-----------------------------------------------------------------------------
(* background_scheduler.rs: a refresh lists the jobs first and then loads  *)
(* each lease, in a query of its own.  A scheduler has one refresh at a    *)
(* time.                                                                   *)

(* load_background_jobs_for_recovery.                                      *)
ObserveJob ==
  /\ entry # None => entry.step = "found"
  /\ job.status \notin {"completed", "cancelled"} \/ (lease # None /\ lease.status = "active")
  /\ entry' = [step |-> "reading", job |-> job, time |-> now]
  /\ UNCHANGED <<boundary, now, job, lease, copy, registry, spawned>>

(* recovery_decision, of the job alone.                                    *)
Disposition(j, time) ==
  CASE j.cancellation = "requested" -> "manual"
    [] j.cancellation # "requested" /\ j.status = "queued" ->
         IF j.eligible > time THEN "await" ELSE "admit"
    [] j.cancellation # "requested" /\ j.status = "paused" -> "keep-paused"
    [] j.cancellation # "requested" /\ j.status = "waiting_approval" -> "keep-waiting"
    [] j.cancellation # "requested" /\ CanRetry(j) -> "retry"
    [] j.status \in Terminal /\ ~CanRetry(j) -> "terminal"
    [] OTHER -> "manual"

LeaseNumber == IF lease = None THEN None ELSE lease.number

(* classify_lease.                                                         *)
LeaseState(j, l, time) ==
  CASE l = None -> "missing"
    [] l # None /\ l.status # "active" -> l.status
    [] OTHER ->
       CASE time >= l.renewed + Ttl -> "expired"
         [] time < l.renewed + Ttl /\ l.owner # Observer -> "owner-mismatch"
         [] OTHER -> IF l.generation = j.generation THEN "current" ELSE "stale"

(* observe_for_scheduler: a process may have ended at any time, and the    *)
(* operating system may not tell.                                          *)
Observations(j) ==
  LET process == registry[Observer]
  IN  CASE process = None -> {"absent"}
        [] process # None /\ <<process.generation, process.attempt>>
                               # <<j.generation, Len(j.attempts)>> -> {"mismatched"}
        [] OTHER -> {"running", "exited", "inaccessible"}

(* classify_process_ownership.                                             *)
ProcessState(j, l, leaseState, observed) ==
  CASE j.status \notin Active -> "not-required"
    [] j.status \in Active /\ leaseState # "current" ->
         IF leaseState = "missing" THEN "lease-missing" ELSE "mismatched"
    [] OTHER ->
       CASE l.process = None -> "unregistered"
         [] l.process # None /\ observed \in {None, "absent", "inaccessible"} -> "unavailable"
         [] l.process # None /\ observed = "mismatched" -> "mismatched"
         [] OTHER -> IF l.process # registry[Observer] THEN "mismatched"
                     ELSE IF observed = "running" THEN "current" ELSE "not-running"

(* recovery_entry: what is at work is judged by its lease and process.     *)
Action(j, time, leaseState, processState) ==
  IF j.status \in Active
  THEN IF leaseState = "current" /\ processState = "current" THEN "monitor" ELSE "manual"
  ELSE Disposition(j, time)

(* refresh_internal, after the listing.                                    *)
ObserveLease ==
  /\ entry # None /\ entry.step = "reading"
  /\ \E observed \in {None} \cup (IF entry.job.status \in Active
                                THEN Observations(entry.job) ELSE {}) :
       LET leaseState == LeaseState(entry.job, lease, entry.time)
           processState == ProcessState(entry.job, lease, leaseState, observed)
       IN  entry' = [step |-> "found", job |-> entry.job, time |-> entry.time,
                     number |-> LeaseNumber, leaseState |-> leaseState,
                     processState |-> processState,
                     action |-> Action(entry.job, entry.time, leaseState, processState)]
  /\ UNCHANGED <<boundary, now, job, lease, copy, registry, spawned>>

(* BackgroundRecoveryDecision::validate.                                   *)
DecisionValid(e) ==
  LET j == e.job
  IN  CASE e.action = "manual" -> TRUE
        [] e.action = "monitor" -> /\ j.status \in Active
                                   /\ e.leaseState = "current" /\ e.processState = "current"
        [] e.action \in {"await", "admit"} ->
             /\ j.status = "queued" /\ j.cancellation # "requested"
             /\ e.action = "await" => j.eligible > e.time
        [] e.action = "keep-paused" -> j.status = "paused" /\ j.cancellation # "requested"
        [] e.action = "keep-waiting" ->
             j.status = "waiting_approval" /\ j.cancellation # "requested"
        [] e.action = "retry" ->
             j.status \in {"failed", "interrupted"} /\ j.cancellation # "requested"
        [] e.action = "terminal" -> j.status \in Terminal /\ j.cancellation # "requested"

(* validate_current_background_recovery_evidence.  Faulty variant: the     *)
(* lease is not compared.                                                  *)
EvidenceIsCurrentJobOnly(e) == e.job = job

EvidenceIsCurrent(e) ==
  /\ e.job = job
  /\ e.number = LeaseNumber

(* append_background_recovery_decision adds this to the journal, which     *)
(* nothing of this module reads.                                           *)
Recordable(e) == e # None /\ e.step = "found" /\ DecisionValid(e) /\ EvidenceIsCurrent(e)

Next ==
  \/ Tick \/ ReadJob \/ ObserveJob \/ ObserveLease
  \/ \E o \in Owners :
       \/ UpdateJob(o) \/ Acquire(o) \/ UpdateLease(o)
       \/ Spawn(o) \/ RebindProcess(o) \/ Crash(o)

Spec == Init /\ [][Next]_vars

-----------------------------------------------------------------------------
(* Every value has the shape its contract allows, and what a runtime holds *)
(* is not ahead of the row.                                                *)
TypeOK ==
  /\ boundary \in BOOLEAN /\ now \in 1..MaxTime
  /\ job.status \in Statuses /\ job.cancellation \in Cancellations
  /\ job.generation \in 0..MaxGeneration /\ job.eligible \in 1..(MaxTime + Backoff)
  /\ lease \in Leases \cup {None}
  /\ copy.generation <= job.generation
  /\ \A o \in Owners : registry[o] # None => registry[o].pid \in 1..spawned
  /\ entry # None => entry.job.generation <= job.generation

(* Between a request to cancel and the next recorded answer to it no       *)
(* runtime, whatever it last read, starts an attempt or lets the request   *)
(* fall: it is acknowledged or rejected, or the attempt ended first.       *)
CancelIsNotLost ==
  [][job.cancellation = "requested" =>
       /\ Len(job'.attempts) = Len(job.attempts)
       /\ \/ job'.cancellation = "requested"
          \/ job'.cancellation = "acknowledged" /\ job'.status = "cancelled"
          \/ job'.cancellation = "superseded" /\ job'.status = "completed"
          \/ job'.cancellation = "failed" /\ job.status # "queued"]_job

(* An attempt is started again only after one that ended at a point it may *)
(* be repeated from: retries never repeat work whose effects are unknown.  *)
RetriesAreSafe ==
  \A n \in 1..(Len(job.attempts) - 1) :
     job.attempts[n].retryable /\ boundary

(* The state machine of a job and the store's table of events agree: the   *)
(* store refuses no change that the state machine makes.                   *)
EveryStepHasAnEvent ==
  \A next \in JobSteps(job) : HasEvent(job, next)

(* A job that has not ended can always be brought to an end: its           *)
(* cancellation can be asked for, or acknowledged if it has been.          *)
CancellationIsAlwaysOpen ==
  job.status \notin Terminal => RequestCancel(job) \cup AcknowledgeCancel(job) # {}

(* No job is stuck: a way to its end is open, and the store lets it pass.  *)
EveryJobCanEnd == EveryStepHasAnEvent /\ CancellationIsAlwaysOpen

(* A lease binds a process only of the attempt it is bound to: however job *)
(* and lease move on in turn, a process of an earlier attempt is never     *)
(* taken for the work of a later one.                                      *)
LeaseBindsItsAttempt ==
  lease # None /\ lease.process # None /\ lease.generation = job.generation =>
     lease.process.attempt = Len(job.attempts)

(* The rows of job and lease, written apart, are sound and fit.            *)
RowsAreSound == TypeOK /\ LeaseBindsItsAttempt

(* What the store records is so when it is recorded, although job and      *)
(* lease were read apart and may each have changed since: a process is     *)
(* recorded as looked after only when the lease in the store is the        *)
(* observer's, for the job as it is, and a process is bound.               *)
DecisionsAgreeWithRows ==
  Recordable(entry) =>
    /\ entry.leaseState = LeaseState(job, lease, entry.time)
    /\ entry.action = "monitor" =>
         /\ Running(job) /\ job.status \in Active
         /\ lease.owner = Observer /\ lease.generation = job.generation
         /\ lease.process # None /\ lease.process.attempt = Len(job.attempts)

(* Whatever the scheduler concludes can be recorded: classification and    *)
(* validation are two tables in two modules.                               *)
DecisionsCanBeRecorded ==
  entry # None /\ entry.step = "found" => DecisionValid(entry)

(* Every decision can be recorded, and is true when it is.                 *)
DecisionsAreSound == DecisionsCanBeRecorded /\ DecisionsAgreeWithRows
=============================================================================
