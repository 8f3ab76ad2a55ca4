----------------------- MODULE BackgroundJobs_proofs -----------------------
(***************************************************************************)
(* The properties of a background job, for any number of runtimes,         *)
(* attempts, processes and changes.                                        *)
(*                                                                         *)
(* Two facts carry them.  A state the store has accepted is Sound, and     *)
(* every operation leads from a sound state to a sound one.  And whatever  *)
(* a runtime holds of a job, a copy, a receipt, a lease, an entry, is of   *)
(* an Older generation, or of the very row.                                *)
(***************************************************************************)
EXTENDS BackgroundJobs, FiniteSetTheorems, SequenceTheorems, TLAPS

Endings == {"completed", "failed", "cancelled", "interrupted"}
Attempts == [status : Endings \cup {"running"}, retryable : BOOLEAN]
Jobs ==
  [status : Statuses, cancellation : Cancellations, generation : Nat,
   eligible : Nat \ {0}, attempts : Seq(Attempts)]

(* Only the last attempt may be one that must not be repeated, and one is  *)
(* repeatable only if the job has a boundary.                              *)
RepeatedSafely(attempts) ==
  /\ \A n \in 1..Len(attempts) : attempts[n].retryable => boundary
  /\ \A n \in 1..(Len(attempts) - 1) : attempts[n].retryable

Sound(j) == j \in Jobs /\ Valid(j) /\ RepeatedSafely(j.attempts)

Older(j, row) ==
  /\ j.generation <= row.generation
  /\ j.generation = row.generation => j = row

-----------------------------------------------------------------------------
(* Attempts *)

OpenAttempts(j) == {n \in DOMAIN j.attempts : j.attempts[n].status = "running"}

LEMMA OpenIsFinite ==
  ASSUME NEW j \in Jobs
  PROVE  IsFiniteSet(OpenAttempts(j)) /\ OpenAttempts(j) \subseteq 1..Len(j.attempts)
<1>1. j.attempts \in Seq(Attempts)
  BY DEF Jobs
<1>2. Len(j.attempts) \in Nat /\ DOMAIN j.attempts = 1..Len(j.attempts)
  BY <1>1
<1>3. IsFiniteSet(1..Len(j.attempts))
  BY <1>2, FS_Interval
<1> QED
  BY <1>2, <1>3, FS_Subset DEF OpenAttempts

LEMMA ValidCounts ==
  ASSUME NEW j, Valid(j)
  PROVE  Cardinality(OpenAttempts(j)) = IF j.status \in Working THEN 1 ELSE 0
BY DEF Valid, OpenAttempts

(* What is repeatable has ended.                                           *)
LEMMA RepeatableHasEnded ==
  ASSUME NEW j \in Jobs, Valid(j), NEW n \in 1..Len(j.attempts), j.attempts[n].retryable
  PROVE  j.attempts[n].status \in {"failed", "interrupted"}
<1>1. DOMAIN j.attempts = 1..Len(j.attempts)
  BY DEF Jobs
<1>2. j.attempts[n] \in ToSet(j.attempts)
  BY <1>1 DEF ToSet
<1> QED
  BY <1>2 DEF Valid

(* The attempt that is open is the last one.                               *)
LEMMA OpenIsLast ==
  ASSUME NEW j, Sound(j), NEW n \in OpenAttempts(j)
  PROVE  n = Len(j.attempts)
<1>1. Len(j.attempts) \in Nat /\ n \in 1..Len(j.attempts)
  BY OpenIsFinite DEF Sound, Jobs
<1>2. ASSUME n # Len(j.attempts) PROVE FALSE
  <2>1. n \in 1..(Len(j.attempts) - 1)
    BY <1>1, <1>2
  <2>2. j.attempts[n].retryable
    BY <2>1 DEF Sound, RepeatedSafely
  <2>3. j.attempts[n].status \in {"failed", "interrupted"}
    BY <1>1, <2>2, RepeatableHasEnded DEF Sound
  <2> QED
    BY <2>3 DEF OpenAttempts
<1> QED
  BY <1>2

(* A job at work has an attempt under way, and only such a job has.        *)
LEMMA WorkingIsRunning ==
  ASSUME NEW j, Sound(j)
  PROVE  j.status \in Working <=> Running(j)
<1>1. j \in Jobs /\ Valid(j) /\ IsFiniteSet(OpenAttempts(j))
  BY OpenIsFinite DEF Sound
<1>2. DOMAIN j.attempts = 1..Len(j.attempts) /\ Len(j.attempts) \in Nat
  BY <1>1 DEF Jobs
<1>3. ASSUME j.status \in Working PROVE Running(j)
  <2>1. Cardinality(OpenAttempts(j)) = 1
    BY <1>1, <1>3, ValidCounts
  <2>2. PICK n : OpenAttempts(j) = {n}
    BY <1>1, <2>1, FS_Singleton
  <2>3. n = Len(j.attempts) /\ j.attempts[n].status = "running" /\ n \in 1..Len(j.attempts)
    BY <1>2, <2>2, OpenIsLast DEF OpenAttempts
  <2>4. j.attempts # <<>>
    BY <1>2, <2>3
  <2> QED
    BY <2>3, <2>4 DEF Running, LastAttempt, Last
<1>4. ASSUME Running(j) PROVE j.status \in Working
  <2>1. j.attempts # <<>> /\ j.attempts[Len(j.attempts)].status = "running"
    BY <1>4 DEF Running, LastAttempt, Last
  <2>2. Len(j.attempts) \in DOMAIN j.attempts
    BY <1>1, <1>2, <2>1, EmptySeq DEF Jobs
  <2>3. Len(j.attempts) \in OpenAttempts(j)
    BY <2>1, <2>2 DEF OpenAttempts
  <2>4. Cardinality(OpenAttempts(j)) # 0
    BY <1>1, <2>3, FS_EmptySet
  <2> QED
    BY <1>1, <2>4, ValidCounts
<1> QED
  BY <1>3, <1>4

(* A job that has come to nothing but its queue has no attempt.            *)
LEMMA WorkingHasAttempts ==
  ASSUME NEW j, Sound(j), j.status \in Working
  PROVE  /\ j \in Jobs /\ j.attempts # <<>>
         /\ Len(j.attempts) \in Nat /\ Len(j.attempts) \in 1..Len(j.attempts)
<1>1. j \in Jobs /\ j.attempts \in Seq(Attempts) /\ j.attempts # <<>>
  BY WorkingIsRunning DEF Sound, Running, Jobs
<1> QED
  BY <1>1

-----------------------------------------------------------------------------
(* What the operations do to a job *)

(* finish_active_attempt changes the last attempt and nothing else.        *)
LEMMA FinishedIs ==
  ASSUME NEW j, Sound(j), j.status \in Working,
         NEW status \in Endings, NEW retryable \in BOOLEAN, retryable => boundary
  PROVE  LET f == Finished(j, status, retryable)
             k == Len(j.attempts)
         IN  /\ f \in Jobs /\ RepeatedSafely(f.attempts)
             /\ Len(f.attempts) = k /\ k \in Nat /\ k > 0
             /\ f.attempts[k] = [status |-> status, retryable |-> retryable]
             /\ \A n \in 1..(k - 1) : f.attempts[n] = j.attempts[n]
             /\ f.status = j.status /\ f.cancellation = j.cancellation
             /\ f.generation = j.generation /\ f.eligible = j.eligible
<1> DEFINE f == Finished(j, status, retryable)
           k == Len(j.attempts)
           ended == [status |-> status, retryable |-> retryable]
<1>1. j \in Jobs /\ k \in Nat /\ k \in 1..k /\ j.attempts \in Seq(Attempts) /\ ended \in Attempts
  BY WorkingHasAttempts DEF Jobs, Attempts
<1>2. f = [j EXCEPT !.attempts = [j.attempts EXCEPT ![k] = ended]]
  BY DEF Finished
<1>3. /\ [j.attempts EXCEPT ![k] = ended] \in Seq(Attempts)
      /\ Len([j.attempts EXCEPT ![k] = ended]) = k
      /\ \A n \in 1..k : [j.attempts EXCEPT ![k] = ended][n] = IF n = k THEN ended ELSE j.attempts[n]
  BY <1>1, ExceptSeq
<1>4. /\ f \in Jobs /\ f.attempts = [j.attempts EXCEPT ![k] = ended]
      /\ f.status = j.status /\ f.cancellation = j.cancellation
      /\ f.generation = j.generation /\ f.eligible = j.eligible
  BY <1>1, <1>2, <1>3 DEF Jobs
<1>5. RepeatedSafely(f.attempts)
  <2>1. \A n \in 1..k : j.attempts[n].retryable => boundary
    BY DEF Sound, RepeatedSafely
  <2>2. \A n \in 1..(k - 1) : j.attempts[n].retryable
    BY DEF Sound, RepeatedSafely
  <2>3. \A n \in 1..(k - 1) : n \in 1..k /\ n # k
    BY <1>1
  <2> QED
    <3>1. \A n \in 1..k : f.attempts[n].retryable => boundary
      BY <1>3, <1>4, <2>1
    <3>2. \A n \in 1..(k - 1) : f.attempts[n].retryable
      BY <1>3, <1>4, <2>2, <2>3
    <3> QED
      BY <1>3, <1>4, <3>1, <3>2 DEF RepeatedSafely
<1> HIDE DEF f
<1>6. /\ f \in Jobs /\ RepeatedSafely(f.attempts)
      /\ Len(f.attempts) = k /\ k \in Nat /\ k > 0
      /\ f.attempts[k] = ended
      /\ \A n \in 1..(k - 1) : f.attempts[n] = j.attempts[n]
      /\ f.status = j.status /\ f.cancellation = j.cancellation
      /\ f.generation = j.generation /\ f.eligible = j.eligible
  BY <1>1, <1>3, <1>4, <1>5
<1> QED
  BY <1>6 DEF f

LEMMA UpdatedIs ==
  ASSUME NEW j, NEW x \in Jobs, j.generation \in Nat, NEW next \in Updated(j, x)
  PROVE  /\ next \in Jobs /\ Valid(next)
         /\ next.generation = j.generation + 1
         /\ next.status = x.status /\ next.cancellation = x.cancellation
         /\ next.eligible = x.eligible /\ next.attempts = x.attempts
<1>1. next = [x EXCEPT !.generation = j.generation + 1] /\ Valid(next)
  BY DEF Updated
<1> QED
  BY <1>1 DEF Jobs

(* What the update of a job promises, whichever operation made it.         *)
Answered(j, next) ==
  j.cancellation = "requested" =>
    /\ Len(next.attempts) = Len(j.attempts)
    /\ \/ next.cancellation = "requested"
       \/ next.cancellation = "acknowledged" /\ next.status = "cancelled"
       \/ next.cancellation = "superseded" /\ next.status = "completed"
       \/ next.cancellation = "failed" /\ j.status # "queued"

Step(j, next) ==
  /\ Sound(next)
  /\ next.generation = j.generation + 1
  /\ next.eligible <= MaxTime + Backoff
  /\ Answered(j, next)
  /\ HasEvent(j, next)

Ready(j) == Sound(j) /\ now \in 1..MaxTime /\ j.eligible <= MaxTime + Backoff

(* A job with a request to cancel is in one of five states.                *)
LEMMA RequestIsWaiting ==
  ASSUME NEW j, Valid(j), j.cancellation = "requested"
  PROVE  j.status \in WaitsForCancel
BY DEF Valid, CancellationFits

(* A change of status and nothing of the attempts.                         *)
LEMMA WithIs ==
  ASSUME NEW j, Sound(j), NEW status \in Statuses, NEW next \in Updated(j, With(j, status))
  PROVE  /\ Sound(next)
         /\ next.generation = j.generation + 1 /\ next.eligible = j.eligible
         /\ next.status = status /\ next.cancellation = j.cancellation
         /\ next.attempts = j.attempts
<1>1. /\ With(j, status) \in Jobs /\ With(j, status).status = status
      /\ With(j, status).cancellation = j.cancellation /\ With(j, status).eligible = j.eligible
      /\ With(j, status).attempts = j.attempts
  BY DEF With, Sound, Jobs
<1>2. j.generation \in Nat
  BY DEF Sound, Jobs
<1> QED
  BY <1>1, <1>2, UpdatedIs DEF Sound

(* A change after which the last attempt has ended.                        *)
LEMMA EndedIs ==
  ASSUME NEW j, Sound(j), j.status \in Working,
         NEW status \in Endings, NEW retryable \in BOOLEAN, retryable => boundary,
         NEW x \in Jobs, x.attempts = Finished(j, status, retryable).attempts,
         NEW next \in Updated(j, x)
  PROVE  /\ Sound(next)
         /\ next.generation = j.generation + 1 /\ next.eligible = x.eligible
         /\ next.status = x.status /\ next.cancellation = x.cancellation
         /\ Len(next.attempts) = Len(j.attempts)
<1>1. j.generation \in Nat
  BY DEF Sound, Jobs
<1>2. /\ next \in Jobs /\ Valid(next) /\ next.generation = j.generation + 1
      /\ next.status = x.status /\ next.cancellation = x.cancellation
      /\ next.eligible = x.eligible /\ next.attempts = x.attempts
  BY <1>1, UpdatedIs
<1>3. /\ RepeatedSafely(Finished(j, status, retryable).attempts)
      /\ Len(Finished(j, status, retryable).attempts) = Len(j.attempts)
  BY FinishedIs
<1> QED
  BY <1>2, <1>3 DEF Sound

LEMMA StartIsAStep ==
  ASSUME NEW j, Ready(j), NEW next \in Start(j)
  PROVE  Step(j, next)
<1> DEFINE x == [With(j, "running") EXCEPT
                   !.attempts = Append(@, [status |-> "running", retryable |-> FALSE])]
<1>1. /\ j.status = "queued" /\ j.cancellation = "not_requested"
      /\ next \in Updated(j, x)
  BY DEF Start
<1>2. j \in Jobs /\ Valid(j) /\ RepeatedSafely(j.attempts) /\ j.attempts \in Seq(Attempts)
  BY DEF Ready, Sound, Jobs
<1>3. [status |-> "running", retryable |-> FALSE] \in Attempts
  BY DEF Attempts
<1>4. /\ x.attempts = Append(j.attempts, [status |-> "running", retryable |-> FALSE])
      /\ x.status = "running" /\ x.cancellation = j.cancellation
      /\ x.eligible = j.eligible /\ x.generation = j.generation
      /\ x \in Jobs
  <2>1. Append(j.attempts, [status |-> "running", retryable |-> FALSE]) \in Seq(Attempts)
    BY <1>2, <1>3
  <2> QED
    BY <1>2, <2>1 DEF With, Jobs, Statuses, Working
<1> HIDE DEF x
<1>5. /\ next \in Jobs /\ Valid(next) /\ next.generation = j.generation + 1
      /\ next.status = "running" /\ next.cancellation = "not_requested"
      /\ next.eligible = j.eligible /\ next.attempts = x.attempts
  BY <1>1, <1>2, <1>4, UpdatedIs DEF Jobs
<1>6. RepeatedSafely(x.attempts)
  <2> DEFINE k == Len(j.attempts)
  <2>1. /\ k \in Nat /\ Len(x.attempts) = k + 1
        /\ \A n \in 1..k : x.attempts[n] = j.attempts[n]
        /\ x.attempts[k + 1] = [status |-> "running", retryable |-> FALSE]
    BY <1>2, <1>3, <1>4, AppendProperties
  <2>2. \A n \in 1..k : j.attempts[n].retryable
    <3>1. k # 0 => j.attempts[k].retryable
      BY <1>1, <1>2, <2>1 DEF Valid, LastAttempt, Last
    <3>2. \A n \in 1..k : n = k \/ n \in 1..(k - 1)
      BY <2>1
    <3> QED
      BY <1>2, <2>1, <3>1, <3>2 DEF RepeatedSafely
  <2>3. \A n \in 1..(k + 1) : x.attempts[n].retryable => boundary
    <3>1. \A n \in 1..(k + 1) : n = k + 1 \/ n \in 1..k
      BY <2>1
    <3> QED
      BY <1>2, <2>1, <3>1 DEF RepeatedSafely
  <2> QED
    BY <2>1, <2>2, <2>3 DEF RepeatedSafely
<1>7. HasEvent(j, next)
  BY <1>1, <1>5 DEF HasEvent, Terminal
<1> QED
  BY <1>1, <1>5, <1>6, <1>7 DEF Step, Sound, Answered, Ready

LEMMA RequestPauseIsAStep ==
  ASSUME NEW j, Ready(j), NEW next \in RequestPause(j)
  PROVE  Step(j, next)
<1>1. CASE j.status = "queued"
  <2>1. next \in Updated(j, With(j, "paused"))
    BY <1>1 DEF RequestPause
  <2>2. /\ Sound(next) /\ next.generation = j.generation + 1 /\ next.eligible = j.eligible
        /\ next.status = "paused" /\ next.cancellation = j.cancellation
        /\ next.attempts = j.attempts
    BY <2>1, WithIs DEF Ready, Statuses
  <2>3. HasEvent(j, next)
    BY <1>1, <2>2 DEF HasEvent, Terminal
  <2> QED
    BY <2>2, <2>3 DEF Step, Answered, Ready
<1>2. CASE j.status # "queued"
  <2>1. j.status = "running" /\ next \in Updated(j, With(j, "pause_requested"))
    BY <1>2 DEF RequestPause
  <2>2. /\ Sound(next) /\ next.generation = j.generation + 1 /\ next.eligible = j.eligible
        /\ next.status = "pause_requested" /\ next.cancellation = j.cancellation
        /\ next.attempts = j.attempts
    BY <2>1, WithIs DEF Ready, Statuses, Working
  <2>3. HasEvent(j, next)
    BY <2>1, <2>2 DEF HasEvent, Terminal
  <2> QED
    BY <2>2, <2>3 DEF Step, Answered, Ready
<1> QED
  BY <1>1, <1>2

LEMMA AcknowledgePauseIsAStep ==
  ASSUME NEW j, Ready(j), boundary \in BOOLEAN, NEW next \in AcknowledgePause(j)
  PROVE  Step(j, next)
<1> DEFINE f == Finished(j, "interrupted", boundary)
           x == With(f, "paused")
<1>1. j.status = "pause_requested" /\ next \in Updated(j, x)
  BY DEF AcknowledgePause
<1>2. Sound(j) /\ j.status \in Working /\ "interrupted" \in Endings
  BY <1>1 DEF Ready, Working, Endings
<1>3. f \in Jobs /\ f.cancellation = j.cancellation /\ f.eligible = j.eligible
  BY <1>2, FinishedIs
<1> HIDE DEF f
<1>4. /\ x \in Jobs /\ x.attempts = f.attempts /\ x.status = "paused"
      /\ x.cancellation = j.cancellation /\ x.eligible = j.eligible
  BY <1>3 DEF With, Jobs, Statuses
<1> HIDE DEF x
<1>5. /\ Sound(next) /\ next.generation = j.generation + 1 /\ next.eligible = j.eligible
      /\ next.status = "paused" /\ next.cancellation = j.cancellation
      /\ Len(next.attempts) = Len(j.attempts)
  BY <1>1, <1>2, <1>4, EndedIs DEF f
<1>6. HasEvent(j, next)
  BY <1>1, <1>5 DEF HasEvent, Terminal
<1> QED
  BY <1>5, <1>6 DEF Step, Answered, Ready

LEMMA ResumeIsAStep ==
  ASSUME NEW j, Ready(j), NEW next \in Resume(j)
  PROVE  Step(j, next)
<1> DEFINE x == [With(j, "queued") EXCEPT !.eligible = IF @ < now THEN now ELSE @]
<1>1. j.status = "paused" /\ j.cancellation = "not_requested" /\ next \in Updated(j, x)
  BY DEF Resume
<1>2. j \in Jobs /\ j.generation \in Nat /\ RepeatedSafely(j.attempts)
  BY DEF Ready, Sound, Jobs
<1>3. /\ x \in Jobs /\ x.attempts = j.attempts /\ x.status = "queued"
      /\ x.cancellation = "not_requested" /\ x.eligible <= MaxTime + Backoff
  <2> DEFINE e == IF j.eligible < now THEN now ELSE j.eligible
  <2>1. e \in Nat \ {0} /\ e <= MaxTime + Backoff
    BY <1>2, JobsAssumption DEF Jobs, Ready
  <2>2. x = [j EXCEPT !.status = "queued", !.eligible = e]
    BY <1>2 DEF With, Jobs
  <2> HIDE DEF e, x
  <2> QED
    BY <1>1, <1>2, <2>1, <2>2 DEF Jobs, Statuses
<1> HIDE DEF x
<1>4. /\ next \in Jobs /\ Valid(next) /\ next.generation = j.generation + 1
      /\ next.status = "queued" /\ next.cancellation = "not_requested"
      /\ next.eligible = x.eligible /\ next.attempts = j.attempts
  BY <1>1, <1>2, <1>3, UpdatedIs
<1>5. HasEvent(j, next)
  BY <1>1, <1>4 DEF HasEvent, Terminal, Retried
<1> QED
  BY <1>1, <1>2, <1>3, <1>4, <1>5 DEF Step, Sound, Answered

LEMMA WaitForApprovalIsAStep ==
  ASSUME NEW j, Ready(j), NEW next \in WaitForApproval(j)
  PROVE  Step(j, next)
<1>1. j.status = "running" /\ next \in Updated(j, With(j, "waiting_approval"))
  BY DEF WaitForApproval
<1>2. /\ Sound(next) /\ next.generation = j.generation + 1 /\ next.eligible = j.eligible
      /\ next.status = "waiting_approval" /\ next.cancellation = j.cancellation
      /\ next.attempts = j.attempts
  BY <1>1, WithIs DEF Ready, Statuses, Working
<1>3. HasEvent(j, next)
  BY <1>1, <1>2 DEF HasEvent, Terminal
<1> QED
  BY <1>2, <1>3 DEF Step, Answered, Ready

LEMMA ResumeAfterApprovalIsAStep ==
  ASSUME NEW j, Ready(j), NEW next \in ResumeAfterApproval(j)
  PROVE  Step(j, next)
<1>1. j.status = "waiting_approval" /\ next \in Updated(j, With(j, "running"))
  BY DEF ResumeAfterApproval
<1>2. /\ Sound(next) /\ next.generation = j.generation + 1 /\ next.eligible = j.eligible
      /\ next.status = "running" /\ next.cancellation = j.cancellation
      /\ next.attempts = j.attempts
  BY <1>1, WithIs DEF Ready, Statuses, Working
<1>3. HasEvent(j, next)
  BY <1>1, <1>2 DEF HasEvent, Terminal
<1> QED
  BY <1>2, <1>3 DEF Step, Answered, Ready

LEMMA RequestCancelIsAStep ==
  ASSUME NEW j, Ready(j), NEW next \in RequestCancel(j)
  PROVE  Step(j, next)
<1> DEFINE x == [j EXCEPT !.cancellation = "requested",
                          !.status = IF @ = "running" THEN "cancelling" ELSE @]
<1>1. /\ j.status \notin Terminal /\ j.cancellation # "requested" /\ next \in Updated(j, x)
  BY DEF RequestCancel
<1>2. j \in Jobs /\ j.generation \in Nat /\ RepeatedSafely(j.attempts)
  BY DEF Ready, Sound, Jobs
<1>3. /\ x \in Jobs /\ x.attempts = j.attempts /\ x.status \notin Terminal
      /\ x.cancellation = "requested" /\ x.eligible = j.eligible
  BY <1>1, <1>2 DEF Jobs, Statuses, Working, Terminal, Cancellations
<1> HIDE DEF x
<1>4. /\ next \in Jobs /\ Valid(next) /\ next.generation = j.generation + 1
      /\ next.status \notin Terminal /\ next.cancellation = "requested"
      /\ next.eligible = j.eligible /\ next.attempts = j.attempts
  BY <1>1, <1>2, <1>3, UpdatedIs
<1>5. HasEvent(j, next)
  BY <1>1, <1>4 DEF HasEvent
<1> QED
  BY <1>1, <1>2, <1>4, <1>5 DEF Step, Sound, Answered, Ready

LEMMA AcknowledgeCancelIsAStep ==
  ASSUME NEW j, Ready(j), NEW next \in AcknowledgeCancel(j)
  PROVE  Step(j, next)
<1> DEFINE ended == IF Running(j) THEN Finished(j, "cancelled", FALSE) ELSE j
           x == [ended EXCEPT !.status = "cancelled", !.cancellation = "acknowledged"]
<1>1. j.cancellation = "requested" /\ next \in Updated(j, x)
  BY DEF AcknowledgeCancel
<1>2. Sound(j) /\ j \in Jobs /\ j.generation \in Nat
  BY DEF Ready, Sound, Jobs
<1>3. /\ ended \in Jobs /\ RepeatedSafely(ended.attempts)
      /\ Len(ended.attempts) = Len(j.attempts) /\ ended.eligible = j.eligible
  <2>1. CASE Running(j)
    <3>1. j.status \in Working /\ "cancelled" \in Endings
      BY <1>2, <2>1, WorkingIsRunning DEF Endings
    <3> QED
      BY <1>2, <2>1, <3>1, FinishedIs
  <2>2. CASE ~Running(j)
    BY <1>2, <2>2 DEF Sound
  <2> QED
    BY <2>1, <2>2
<1> HIDE DEF ended
<1>4. /\ x \in Jobs /\ x.attempts = ended.attempts /\ x.status = "cancelled"
      /\ x.cancellation = "acknowledged" /\ x.eligible = j.eligible
  BY <1>3 DEF Jobs, Statuses, Terminal, Cancellations
<1> HIDE DEF x
<1>5. /\ next \in Jobs /\ Valid(next) /\ next.generation = j.generation + 1
      /\ next.status = "cancelled" /\ next.cancellation = "acknowledged"
      /\ next.eligible = j.eligible /\ next.attempts = ended.attempts
  BY <1>1, <1>2, <1>4, UpdatedIs
<1>6. HasEvent(j, next)
  BY <1>5 DEF HasEvent, Terminal
<1> QED
  BY <1>3, <1>5, <1>6 DEF Step, Sound, Answered, Ready

LEMMA RejectCancelIsAStep ==
  ASSUME NEW j, Ready(j), NEW next \in RejectCancel(j)
  PROVE  Step(j, next)
<1> DEFINE x == [With(j, "running") EXCEPT !.cancellation = "failed"]
<1>1. j.cancellation = "requested" /\ j.status = "cancelling" /\ next \in Updated(j, x)
  BY DEF RejectCancel
<1>2. j \in Jobs /\ j.generation \in Nat /\ RepeatedSafely(j.attempts)
  BY DEF Ready, Sound, Jobs
<1>3. /\ x \in Jobs /\ x.attempts = j.attempts /\ x.status = "running"
      /\ x.cancellation = "failed" /\ x.eligible = j.eligible
  BY <1>1, <1>2 DEF With, Jobs, Statuses, Working, Cancellations
<1> HIDE DEF x
<1>4. /\ next \in Jobs /\ Valid(next) /\ next.generation = j.generation + 1
      /\ next.status = "running" /\ next.cancellation = "failed"
      /\ next.eligible = j.eligible /\ next.attempts = j.attempts
  BY <1>1, <1>2, <1>3, UpdatedIs
<1>5. HasEvent(j, next)
  BY <1>1, <1>4 DEF HasEvent, Terminal
<1> QED
  BY <1>1, <1>2, <1>4, <1>5 DEF Step, Sound, Answered, Ready

(* The end of an attempt that ends the job, and settles a request.         *)
LEMMA EndIsAStep ==
  ASSUME NEW j, Ready(j), j.status \in Working,
         NEW status \in {"completed", "failed", "interrupted"},
         NEW retryable \in BOOLEAN, retryable => boundary,
         NEW otherwise \in {"superseded", "failed"},
         otherwise = "superseded" => status = "completed",
         NEW next \in Updated(j, Settled(With(Finished(j, status, retryable), status), otherwise))
  PROVE  Step(j, next)
<1> DEFINE f == Finished(j, status, retryable)
           x == Settled(With(f, status), otherwise)
<1>1. Sound(j) /\ status \in Endings
  BY DEF Ready, Endings
<1>2. f \in Jobs /\ f.cancellation = j.cancellation /\ f.eligible = j.eligible
  BY <1>1, FinishedIs
<1> HIDE DEF f
<1>3. /\ x \in Jobs /\ x.attempts = f.attempts /\ x.status = status
      /\ x.cancellation = IF j.cancellation = "requested" THEN otherwise ELSE j.cancellation
      /\ x.eligible = j.eligible
  BY <1>2 DEF Settled, With, Jobs, Statuses, Terminal, Cancellations
<1>4. next \in Updated(j, x)
  BY DEF f
<1> HIDE DEF x
<1>5. /\ Sound(next) /\ next.generation = j.generation + 1 /\ next.eligible = j.eligible
      /\ next.status = status /\ next.cancellation = x.cancellation
      /\ Len(next.attempts) = Len(j.attempts)
  BY <1>1, <1>3, <1>4, EndedIs DEF f
<1>6. HasEvent(j, next)
  BY <1>5 DEF HasEvent, Terminal
<1>7. Answered(j, next)
  BY <1>3, <1>5 DEF Answered, Working
<1> QED
  BY <1>5, <1>6, <1>7 DEF Step, Ready

LEMMA CompleteIsAStep ==
  ASSUME NEW j, Ready(j), NEW next \in Complete(j)
  PROVE  Step(j, next)
<1>1. /\ j.status \in Working
      /\ next \in Updated(j, Settled(With(Finished(j, "completed", FALSE), "completed"),
                                     "superseded"))
  BY DEF Complete, Working
<1> QED
  BY <1>1, EndIsAStep

LEMMA FailIsAStep ==
  ASSUME NEW j, Ready(j), boundary \in BOOLEAN, NEW next \in Fail(j)
  PROVE  Step(j, next)
<1>1. j.status \in Working
  BY DEF Fail, Working
<1>2. PICK retryable \in BOOLEAN :
        next \in Updated(j, Settled(With(Finished(j, "failed", retryable /\ boundary), "failed"),
                                    "failed"))
  BY DEF Fail
<1>3. (retryable /\ boundary) \in BOOLEAN /\ (retryable /\ boundary => boundary)
  OBVIOUS
<1> QED
  BY <1>1, <1>2, <1>3, EndIsAStep

LEMMA RecoverAfterRestartIsAStep ==
  ASSUME NEW j, Ready(j), boundary \in BOOLEAN, NEW next \in RecoverAfterRestart(j)
  PROVE  Step(j, next)
<1>1. /\ j.status \in Working
      /\ next \in Updated(j, Settled(With(Finished(j, "interrupted", boundary), "interrupted"),
                                     "failed"))
  BY DEF RecoverAfterRestart, Active, Working
<1> QED
  BY <1>1, EndIsAStep

LEMMA RetryIsAStep ==
  ASSUME NEW j, Ready(j), NEW next \in Retry(j)
  PROVE  Step(j, next)
<1> DEFINE x == [With(j, "queued") EXCEPT !.cancellation = "not_requested",
                                          !.eligible = now + Backoff]
<1>1. j.status \in {"failed", "interrupted"} /\ next \in Updated(j, x)
  BY DEF Retry, CanRetry
<1>2. j \in Jobs /\ j.generation \in Nat /\ RepeatedSafely(j.attempts) /\ Valid(j)
  BY DEF Ready, Sound, Jobs
<1>3. j.cancellation # "requested"
  BY <1>1, <1>2, RequestIsWaiting DEF WaitsForCancel
<1>4. /\ x \in Jobs /\ x.attempts = j.attempts /\ x.status = "queued"
      /\ x.cancellation = "not_requested" /\ x.eligible <= MaxTime + Backoff
  <2>1. now + Backoff \in Nat \ {0} /\ now + Backoff <= MaxTime + Backoff
    BY JobsAssumption DEF Ready
  <2>2. x = [j EXCEPT !.status = "queued", !.cancellation = "not_requested",
                      !.eligible = now + Backoff]
    BY <1>2 DEF With, Jobs
  <2> HIDE DEF x
  <2> QED
    BY <1>2, <2>1, <2>2 DEF Jobs, Statuses, Cancellations
<1> HIDE DEF x
<1>5. /\ next \in Jobs /\ Valid(next) /\ next.generation = j.generation + 1
      /\ next.status = "queued" /\ next.cancellation = "not_requested"
      /\ next.eligible = x.eligible /\ next.attempts = j.attempts
  BY <1>1, <1>2, <1>4, UpdatedIs
<1>6. HasEvent(j, next)
  BY <1>1, <1>5 DEF HasEvent, Terminal, Retried
<1> QED
  BY <1>2, <1>3, <1>4, <1>5, <1>6 DEF Step, Sound, Answered

(* Each of the thirteen operations takes a sound job to a sound one, by a  *)
(* change that has an event, and never past a request to cancel.           *)
LEMMA JobStepsAreSteps ==
  ASSUME NEW j, Ready(j), boundary \in BOOLEAN, NEW next \in JobSteps(j)
  PROVE  Step(j, next)
BY StartIsAStep, RequestPauseIsAStep, AcknowledgePauseIsAStep, ResumeIsAStep,
   WaitForApprovalIsAStep, ResumeAfterApprovalIsAStep, RequestCancelIsAStep,
   AcknowledgeCancelIsAStep, RejectCancelIsAStep, CompleteIsAStep, FailIsAStep,
   RetryIsAStep, RecoverAfterRestartIsAStep DEF JobSteps

(* A cancellation can be asked for as long as the job has not ended, and   *)
(* acknowledged once it has been asked for.                                *)
LEMMA CancellationIsOpen ==
  ASSUME NEW j, Sound(j), j.status \notin Terminal
  PROVE  RequestCancel(j) \cup AcknowledgeCancel(j) # {}
<1>1. /\ j \in Jobs /\ Valid(j) /\ j.generation \in Nat /\ Len(j.attempts) \in Nat
      /\ DOMAIN j.attempts = 1..Len(j.attempts)
  BY DEF Sound, Jobs
<1>2. CASE j.cancellation # "requested"
  <2> DEFINE x == [j EXCEPT !.cancellation = "requested",
                            !.status = IF @ = "running" THEN "cancelling" ELSE @]
             changed == [x EXCEPT !.generation = j.generation + 1]
  <2>1. /\ changed.attempts = j.attempts /\ changed.cancellation = "requested"
        /\ changed.status = IF j.status = "running" THEN "cancelling" ELSE j.status
    BY <1>1 DEF Jobs
  <2>2. changed.status \in Working <=> j.status \in Working
    BY <2>1 DEF Working
  <2>3. changed.status \in WaitsForCancel
    BY <1>1, <2>1 DEF Jobs, Statuses, Working, Terminal, WaitsForCancel
  <2>4. changed.status \notin {"completed", "failed", "interrupted", "cancelled"}
    BY <2>1, <1>2 DEF Terminal
  <2>5. changed.status \in {"queued", "paused"} => j.status \in {"queued", "paused"}
    BY <2>1
  <2> HIDE DEF changed
  <2>6. CancellationFits(changed)
    BY <2>1, <2>3 DEF CancellationFits
  <2>7. LastAttempt(changed) = LastAttempt(j)
    BY <2>1 DEF LastAttempt
  <2>8. Valid(changed)
    BY <1>1, <2>1, <2>2, <2>4, <2>5, <2>6, <2>7 DEF Valid
  <2>9. changed \in RequestCancel(j)
    BY <1>2, <2>8 DEF RequestCancel, Updated, changed
  <2> QED
    BY <2>9
<1>3. CASE j.cancellation = "requested"
  <2> DEFINE ended == IF Running(j) THEN Finished(j, "cancelled", FALSE) ELSE j
             x == [ended EXCEPT !.status = "cancelled", !.cancellation = "acknowledged"]
             changed == [x EXCEPT !.generation = j.generation + 1]
             k == Len(j.attempts)
  <2>1. /\ ended \in Jobs /\ Len(ended.attempts) = k
        /\ \A n \in 1..k : \/ ended.attempts[n] = j.attempts[n] /\ (n = k => ~Running(j))
                           \/ ended.attempts[n] = [status |-> "cancelled", retryable |-> FALSE]
    <3>1. CASE Running(j)
      <4>1. j.status \in Working /\ "cancelled" \in Endings
        BY <3>1, WorkingIsRunning DEF Endings
      <4>2. /\ ended \in Jobs /\ Len(ended.attempts) = k
            /\ ended.attempts[k] = [status |-> "cancelled", retryable |-> FALSE]
            /\ \A n \in 1..(k - 1) : ended.attempts[n] = j.attempts[n]
        BY <3>1, <4>1, FinishedIs
      <4>3. \A n \in 1..k : n = k \/ (n \in 1..(k - 1) /\ n # k)
        BY <1>1
      <4> QED
        BY <4>2, <4>3
    <3>2. CASE ~Running(j)
      BY <1>1, <3>2
    <3> QED
      BY <3>1, <3>2
  <2> HIDE DEF ended
  <2>2. /\ changed.attempts = ended.attempts /\ changed.cancellation = "acknowledged"
        /\ changed.status = "cancelled"
    BY <2>1 DEF Jobs
  <2>3. DOMAIN ended.attempts = 1..k
    BY <2>1 DEF Jobs
  <2>4. \A n \in 1..k : ended.attempts[n].status # "running"
    <3>1. SUFFICES ASSUME NEW n \in 1..k, ended.attempts[n] = j.attempts[n],
                          n = k => ~Running(j), j.attempts[n].status = "running"
                   PROVE  FALSE
      BY <2>1
    <3>2. n = k
      BY <1>1, <3>1, OpenIsLast DEF OpenAttempts
    <3>3. j.attempts # <<>>
      BY <1>1, <3>1
    <3> QED
      BY <3>1, <3>2, <3>3 DEF Running, LastAttempt, Last
  <2>5. \A n \in 1..k : ended.attempts[n].retryable =>
                          ended.attempts[n].status \in {"failed", "interrupted"}
    BY <1>1, <2>1, RepeatableHasEnded
  <2> HIDE DEF changed
  <2>6. OpenAttempts(changed) = {}
    BY <2>2, <2>3, <2>4 DEF OpenAttempts
  <2>7. \A a \in ToSet(changed.attempts) : a.retryable => a.status \in {"failed", "interrupted"}
    BY <2>2, <2>3, <2>5 DEF ToSet
  <2>8. CancellationFits(changed)
    BY <2>2 DEF CancellationFits
  <2>9. changed.attempts # <<>> => LastAttempt(changed).status # "running"
    <3>1. ended.attempts # <<>> => k \in 1..k
      BY <1>1, <2>1 DEF Jobs
    <3> QED
      BY <2>1, <2>2, <2>4, <3>1 DEF LastAttempt, Last
  <2>10. Cardinality({n \in DOMAIN changed.attempts : changed.attempts[n].status = "running"}) = 0
    BY <2>6, FS_EmptySet DEF OpenAttempts
  <2>11. Len(changed.attempts) <= MaxAttempts
    BY <1>1, <2>1, <2>2 DEF Valid
  <2>12. Valid(changed)
    BY <2>2, <2>7, <2>8, <2>9, <2>10, <2>11 DEF Valid, Working
  <2>13. changed \in AcknowledgeCancel(j)
    BY <1>3, <2>12 DEF AcknowledgeCancel, Updated, changed, ended
  <2> QED
    BY <2>13
<1> QED
  BY <1>2, <1>3

-----------------------------------------------------------------------------
(* The invariant *)

RowFits ==
  /\ boundary \in BOOLEAN /\ now \in 1..MaxTime /\ spawned \in Nat
  /\ Sound(job) /\ job.eligible <= MaxTime + Backoff /\ job.generation <= MaxGeneration

CopyFits == copy \in Jobs /\ Older(copy, job)

(* A process is known by the attempt it was started for.                   *)
OfItsAttempt(p) ==
  /\ p.generation <= job.generation
  /\ p.generation = job.generation => p.attempt = Len(job.attempts)

ReceiptsFit ==
  /\ registry \in [Owners -> Processes \cup {None}]
  /\ \A o \in Owners : registry[o] # None =>
       registry[o].pid \in 1..spawned /\ OfItsAttempt(registry[o])

LeaseFits ==
  /\ lease \in Leases \cup {None}
  /\ lease # None => lease.generation <= job.generation
  /\ LeaseBindsItsAttempt

(* What was found of a lease is so as long as the lease has that number.   *)
Remembered ==
  /\ entry.number \in Nat => lease # None /\ entry.number <= lease.number
  /\ entry.number = LeaseNumber =>
       /\ entry.leaseState = LeaseState(entry.job, lease, entry.time)
       /\ entry.action = "monitor" =>
            /\ entry.job.status \in Active /\ entry.leaseState = "current"
            /\ lease # None /\ lease.process # None

EntryFits ==
  entry # None =>
    /\ entry.step \in {"reading", "found"}
    /\ Sound(entry.job) /\ Older(entry.job, job) /\ entry.time \in Nat
    /\ entry.step = "found" =>
         /\ DecisionValid(entry) /\ entry.number \in Nat \cup {None}
         /\ Remembered

IInv == RowFits /\ CopyFits /\ ReceiptsFit /\ LeaseFits /\ EntryFits

LEMMA InitEstablishesIInv == Init => IInv
<1> SUFFICES ASSUME Init PROVE IInv
  OBVIOUS
<1>1. /\ job.status = "queued" /\ job.cancellation = "not_requested" /\ job.generation = 0
      /\ job.eligible = 1 /\ job.attempts = <<>> /\ job \in Jobs
      /\ Len(job.attempts) = 0 /\ DOMAIN job.attempts = {}
  BY DEF Init, Jobs, Statuses, Cancellations
<1>2. Valid(job)
  <2>1. {n \in DOMAIN job.attempts : job.attempts[n].status = "running"} = {}
    BY <1>1
  <2>2. \A a \in ToSet(job.attempts) : FALSE
    BY <1>1 DEF ToSet
  <2>3. CancellationFits(job)
    BY <1>1 DEF CancellationFits
  <2> QED
    BY <1>1, <2>1, <2>2, <2>3, FS_EmptySet, JobsAssumption DEF Valid, Working
<1>3. RowFits
  BY <1>1, <1>2, JobsAssumption DEF Init, RowFits, Sound, RepeatedSafely
<1>4. CopyFits
  BY <1>1 DEF Init, CopyFits, Older
<1>5. ReceiptsFit /\ LeaseFits /\ EntryFits
  BY DEF Init, ReceiptsFit, LeaseFits, LeaseBindsItsAttempt, EntryFits
<1> QED
  BY <1>3, <1>4, <1>5 DEF IInv

(* A job of the invariant takes a step as the lemmas above have it.        *)
LEMMA JobIsReady ==
  ASSUME RowFits, NEW next \in JobSteps(job)
  PROVE  Step(job, next)
BY JobStepsAreSteps DEF RowFits, Ready

LEMMA KnownIsOlder ==
  ASSUME IInv, NEW o \in Owners
  PROVE  Known(o) \in Jobs /\ Older(Known(o), job)
BY DEF IInv, RowFits, CopyFits, Known, Sound, Older, Jobs

LEMMA UpdateJobKeepsIInv ==
  ASSUME IInv, NEW o \in Owners, UpdateJob(o)
  PROVE  IInv'
<1>1. job = Known(o) /\ job.generation < MaxGeneration
  BY DEF UpdateJob, UnchangedRow
<1>2. PICK next \in JobSteps(job) : job' = next /\ copy' = Noted(o, next)
  BY <1>1 DEF UpdateJob
<1>3. /\ UNCHANGED <<boundary, now, lease, registry, spawned>>
      /\ entry' = entry \/ entry' = None
      /\ entry' # None => entry' = entry /\ (entry.step # "found" \/ entry = None)
  BY DEF UpdateJob
<1>4. Step(job, next)
  BY <1>2, JobIsReady DEF IInv
<1>5. Sound(next) /\ next.generation = job.generation + 1 /\ next.eligible <= MaxTime + Backoff
  BY <1>4 DEF Step
<1>6. job \in Jobs /\ job.generation \in Nat /\ next \in Jobs
  BY <1>5 DEF IInv, RowFits, Sound, Jobs
<1>7. RowFits'
  BY <1>1, <1>2, <1>3, <1>5, <1>6, JobsAssumption
  DEF IInv, RowFits, Sound, RepeatedSafely
<1>8. \A j : j.generation \in Nat /\ j.generation <= job.generation => Older(j, next)
  BY <1>5, <1>6 DEF Older
<1>9. CopyFits'
  <2>1. copy \in Jobs /\ copy.generation \in Nat /\ copy.generation <= job.generation
    BY DEF IInv, CopyFits, Older, Jobs
  <2>2. copy' = next \/ copy' = copy
    BY <1>2 DEF Noted
  <2>3. copy' \in Jobs /\ copy'.generation <= next.generation
           /\ (copy'.generation = next.generation => copy' = next)
    BY <1>5, <1>6, <2>1, <2>2
  <2> QED
    BY <1>2, <2>3 DEF CopyFits, Older
<1>10. ReceiptsFit'
  <2>1. ASSUME NEW r \in Owners, registry[r] # None
        PROVE  /\ registry[r].pid \in 1..spawned /\ registry[r].generation <= next.generation
               /\ registry[r].generation # next.generation
    <3>1. registry[r] \in Processes /\ registry[r].generation <= job.generation
             /\ registry[r].pid \in 1..spawned
      BY <2>1 DEF IInv, ReceiptsFit, OfItsAttempt
    <3> QED
      BY <1>5, <1>6, <3>1 DEF Processes
  <2> QED
    BY <1>2, <1>3, <2>1 DEF IInv, ReceiptsFit, OfItsAttempt
<1>11. LeaseFits'
  <2>1. lease # None => lease.generation <= next.generation /\ lease.generation # next.generation
    BY <1>5, <1>6 DEF IInv, LeaseFits, Leases
  <2> QED
    BY <1>2, <1>3, <2>1 DEF IInv, LeaseFits, LeaseBindsItsAttempt
<1>12. EntryFits'
  <2>1. ASSUME entry' # None
        PROVE  /\ entry' = entry /\ entry.step = "reading"
               /\ Sound(entry.job) /\ Older(entry.job, next) /\ entry.time \in Nat
    <3>1. entry' = entry /\ entry # None /\ entry.step # "found"
      BY <1>3, <2>1
    <3>2. /\ entry.step = "reading" /\ Sound(entry.job) /\ Older(entry.job, job)
          /\ entry.time \in Nat
      BY <3>1 DEF IInv, EntryFits
    <3> QED
      BY <1>8, <3>1, <3>2 DEF Sound, Jobs, Older
  <2> QED
    BY <1>2, <1>3, <2>1 DEF EntryFits, Sound, RepeatedSafely
<1> QED
  BY <1>7, <1>9, <1>10, <1>11, <1>12 DEF IInv

(* What does not touch the rows nor the lease leaves the entry true.       *)
LEMMA RowsUntouched ==
  ASSUME IInv, UNCHANGED <<boundary, job>>, now' \in 1..MaxTime, spawned' \in Nat
  PROVE  RowFits'
BY DEF IInv, RowFits, Sound, RepeatedSafely

LEMMA CopyUntouched ==
  ASSUME IInv, UNCHANGED job, copy' = copy \/ copy' = job
  PROVE  CopyFits'
<1>1. copy' \in Jobs /\ Older(copy', job)
  BY DEF IInv, RowFits, CopyFits, Sound, Older, Jobs
<1> QED
  BY <1>1 DEF CopyFits, Older

LEMMA ReceiptsUntouched ==
  ASSUME IInv, UNCHANGED <<job, registry, spawned>>
  PROVE  ReceiptsFit'
BY DEF IInv, ReceiptsFit, OfItsAttempt

LEMMA LeaseUntouched ==
  ASSUME IInv, UNCHANGED <<job, lease>>
  PROVE  LeaseFits'
BY DEF IInv, LeaseFits, LeaseBindsItsAttempt

LEMMA EntryUntouched ==
  ASSUME IInv, UNCHANGED <<boundary, job, lease>>, entry' = entry \/ entry' = None
  PROVE  EntryFits'
BY DEF IInv, EntryFits, Sound, RepeatedSafely, Older, Remembered, LeaseNumber, LeaseState,
       DecisionValid

LEMMA ReadJobKeepsIInv == ASSUME IInv, ReadJob PROVE IInv'
<1>1. UNCHANGED <<boundary, now, job, lease, registry, entry, spawned>> /\ copy' = job
  BY DEF ReadJob
<1>2. now' \in 1..MaxTime /\ spawned' \in Nat
  BY <1>1 DEF IInv, RowFits
<1> QED
  BY <1>1, <1>2, RowsUntouched, CopyUntouched, ReceiptsUntouched, LeaseUntouched,
     EntryUntouched DEF IInv

LEMMA TickKeepsIInv == ASSUME IInv, Tick PROVE IInv'
<1>1. UNCHANGED <<boundary, job, lease, copy, registry, entry, spawned>>
  BY DEF Tick, memory
<1>2. now' \in 1..MaxTime /\ spawned' \in Nat
  BY <1>1, JobsAssumption DEF Tick, IInv, RowFits
<1> QED
  BY <1>1, <1>2, RowsUntouched, CopyUntouched, ReceiptsUntouched, LeaseUntouched,
     EntryUntouched DEF IInv

LEMMA CrashKeepsIInv == ASSUME IInv, NEW o \in Owners, Crash(o) PROVE IInv'
<1>1. /\ UNCHANGED <<boundary, now, job, lease, spawned>>
      /\ copy' = copy \/ copy' = job
      /\ entry' = entry \/ entry' = None
      /\ registry' = [registry EXCEPT ![o] = None]
  BY DEF Crash, Noted
<1>2. now' \in 1..MaxTime /\ spawned' \in Nat
  BY <1>1 DEF IInv, RowFits
<1>3. ReceiptsFit'
  BY <1>1 DEF IInv, ReceiptsFit, OfItsAttempt
<1> QED
  BY <1>1, <1>2, <1>3, RowsUntouched, CopyUntouched, LeaseUntouched, EntryUntouched DEF IInv

LEMMA SpawnKeepsIInv == ASSUME IInv, NEW o \in Owners, Spawn(o) PROVE IInv'
<1> DEFINE p == [pid |-> spawned + 1, generation |-> Known(o).generation,
                 attempt |-> Len(Known(o).attempts)]
<1>1. /\ UNCHANGED <<boundary, now, job, lease, copy, entry>>
      /\ spawned' = spawned + 1 /\ registry' = [registry EXCEPT ![o] = p]
  BY DEF Spawn
<1>2. now' \in 1..MaxTime /\ spawned' \in Nat /\ spawned \in Nat
  BY <1>1 DEF IInv, RowFits
<1>3. Known(o) \in Jobs /\ Older(Known(o), job)
  BY KnownIsOlder
<1>4. p \in Processes /\ p.pid = spawned + 1 /\ OfItsAttempt(p)
  <2>1. Len(Known(o).attempts) \in Nat /\ Known(o).generation \in Nat
    BY <1>3 DEF Jobs
  <2> QED
    BY <1>2, <1>3, <2>1 DEF Processes, Older, OfItsAttempt
<1> HIDE DEF p
<1>5. ReceiptsFit'
  <2>1. registry' \in [Owners -> Processes \cup {None}]
    BY <1>1, <1>4 DEF IInv, ReceiptsFit
  <2>2. ASSUME NEW r \in Owners, registry'[r] # None
        PROVE  registry'[r].pid \in 1..spawned' /\ OfItsAttempt(registry'[r])
    <3>1. CASE r = o
      BY <1>1, <1>2, <1>4, <3>1 DEF IInv, ReceiptsFit
    <3>2. CASE r # o
      <4>1. registry'[r] = registry[r] /\ registry[r] # None
        BY <1>1, <2>2, <3>2 DEF IInv, ReceiptsFit
      <4> QED
        BY <1>1, <1>2, <4>1 DEF IInv, ReceiptsFit
    <3> QED
      BY <3>1, <3>2
  <2> QED
    BY <1>1, <2>1, <2>2 DEF ReceiptsFit, OfItsAttempt
<1> QED
  BY <1>1, <1>2, <1>5, RowsUntouched, CopyUntouched, LeaseUntouched, EntryUntouched DEF IInv

LEMMA RebindProcessKeepsIInv ==
  ASSUME IInv, NEW o \in Owners, RebindProcess(o)
  PROVE  IInv'
<1> DEFINE p == [registry[o] EXCEPT !.generation = Known(o).generation]
<1>1. /\ UNCHANGED <<boundary, now, job, lease, copy, entry, spawned>>
      /\ registry[o] # None /\ registry[o].attempt = Len(Known(o).attempts)
      /\ registry' = [registry EXCEPT ![o] = p]
  BY DEF RebindProcess, SameAttempt
<1>2. now' \in 1..MaxTime /\ spawned' \in Nat
  BY <1>1 DEF IInv, RowFits
<1>3. Known(o) \in Jobs /\ Older(Known(o), job)
  BY KnownIsOlder
<1>4. registry[o] \in Processes /\ registry[o].pid \in 1..spawned
  BY <1>1 DEF IInv, ReceiptsFit
<1>5. p \in Processes /\ p.pid = registry[o].pid /\ OfItsAttempt(p)
  BY <1>1, <1>3, <1>4 DEF Processes, Jobs, Older, OfItsAttempt
<1> HIDE DEF p
<1>6. ReceiptsFit'
  <2>1. registry' \in [Owners -> Processes \cup {None}]
    BY <1>1, <1>5 DEF IInv, ReceiptsFit
  <2>2. ASSUME NEW r \in Owners, registry'[r] # None
        PROVE  registry'[r].pid \in 1..spawned /\ OfItsAttempt(registry'[r])
    <3>1. CASE r = o
      BY <1>1, <1>4, <1>5, <3>1 DEF IInv, ReceiptsFit
    <3>2. CASE r # o
      <4>1. registry'[r] = registry[r] /\ registry[r] # None
        BY <1>1, <2>2, <3>2 DEF IInv, ReceiptsFit
      <4> QED
        BY <4>1 DEF IInv, ReceiptsFit
    <3> QED
      BY <3>1, <3>2
  <2> QED
    BY <1>1, <2>1, <2>2 DEF ReceiptsFit, OfItsAttempt
<1> QED
  BY <1>1, <1>2, <1>6, RowsUntouched, CopyUntouched, LeaseUntouched, EntryUntouched DEF IInv

LEMMA AcquireKeepsIInv == ASSUME IInv, NEW o \in Owners, Acquire(o) PROVE IInv'
<1> DEFINE l == [owner |-> o, generation |-> job.generation, process |-> None,
                 status |-> "active", renewed |-> now, number |-> 1]
<1>1. /\ UNCHANGED <<boundary, now, job, copy, registry, entry, spawned>>
      /\ lease = None /\ lease' = l
  BY DEF Acquire
<1>2. now' \in 1..MaxTime /\ now \in Nat /\ spawned' \in Nat /\ job.generation \in Nat
  BY <1>1, JobsAssumption DEF IInv, RowFits, Sound, Jobs
<1>3. l \in Leases /\ l.generation = job.generation /\ l.process = None /\ l.number = 1
  BY <1>2 DEF Leases
<1> HIDE DEF l
<1>4. l # None
  BY <1>3, NoneAssumption
<1>5. LeaseFits'
  BY <1>1, <1>2, <1>3, <1>4 DEF LeaseFits, LeaseBindsItsAttempt
<1>6. EntryFits'
  <2>1. ASSUME entry # None, entry.step = "found"
        PROVE  DecisionValid(entry)' /\ entry.number = None
    BY <1>1, <2>1 DEF IInv, EntryFits, Remembered, DecisionValid
  <2>2. LeaseNumber' = 1
    BY <1>1, <1>3, <1>4 DEF LeaseNumber
  <2> QED
    BY <1>1, <1>4, <2>1, <2>2, NoneAssumption
    DEF IInv, EntryFits, Remembered, Sound, RepeatedSafely, Older
<1> QED
  BY <1>1, <1>2, <1>5, <1>6, RowsUntouched, CopyUntouched, ReceiptsUntouched DEF IInv

LEMMA NumberedIs ==
  ASSUME NEW l \in Leases
  PROVE  /\ Numbered(l) \in Leases /\ Numbered(l).number = l.number + 1
         /\ Numbered(l).generation = l.generation /\ Numbered(l).process = l.process
BY DEF Numbered, Leases

(* Each change of a lease has the next number, and stays with the attempt. *)
LEMMA LeaseSteps ==
  ASSUME IInv, NEW o \in Owners, lease # None,
         NEW next \in UNION {Renewed(o, job, lease), Bound(o, job, lease),
                             Rebound(o, job, lease), Expired(lease), Released(o, job, lease)}
  PROVE  /\ next \in Leases /\ next.number = lease.number + 1
         /\ next.generation <= job.generation
         /\ next.process # None /\ next.generation = job.generation =>
              next.process.attempt = Len(job.attempts)
<1>1. /\ lease \in Leases /\ lease.generation \in Nat /\ lease.number \in Nat
      /\ lease.generation <= job.generation
      /\ lease.process # None /\ lease.generation = job.generation =>
           lease.process.attempt = Len(job.attempts)
  BY DEF IInv, LeaseFits, LeaseBindsItsAttempt, Leases
<1>2. now \in Nat /\ job.generation \in Nat
  BY JobsAssumption DEF IInv, RowFits, Sound, Jobs
<1>3. registry[o] # None => registry[o] \in Processes /\ OfItsAttempt(registry[o])
  BY DEF IInv, ReceiptsFit
<1>4. CASE next \in Renewed(o, job, lease)
  <2> DEFINE l == [lease EXCEPT !.renewed = now]
  <2>1. next = Numbered(l)
    BY <1>4 DEF Renewed
  <2>2. /\ l \in Leases /\ l.number = lease.number
        /\ l.generation = lease.generation /\ l.process = lease.process
    BY <1>1, <1>2 DEF Leases
  <2> HIDE DEF l
  <2> QED
    BY <1>1, <2>1, <2>2, NumberedIs
<1>5. CASE next \in Bound(o, job, lease)
  <2> DEFINE l == [lease EXCEPT !.process = registry[o]]
  <2>1. /\ next = Numbered(l)
        /\ registry[o] # None /\ registry[o].generation = job.generation
    BY <1>5 DEF Bound
  <2>2. registry[o] \in Processes /\ registry[o].attempt = Len(job.attempts)
    BY <1>3, <2>1 DEF OfItsAttempt
  <2>3. /\ l \in Leases /\ l.number = lease.number
        /\ l.generation = lease.generation /\ l.process = registry[o]
    BY <1>1, <2>2 DEF Leases
  <2> HIDE DEF l
  <2> QED
    BY <1>1, <2>1, <2>2, <2>3, NumberedIs
<1>6. CASE next \in Rebound(o, job, lease)
  <2>1. PICK p \in {q \in {registry[o], None} : q # None => q.generation = job.generation} :
          next = Numbered([lease EXCEPT !.generation = job.generation, !.renewed = now,
                                        !.process = p])
    BY <1>6 DEF Rebound
  <2> DEFINE l == [lease EXCEPT !.generation = job.generation, !.renewed = now, !.process = p]
  <2>2. /\ p \in Processes \cup {None}
        /\ p # None => p.attempt = Len(job.attempts)
    BY <1>3, <2>1 DEF OfItsAttempt
  <2>3. /\ l \in Leases /\ l.number = lease.number
        /\ l.generation = job.generation /\ l.process = p
    BY <1>1, <1>2, <2>2 DEF Leases
  <2>4. next = Numbered(l)
    BY <2>1
  <2> HIDE DEF l
  <2> QED
    BY <1>2, <2>2, <2>3, <2>4, NumberedIs
<1>7. CASE next \in Expired(lease)
  <2> DEFINE l == [lease EXCEPT !.status = "expired"]
  <2>1. next = Numbered(l)
    BY <1>7 DEF Expired
  <2>2. /\ l \in Leases /\ l.number = lease.number
        /\ l.generation = lease.generation /\ l.process = lease.process
    BY <1>1 DEF Leases
  <2> HIDE DEF l
  <2> QED
    BY <1>1, <2>1, <2>2, NumberedIs
<1>8. CASE next \in Released(o, job, lease)
  <2> DEFINE l == [lease EXCEPT !.status = "released"]
  <2>1. next = Numbered(l)
    BY <1>8 DEF Released
  <2>2. /\ l \in Leases /\ l.number = lease.number
        /\ l.generation = lease.generation /\ l.process = lease.process
    BY <1>1 DEF Leases
  <2> HIDE DEF l
  <2> QED
    BY <1>1, <2>1, <2>2, NumberedIs
<1> QED
  BY <1>4, <1>5, <1>6, <1>7, <1>8

LEMMA UpdateLeaseKeepsIInv ==
  ASSUME IInv, NEW o \in Owners, UpdateLease(o)
  PROVE  IInv'
<1>1. /\ UNCHANGED <<boundary, now, job, copy, registry, entry, spawned>>
      /\ lease # None
  BY DEF UpdateLease
<1>2. PICK next \in UNION {Renewed(o, job, lease), Bound(o, job, lease),
                           Rebound(o, job, lease), Expired(lease), Released(o, job, lease)} :
        lease' = next
  BY DEF UpdateLease
<1>3. /\ next \in Leases /\ next.number = lease.number + 1
      /\ next.generation <= job.generation
      /\ next.process # None /\ next.generation = job.generation =>
           next.process.attempt = Len(job.attempts)
  BY <1>1, <1>2, LeaseSteps
<1>4. next # None /\ lease.number \in Nat
  BY <1>1, <1>3, NoneAssumption DEF IInv, LeaseFits, Leases
<1>5. now' \in 1..MaxTime /\ spawned' \in Nat
  BY <1>1 DEF IInv, RowFits
<1>6. LeaseFits'
  BY <1>1, <1>2, <1>3, <1>4 DEF LeaseFits, LeaseBindsItsAttempt
<1>7. EntryFits'
  <2>1. ASSUME entry # None, entry.step = "found"
        PROVE  /\ DecisionValid(entry)' /\ entry.number \in Nat \cup {None}
               /\ entry.number \in Nat => entry.number <= lease.number
    BY <1>1, <2>1 DEF IInv, EntryFits, Remembered, DecisionValid
  <2>2. LeaseNumber' = lease.number + 1
    BY <1>2, <1>3, <1>4 DEF LeaseNumber
  <2>3. ASSUME entry # None, entry.step = "found"
        PROVE  /\ entry.number # LeaseNumber'
               /\ entry.number \in Nat => lease' # None /\ entry.number <= lease'.number
    BY <1>2, <1>3, <1>4, <2>1, <2>2, <2>3, NoneAssumption
  <2> QED
    BY <1>1, <2>1, <2>3 DEF IInv, EntryFits, Remembered, Sound, RepeatedSafely, Older
<1> QED
  BY <1>1, <1>5, <1>6, <1>7, RowsUntouched, CopyUntouched, ReceiptsUntouched DEF IInv

LEMMA ObserveJobKeepsIInv == ASSUME IInv, ObserveJob PROVE IInv'
<1>1. /\ UNCHANGED <<boundary, now, job, lease, copy, registry, spawned>>
      /\ entry' = [step |-> "reading", job |-> job, time |-> now]
  BY DEF ObserveJob
<1>2. /\ now' \in 1..MaxTime /\ now \in Nat /\ spawned' \in Nat
      /\ Sound(job) /\ Older(job, job)
  BY <1>1, JobsAssumption DEF IInv, RowFits, Sound, Jobs, Older
<1>3. EntryFits'
  BY <1>1, <1>2 DEF EntryFits, Sound, RepeatedSafely, Older
<1> QED
  BY <1>1, <1>2, <1>3, RowsUntouched, CopyUntouched, ReceiptsUntouched, LeaseUntouched DEF IInv

(* A process is found to be looked after only where there is one.          *)
LEMMA CurrentIsBound ==
  ASSUME NEW j, NEW l, NEW time, NEW observed,
         LeaseState(j, l, time) = "current", j.status \in Active,
         ProcessState(j, l, "current", observed) = "current"
  PROVE  l # None /\ l.process # None
BY DEF LeaseState, ProcessState

(* What the scheduler concludes passes the check of the record.            *)
LEMMA ActionIsValid ==
  ASSUME NEW e, Sound(e.job),
         e.action = Action(e.job, e.time, e.leaseState, e.processState)
  PROVE  DecisionValid(e)
<1> DEFINE j == e.job
<1>1. j \in Jobs /\ j.status \in Statuses
  BY DEF Sound, Jobs
<1>2. CASE j.status \in Active
  BY <1>2 DEF Action, DecisionValid
<1>3. CASE j.status \notin Active
  <2>1. e.action = Disposition(j, e.time)
    BY <1>3 DEF Action
  <2>2. j.status \in Terminal => j.cancellation # "requested"
    BY RequestIsWaiting DEF Sound, Terminal, WaitsForCancel
  <2> QED
    BY <1>1, <1>3, <2>1, <2>2
    DEF Disposition, DecisionValid, CanRetry, Terminal, Statuses, Working, Active
<1> QED
  BY <1>2, <1>3

LEMMA ObserveLeaseKeepsIInv == ASSUME IInv, ObserveLease PROVE IInv'
<1>1. /\ UNCHANGED <<boundary, now, job, lease, copy, registry, spawned>>
      /\ entry # None
  BY DEF ObserveLease
<1>2. PICK observed :
        entry' = [step |-> "found", job |-> entry.job, time |-> entry.time,
                  number |-> LeaseNumber,
                  leaseState |-> LeaseState(entry.job, lease, entry.time),
                  processState |-> ProcessState(entry.job, lease,
                                     LeaseState(entry.job, lease, entry.time), observed),
                  action |-> Action(entry.job, entry.time,
                               LeaseState(entry.job, lease, entry.time),
                               ProcessState(entry.job, lease,
                                 LeaseState(entry.job, lease, entry.time), observed))]
  BY DEF ObserveLease
<1>3. now' \in 1..MaxTime /\ spawned' \in Nat
  BY <1>1 DEF IInv, RowFits
<1>4. Sound(entry.job) /\ Older(entry.job, job) /\ entry.time \in Nat
  BY <1>1 DEF IInv, EntryFits
<1>5. /\ entry'.step = "found" /\ entry'.job = entry.job /\ entry'.time = entry.time
      /\ entry'.number = LeaseNumber
      /\ entry'.leaseState = LeaseState(entry.job, lease, entry.time)
      /\ entry'.processState = ProcessState(entry.job, lease, entry'.leaseState, observed)
      /\ entry'.action = Action(entry'.job, entry'.time, entry'.leaseState, entry'.processState)
  BY <1>2
<1>6. DecisionValid(entry')
  BY <1>4, <1>5, ActionIsValid
<1>7. /\ LeaseNumber \in Nat \cup {None}
      /\ LeaseNumber \in Nat => lease # None /\ LeaseNumber <= lease.number
  BY NoneAssumption DEF LeaseNumber, IInv, LeaseFits, Leases
<1>8. ASSUME entry'.action = "monitor"
      PROVE  /\ entry'.job.status \in Active /\ entry'.leaseState = "current"
             /\ lease # None /\ lease.process # None
  <2>1. entry.job.status \in Active /\ entry'.leaseState = "current" /\ entry'.processState = "current"
    BY <1>5, <1>6, <1>8 DEF DecisionValid
  <2> QED
    BY <1>5, <2>1, CurrentIsBound
<1>9. EntryFits'
  <2>1. LeaseNumber' = LeaseNumber /\ LeaseState(entry'.job, lease', entry'.time) = entry'.leaseState
    BY <1>1, <1>5 DEF LeaseNumber
  <2>2. Remembered'
    BY <1>1, <1>5, <1>7, <1>8, <2>1 DEF Remembered, LeaseState
  <2>3. DecisionValid(entry)'
    BY <1>6 DEF DecisionValid
  <2> QED
    BY <1>1, <1>4, <1>5, <1>7, <2>2, <2>3 DEF EntryFits, Sound, RepeatedSafely, Older
<1> QED
  BY <1>1, <1>3, <1>9, RowsUntouched, CopyUntouched, ReceiptsUntouched, LeaseUntouched DEF IInv

LEMMA NextKeepsIInv == IInv /\ [Next]_vars => IInv'
<1> SUFFICES ASSUME IInv, [Next]_vars PROVE IInv'
  OBVIOUS
<1>1. CASE Tick
  BY <1>1, TickKeepsIInv
<1>2. CASE ReadJob
  BY <1>2, ReadJobKeepsIInv
<1>3. CASE ObserveJob
  BY <1>3, ObserveJobKeepsIInv
<1>4. CASE ObserveLease
  BY <1>4, ObserveLeaseKeepsIInv
<1>5. ASSUME NEW o \in Owners, UpdateJob(o) PROVE IInv'
  BY <1>5, UpdateJobKeepsIInv
<1>6. ASSUME NEW o \in Owners, Acquire(o) PROVE IInv'
  BY <1>6, AcquireKeepsIInv
<1>7. ASSUME NEW o \in Owners, UpdateLease(o) PROVE IInv'
  BY <1>7, UpdateLeaseKeepsIInv
<1>8. ASSUME NEW o \in Owners, Spawn(o) PROVE IInv'
  BY <1>8, SpawnKeepsIInv
<1>9. ASSUME NEW o \in Owners, RebindProcess(o) PROVE IInv'
  BY <1>9, RebindProcessKeepsIInv
<1>10. ASSUME NEW o \in Owners, Crash(o) PROVE IInv'
  BY <1>10, CrashKeepsIInv
<1>11. CASE UNCHANGED vars
  <2>1. UNCHANGED <<boundary, now, job, lease, copy, registry, entry, spawned>>
    BY <1>11 DEF vars, memory
  <2>2. now' \in 1..MaxTime /\ spawned' \in Nat
    BY <2>1 DEF IInv, RowFits
  <2> QED
    BY <2>1, <2>2, RowsUntouched, CopyUntouched, ReceiptsUntouched, LeaseUntouched,
       EntryUntouched DEF IInv
<1> QED
  BY <1>1, <1>2, <1>3, <1>4, <1>5, <1>6, <1>7, <1>8, <1>9, <1>10, <1>11 DEF Next

LEMMA IInvHolds == Spec => []IInv
BY InitEstablishesIInv, NextKeepsIInv, PTL DEF Spec

-----------------------------------------------------------------------------
(* The theorems *)

(* The rows of the store are sound and fit each other: background_job.rs   *)
(* and background_scheduler_lease.rs validate them apart, and no order of  *)
(* their transactions, restarts or lost processes lets a lease of a job    *)
(* hold a process of another attempt than the job's.                       *)
THEOREM RowsStaySound == Spec => []RowsAreSound
<1>1. IInv => RowsAreSound
  <2> SUFFICES ASSUME IInv PROVE RowsAreSound
    OBVIOUS
  <2>1. job \in Jobs /\ Valid(job)
    BY DEF IInv, RowFits, Sound
  <2>2. job.generation \in 0..MaxGeneration /\ job.eligible \in 1..(MaxTime + Backoff)
    BY <2>1, JobsAssumption DEF IInv, RowFits, Jobs
  <2>3. copy.generation <= job.generation
    BY DEF IInv, CopyFits, Older
  <2>4. entry # None => entry.job.generation <= job.generation
    BY DEF IInv, EntryFits, Older
  <2> QED
    BY <2>1, <2>2, <2>3, <2>4 DEF RowsAreSound, TypeOK, IInv, RowFits, Jobs, ReceiptsFit, LeaseFits
<1> QED
  BY <1>1, IInvHolds, PTL

(* Work is repeated only after an attempt that ended at a safe boundary,   *)
(* however often a runtime is restarted (background_job.rs, retry and      *)
(* recover_after_restart).                                                 *)
THEOREM RetriesStaySafe == Spec => []RetriesAreSafe
<1>1. IInv => RetriesAreSafe
  <2> SUFFICES ASSUME IInv, NEW n \in 1..(Len(job.attempts) - 1)
               PROVE  job.attempts[n].retryable /\ boundary
    BY DEF RetriesAreSafe
  <2>1. Len(job.attempts) \in Nat /\ RepeatedSafely(job.attempts)
    BY DEF IInv, RowFits, Sound, Jobs
  <2>2. n \in 1..Len(job.attempts)
    BY <2>1
  <2> QED
    BY <2>1, <2>2 DEF RepeatedSafely
<1> QED
  BY <1>1, IInvHolds, PTL

(* No job is stuck: whatever the state machine of background_job.rs makes  *)
(* of a job the store's table of events lets pass, and a job that has not  *)
(* ended can be cancelled.                                                 *)
THEOREM JobsCanEnd == Spec => []EveryJobCanEnd
<1>1. IInv => EveryJobCanEnd
  <2> SUFFICES ASSUME IInv PROVE EveryJobCanEnd
    OBVIOUS
  <2>1. \A next \in JobSteps(job) : HasEvent(job, next)
    BY JobIsReady DEF IInv, Step
  <2>2. job.status \notin Terminal => RequestCancel(job) \cup AcknowledgeCancel(job) # {}
    BY CancellationIsOpen DEF IInv, RowFits
  <2> QED
    BY <2>1, <2>2 DEF EveryJobCanEnd, EveryStepHasAnEvent, CancellationIsAlwaysOpen
<1> QED
  BY <1>1, IInvHolds, PTL

(* The scheduler's decisions can be recorded, and are true of the rows at  *)
(* the moment they are recorded, although job and lease were read in two   *)
(* queries (background_recovery_decision.rs and the store's comparison).   *)
THEOREM DecisionsStaySound == Spec => []DecisionsAreSound
<1>1. IInv => DecisionsAreSound
  <2> SUFFICES ASSUME IInv PROVE DecisionsAreSound
    OBVIOUS
  <2>1. DecisionsCanBeRecorded
    BY DEF IInv, EntryFits, DecisionsCanBeRecorded
  <2>2. DecisionsAgreeWithRows
    <3> SUFFICES ASSUME Recordable(entry)
                 PROVE  /\ entry.leaseState = LeaseState(job, lease, entry.time)
                        /\ entry.action = "monitor" =>
                             /\ Running(job) /\ job.status \in Active
                             /\ lease.owner = Observer /\ lease.generation = job.generation
                             /\ lease.process # None
                             /\ lease.process.attempt = Len(job.attempts)
      BY DEF DecisionsAgreeWithRows
    <3>1. entry # None /\ entry.step = "found" /\ entry.job = job /\ entry.number = LeaseNumber
      BY DEF Recordable, EvidenceIsCurrent
    <3>2. /\ entry.leaseState = LeaseState(job, lease, entry.time)
          /\ entry.action = "monitor" =>
               /\ job.status \in Active /\ entry.leaseState = "current"
               /\ lease # None /\ lease.process # None
      BY <3>1 DEF IInv, EntryFits, Remembered
    <3>3. ASSUME entry.action = "monitor"
          PROVE  Running(job)
      BY <3>2, <3>3, WorkingIsRunning DEF IInv, RowFits, Active, Working
    <3>4. ASSUME entry.action = "monitor"
          PROVE  lease.owner = Observer /\ lease.generation = job.generation
      <4>1. /\ lease.status \in {"active", "expired", "released"}
            /\ lease.renewed + Ttl \in Nat /\ entry.time \in Nat
        BY <3>1, <3>2, <3>4, JobsAssumption DEF IInv, LeaseFits, Leases, EntryFits
      <4> QED
        BY <3>2, <3>4, <4>1 DEF LeaseState
    <3>5. ASSUME entry.action = "monitor"
          PROVE  lease.process.attempt = Len(job.attempts)
      BY <3>2, <3>4, <3>5 DEF IInv, LeaseFits, LeaseBindsItsAttempt
    <3> QED
      BY <3>2, <3>3, <3>4, <3>5
  <2> QED
    BY <2>1, <2>2 DEF DecisionsAreSound
<1> QED
  BY <1>1, IInvHolds, PTL

(* A request to cancel is answered before an attempt is started: no        *)
(* operation of background_job.rs, on whichever copy, lets it fall.        *)
THEOREM CancelsAreKept == Spec => CancelIsNotLost
<1> DEFINE Kept ==
      job.cancellation = "requested" =>
        /\ Len(job'.attempts) = Len(job.attempts)
        /\ \/ job'.cancellation = "requested"
           \/ job'.cancellation = "acknowledged" /\ job'.status = "cancelled"
           \/ job'.cancellation = "superseded" /\ job'.status = "completed"
           \/ job'.cancellation = "failed" /\ job.status # "queued"
<1>1. IInv /\ [Next]_vars => [Kept]_job
  <2> SUFFICES ASSUME IInv, [Next]_vars, job' # job PROVE Kept
    OBVIOUS
  <2>1. PICK o \in Owners : UpdateJob(o)
    BY DEF Next, vars, memory, Tick, ReadJob, ObserveJob, ObserveLease, Acquire, UpdateLease,
           Spawn, RebindProcess, Crash
  <2>2. PICK next \in JobSteps(job) : job' = next
    BY <2>1 DEF UpdateJob, UnchangedRow
  <2> QED
    BY <2>2, JobIsReady DEF IInv, Step, Answered
<1> QED
  BY <1>1, IInvHolds, PTL DEF Spec, CancelIsNotLost
=============================================================================
