--------------------------- MODULE JobQueueProofs ---------------------------
(***************************************************************************)
(* Theorems about JobQueue, for any number of workers, callers, keys, jobs *)
(* and attempts.  The argument has two parts: every transaction changes a  *)
(* row in one of six ways (Kept to Buried), and a worker believes in leases*)
(* only while it is in a tick, under an attempt number the row has reached *)
(* (LeaseInv).                                                             *)
(***************************************************************************)
EXTENDS JobQueue, TLAPS

USE DEF Ids

\* What a row that was never inserted looks like to enqueue_job.
AbsentUntouched ==
    \A j \in Ids : job[j].state = "none" => job[j].attempts = 0

\* A worker outside a tick has no lease in mind, one between two jobs has no
\* current lease.
AtRest(r) ==
    /\ r.pc \in {"down", "idle"} => r.batch = {}
    /\ r.pc \in {"down", "idle", "next"} => r.current = {}

\* No believed lease is ahead of its row.
LeaseInv ==
    \A w \in Workers :
        /\ AtRest(worker[w])
        /\ \A l \in Believed(w) : l.attempts <= job[l.id].attempts

\* The inductive invariant of the queue.
IInv ==
    /\ TypeOK
    /\ QueuedHasAttempts
    /\ AbsentUntouched
    /\ LeaseInv
    /\ OwnerHasLatestLease
    /\ AttemptIdentifiesLease
    /\ ActiveKeyUnique

-----------------------------------------------------------------------------
(* The ways a transaction may change a row.                                *)

Kept(old, new) ==
    /\ new.state = old.state
    /\ new.attempts = old.attempts
    /\ new.key = old.key
    /\ new.owner = old.owner

Inserted(old, new) ==
    old.state = "none" /\ new.state = "queued" /\ new.attempts = 0

Leased(old, new) ==
    /\ old.state = "queued"
    /\ new.state = "leased"
    /\ new.attempts = old.attempts + 1
    /\ new.key = old.key

Completed(old, new) ==
    /\ old.state = "leased"
    /\ new.state = "succeeded"
    /\ new.attempts = old.attempts
    /\ new.key = old.key

Requeued(old, new) ==
    /\ old.state = "leased"
    /\ new.state = "queued"
    /\ new.attempts = old.attempts
    /\ old.attempts < MaxAttempts
    /\ new.key = old.key

Buried(old, new) ==
    /\ old.state = "leased"
    /\ new.state = "dead_letter"
    /\ new.attempts = old.attempts
    /\ old.attempts = MaxAttempts
    /\ new.key = old.key

\* The steps of every transaction but lease_jobs.
Unleased(old, new) ==
    \/ Kept(old, new) \/ Inserted(old, new)
    \/ Completed(old, new) \/ Requeued(old, new) \/ Buried(old, new)

\* Changing one column of a row keeps it a row.
LEMMA ColumnUpdate ==
    ASSUME NEW row \in Job
    PROVE  /\ \A v \in JobState : [row EXCEPT !.state = v] \in Job
           /\ \A v \in 0..MaxAttempts : [row EXCEPT !.attempts = v] \in Job
           /\ \A v \in Workers \cup {NoWorker} :
                [row EXCEPT !.owner = v] \in Job
           /\ \A v \in 0..LeaseTime : [row EXCEPT !.lease = v] \in Job
           /\ \A v \in 0..DelayCap : [row EXCEPT !.wait = v] \in Job
  BY DEF Job

\* The columns a lease or an acknowledgement changes, and the time passing.
LEMMA LeaseColumns ==
    ASSUME NEW row \in Job, NEW s \in JobState,
           NEW o \in Workers \cup {NoWorker}, NEW l \in 0..LeaseTime
    PROVE  [row EXCEPT !.state = s, !.owner = o, !.lease = l] \in Job
  <1> DEFINE r1 == [row EXCEPT !.state = s]
             r2 == [r1 EXCEPT !.owner = o]
             r3 == [r2 EXCEPT !.lease = l]
  <1>1. r1 \in Job
    BY ColumnUpdate
  <1> HIDE DEF r1
  <1>2. r2 \in Job
    BY <1>1, ColumnUpdate
  <1> HIDE DEF r2
  <1>3. r3 \in Job
    BY <1>2, ColumnUpdate
  <1> QED BY <1>3 DEF r1, r2

\* lease_jobs also counts the attempt.
LEMMA CountedColumns ==
    ASSUME NEW row \in Job, NEW s \in JobState,
           NEW o \in Workers \cup {NoWorker}, NEW l \in 0..LeaseTime,
           NEW a \in 0..MaxAttempts
    PROVE  [row EXCEPT !.state = s, !.owner = o, !.lease = l, !.attempts = a]
              \in Job
  <1> DEFINE r == [row EXCEPT !.state = s, !.owner = o, !.lease = l]
  <1>1. r \in Job
    BY LeaseColumns
  <1> HIDE DEF r
  <1>2. [r EXCEPT !.attempts = a] \in Job
    BY <1>1, ColumnUpdate
  <1> QED BY <1>2 DEF r

\* fail_job and reclaim_expired_leases also set next_attempt_at.
LEMMA ReleaseColumns ==
    ASSUME NEW row \in Job, NEW s \in JobState,
           NEW o \in Workers \cup {NoWorker}, NEW l \in 0..LeaseTime,
           NEW d \in 0..DelayCap
    PROVE  [row EXCEPT !.state = s, !.owner = o, !.lease = l, !.wait = d]
              \in Job
  <1> DEFINE r == [row EXCEPT !.state = s, !.owner = o, !.lease = l]
  <1>1. r \in Job
    BY LeaseColumns
  <1> HIDE DEF r
  <1>2. [r EXCEPT !.wait = d] \in Job
    BY <1>1, ColumnUpdate
  <1> QED BY <1>2 DEF r

LEMMA ClockColumns ==
    ASSUME NEW row \in Job, NEW l \in 0..LeaseTime, NEW d \in 0..DelayCap
    PROVE  [row EXCEPT !.lease = l, !.wait = d] \in Job
  <1> DEFINE r == [row EXCEPT !.lease = l]
  <1>1. r \in Job
    BY ColumnUpdate
  <1> HIDE DEF r
  <1>2. [r EXCEPT !.wait = d] \in Job
    BY <1>1, ColumnUpdate
  <1> QED BY <1>2 DEF r

\* fail_job and reclaim_expired_leases leave a well-formed row, requeued or
\* buried (queue.py:163-169, 192-198).
LEMMA ReleasedRow ==
    ASSUME NEW row \in Job, row.state = "leased", NEW delay \in 0..DelayCap
    PROVE  /\ Released(row, delay) \in Job
           /\ Requeued(row, Released(row, delay))
                \/ Buried(row, Released(row, delay))
  <1>0. /\ 0 \in 0..LeaseTime /\ 0 \in 0..DelayCap /\ 0 \in 0..MaxAttempts
        /\ NoWorker \in Workers \cup {NoWorker}
        /\ "dead_letter" \in JobState /\ "queued" \in JobState
    BY QueueAssumption DEF QueueAssumption, JobState
  <1>1. CASE row.attempts >= MaxAttempts
    <2>0. [row EXCEPT !.state = "dead_letter", !.owner = NoWorker,
                      !.lease = 0, !.wait = 0] \in Job
      BY <1>0, ReleaseColumns
    <2>1. Released(row, delay) = [row EXCEPT !.state = "dead_letter",
                            !.owner = NoWorker, !.lease = 0, !.wait = 0]
      BY <1>1 DEF Released
    <2>2. Released(row, delay) \in Job
      BY <2>0, <2>1
    <2>3. Buried(row, Released(row, delay))
      BY <1>1, <2>1, QueueAssumption DEF QueueAssumption, Job, Buried
    <2> QED BY <2>2, <2>3
  <1>2. CASE ~(row.attempts >= MaxAttempts)
    <2>0. [row EXCEPT !.state = "queued", !.owner = NoWorker,
                      !.lease = 0, !.wait = delay] \in Job
      BY <1>0, ReleaseColumns
    <2>1. Released(row, delay) = [row EXCEPT !.state = "queued",
                            !.owner = NoWorker, !.lease = 0, !.wait = delay]
      BY <1>2 DEF Released
    <2>2. Released(row, delay) \in Job
      BY <2>0, <2>1
    <2>3. Requeued(row, Released(row, delay))
      BY <1>2, <2>1, QueueAssumption DEF QueueAssumption, Job, Requeued
    <2> QED BY <2>2, <2>3
  <1> QED BY <1>1, <1>2

\* retry_delay never exceeds its cap.
LEMMA RetryDelayBounded ==
    ASSUME NEW n PROVE RetryDelay(n) \in 0..DelayCap
  BY QueueAssumption DEF QueueAssumption, RetryDelay

-----------------------------------------------------------------------------
(* What each action does to the rows.                                      *)

\* Every step but a lease.
Other ==
    \/ \E c \in Callers, k \in Keys, p \in Priorities : Enqueue(c, k, p)
    \/ \E c \in Callers : LookUp(c)
    \/ \E w \in Workers :
         Step(w) \/ Shutdown(w) \/ Stop(w) \/ Crash(w) \/ Start(w)
    \/ Tick

\* lease_jobs: the selected rows are leased to the worker under the next
\* attempt number, the other rows stay as they are.
LEMMA LeaseRowsStep ==
    ASSUME TypeOK, QueuedHasAttempts, NEW w \in Workers,
           NEW S \in Selected(w), job' = LeaseRows(w, S)
    PROVE  /\ job' \in [Ids -> Job]
           /\ \A j \in S : Leased(job[j], job'[j]) /\ job'[j].owner = w
           /\ \A j \in Ids \ S : job'[j] = job[j]
           /\ S \subseteq Ids
  <1>1. S \subseteq Ids /\ \A j \in S : job[j].state = "queued"
    BY DEF Selected, Ready
  <1>2. ASSUME NEW j \in S
        PROVE  job'[j] \in Job /\ Leased(job[j], job'[j]) /\ job'[j].owner = w
    <2>1. j \in Ids /\ job[j] \in Job /\ job[j].state = "queued"
      BY <1>1, <1>2 DEF TypeOK
    <2>2. job'[j] = [job[j] EXCEPT !.state = "leased", !.owner = w,
                       !.lease = LeaseTime, !.attempts = job[j].attempts + 1]
      BY <2>1, <1>2 DEF LeaseRows
    <2>3. job[j].attempts + 1 \in 0..MaxAttempts
      BY <2>1, QueueAssumption DEF QueueAssumption, QueuedHasAttempts, Job
    <2>4. "leased" \in JobState /\ LeaseTime \in 0..LeaseTime
          /\ w \in Workers \cup {NoWorker}
      BY QueueAssumption DEF QueueAssumption, JobState
    <2>5. [job[j] EXCEPT !.state = "leased", !.owner = w,
             !.lease = LeaseTime, !.attempts = job[j].attempts + 1] \in Job
      BY <2>1, <2>3, <2>4, CountedColumns
    <2>6. job'[j] \in Job
      BY <2>2, <2>5
    <2>7. Leased(job[j], job'[j]) /\ job'[j].owner = w
      BY <2>1, <2>2 DEF Leased, Job
    <2> QED BY <2>6, <2>7
  <1>3. ASSUME NEW j \in Ids \ S PROVE job'[j] = job[j]
    BY <1>3 DEF LeaseRows
  <1>4. job' = [j \in Ids |-> job'[j]]
    BY DEF LeaseRows
  <1>5. \A j \in Ids : job'[j] \in Job
    BY <1>2, <1>3 DEF TypeOK
  <1> QED BY <1>1, <1>2, <1>3, <1>4, <1>5

\* enqueue_job inserts a queued row of no attempts where no row was.
LEMMA EnqueueRows ==
    ASSUME TypeOK, AbsentUntouched, NEW c \in Callers, NEW k \in Keys,
           NEW p \in Priorities, Enqueue(c, k, p)
    PROVE  /\ job' \in [Ids -> Job]
           /\ \A j \in Ids : Unleased(job[j], job'[j])
  <1>1. CASE job' = job
    BY <1>1 DEF TypeOK, Unleased, Kept
  <1>2. CASE ActiveWith(k) = {} /\ Insert(k, p)
    <2> DEFINE row == NewJob(k, p)
    <2>1. PICK i \in Ids : job[i].state = "none" /\ job' = [job EXCEPT ![i] = row]
      BY <1>2 DEF Insert
    <2>2. k \in Keys \cup {NoKey} /\ p \in Int
      BY QueueAssumption DEF QueueAssumption
    <2>3. row \in Job
      BY <2>2, QueueAssumption DEF QueueAssumption, NewJob, Job, JobState
    <2>4. Unleased(job[i], row)
      BY <2>1 DEF Unleased, Inserted, NewJob
    <2> HIDE DEF row
    <2>5. \A j \in Ids : j # i => Unleased(job[j], job'[j])
      BY <2>1 DEF TypeOK, Unleased, Kept
    <2>6. job'[i] = row
      BY <2>1 DEF TypeOK
    <2>7. job' \in [Ids -> Job]
      BY <2>1, <2>3 DEF TypeOK
    <2> QED BY <2>4, <2>5, <2>6, <2>7
  <1> QED BY <1>1, <1>2 DEF Enqueue

\* A single row changed by acknowledge_job or fail_job.
LEMMA OneRow ==
    ASSUME TypeOK, NEW i \in Ids, NEW row \in Job, Unleased(job[i], row),
           job' = [job EXCEPT ![i] = row]
    PROVE  /\ job' \in [Ids -> Job]
           /\ \A j \in Ids : Unleased(job[j], job'[j])
  <1>1. \A j \in Ids : j # i => Unleased(job[j], job'[j])
    BY DEF TypeOK, Unleased, Kept
  <1>2. job'[i] = row
    BY DEF TypeOK
  <1> QED BY <1>1, <1>2 DEF TypeOK

\* acknowledge_job and fail_job.
LEMMA StepRows ==
    ASSUME TypeOK, NEW w \in Workers, Step(w)
    PROVE  /\ job' \in [Ids -> Job]
           /\ \A j \in Ids : Unleased(job[j], job'[j])
  <1>1. CASE job' = job
    BY <1>1 DEF TypeOK, Unleased, Kept
  <1>2. CASE Acknowledge(w) /\ job' # job
    <2>1. PICK l \in worker[w].current :
            /\ Holds(w, l.id)
            /\ job' = [job EXCEPT ![l.id] = Acknowledged(@)]
      BY <1>2 DEF Acknowledge
    <2>2. l.id \in Ids /\ job[l.id] \in Job
      BY <2>1 DEF TypeOK, Worker, Lease
    <2>3. "succeeded" \in JobState /\ NoWorker \in Workers \cup {NoWorker}
          /\ 0 \in 0..LeaseTime
      BY QueueAssumption DEF QueueAssumption, JobState
    <2>4. [job[l.id] EXCEPT !.state = "succeeded", !.owner = NoWorker,
                            !.lease = 0] \in Job
      BY <2>2, <2>3, LeaseColumns
    <2>5. Acknowledged(job[l.id]) \in Job
      BY <2>4 DEF Acknowledged
    <2>6. Completed(job[l.id], Acknowledged(job[l.id]))
      BY <2>1, <2>2 DEF Completed, Acknowledged, Holds, Job
    <2>7. job' = [job EXCEPT ![l.id] = Acknowledged(job[l.id])]
      BY <2>1
    <2> QED BY <2>2, <2>5, <2>6, <2>7, OneRow DEF Unleased
  <1>3. CASE Fail(w) /\ job' # job
    <2>1. PICK l \in worker[w].current :
            /\ Holds(w, l.id)
            /\ job' = [job EXCEPT ![l.id] =
                         Released(@, RetryDelay(@.attempts))]
      BY <1>3 DEF Fail
    <2> DEFINE row == Released(job[l.id], RetryDelay(job[l.id].attempts))
    <2>2. l.id \in Ids /\ job[l.id] \in Job /\ job[l.id].state = "leased"
      BY <2>1 DEF TypeOK, Worker, Lease, Holds
    <2>3. row \in Job /\ Unleased(job[l.id], row)
      BY <2>2, ReleasedRow, RetryDelayBounded DEF Unleased
    <2>4. job' = [job EXCEPT ![l.id] = row]
      BY <2>1
    <2> HIDE DEF row
    <2> QED BY <2>2, <2>3, <2>4, OneRow
  <1> QED BY <1>1, <1>2, <1>3 DEF Step, TakeJob, EndTick, Handle

\* reclaim_expired_leases.
LEMMA StartRows ==
    ASSUME TypeOK, NEW w \in Workers, Start(w)
    PROVE  /\ job' \in [Ids -> Job]
           /\ \A j \in Ids : Unleased(job[j], job'[j])
  <1>1. PICK S \in SUBSET Ids :
          /\ Reclaimable(S)
          /\ job' = [j \in Ids |->
                       IF j \in S THEN Released(job[j], 0) ELSE job[j]]
    BY DEF Start
  <1>2. ASSUME NEW j \in Ids
        PROVE  job'[j] \in Job /\ Unleased(job[j], job'[j])
    <2>1. CASE j \in S
      <3>1. job[j] \in Job /\ job[j].state = "leased"
        BY <1>1, <2>1 DEF TypeOK, Reclaimable, Expired
      <3>2. 0 \in 0..DelayCap
        BY QueueAssumption DEF QueueAssumption
      <3>3. job'[j] = Released(job[j], 0)
        BY <1>1, <2>1
      <3>4. /\ Released(job[j], 0) \in Job
            /\ \/ Requeued(job[j], Released(job[j], 0))
               \/ Buried(job[j], Released(job[j], 0))
        BY <3>1, <3>2, ReleasedRow
      <3> QED BY <3>3, <3>4 DEF Unleased
    <2>2. CASE j \notin S
      BY <1>1, <2>2 DEF TypeOK, Unleased, Kept
    <2> QED BY <2>1, <2>2
  <1>3. job' = [j \in Ids |-> job'[j]]
    BY <1>1
  <1> QED BY <1>2, <1>3

\* The clock changes only the times left.
LEMMA TickRows ==
    ASSUME TypeOK, Tick
    PROVE  /\ job' \in [Ids -> Job]
           /\ \A j \in Ids : Unleased(job[j], job'[j])
  <1>1. ASSUME NEW j \in Ids
        PROVE  job'[j] \in Job /\ Unleased(job[j], job'[j])
    <2>1. job[j] \in Job
      BY DEF TypeOK
    <2>2. job'[j] = [job[j] EXCEPT !.lease = Less(job[j].lease),
                                   !.wait = Less(job[j].wait)]
      BY DEF Tick
    <2>3. Less(job[j].lease) \in 0..LeaseTime /\ Less(job[j].wait) \in 0..DelayCap
      BY <2>1, QueueAssumption DEF QueueAssumption, Job, Less
    <2>4. [job[j] EXCEPT !.lease = Less(job[j].lease),
                         !.wait = Less(job[j].wait)] \in Job
      BY <2>1, <2>3, ClockColumns
    <2>5. Kept(job[j], job'[j])
      BY <2>1, <2>2 DEF Kept, Job
    <2> QED BY <2>2, <2>4, <2>5 DEF Unleased
  <1>2. job' = [j \in Ids |-> job'[j]]
    BY DEF Tick
  <1> QED BY <1>1, <1>2

\* No action but a lease leases a row.
LEMMA OtherRows ==
    ASSUME TypeOK, AbsentUntouched, Other
    PROVE  /\ job' \in [Ids -> Job]
           /\ \A j \in Ids : Unleased(job[j], job'[j])
  <1>1. CASE job' = job
    BY <1>1 DEF TypeOK, Unleased, Kept
  <1>2. CASE \E c \in Callers, k \in Keys, p \in Priorities : Enqueue(c, k, p)
    BY <1>2, EnqueueRows
  <1>3. CASE \E w \in Workers : Step(w)
    BY <1>3, StepRows
  <1>4. CASE \E w \in Workers : Start(w)
    BY <1>4, StartRows
  <1>5. CASE Tick
    BY <1>5, TickRows
  <1> QED
    BY <1>1, <1>2, <1>3, <1>4, <1>5 DEF Other, LookUp, Shutdown, Stop, Crash

-----------------------------------------------------------------------------
(* What each action does to the workers.                                   *)

\* A worker only forgets leases, or moves one from its batch to be handled.
Forgets(old, new) ==
    /\ AtRest(new)
    /\ new.batch \cup new.current \subseteq old.batch \cup old.current

\* The steps of a tick.
LEMMA TickStepWorkers ==
    ASSUME TypeOK, LeaseInv, NEW w \in Workers, Step(w)
    PROVE  /\ worker' \in [Workers -> Worker]
           /\ Forgets(worker[w], worker'[w])
           /\ \A v \in Workers \ {w} : worker'[v] = worker[v]
  <1> USE DEF TypeOK, Worker, Forgets, AtRest
  <1>0. AtRest(worker[w])
    BY DEF LeaseInv
  <1>1. CASE TakeJob(w)
    BY <1>0, <1>1 DEF TakeJob
  <1>2. CASE EndTick(w)
    BY <1>0, <1>2 DEF EndTick
  <1>3. CASE Handle(w)
    BY <1>0, <1>3 DEF Handle
  <1>4. CASE NextLease(w)
    BY <1>0, <1>4 DEF NextLease
  <1>5. CASE ToFail(w)
    BY <1>0, <1>5 DEF ToFail
  <1>6. CASE LeaveTick(w)
    BY <1>0, <1>6 DEF LeaveTick, Resting
  <1> QED
    BY <1>1, <1>2, <1>3, <1>4, <1>5, <1>6 DEF Step, Acknowledge, Fail

\* No action but a lease gives a worker a lease.
LEMMA OtherWorkers ==
    ASSUME TypeOK, LeaseInv, Other
    PROVE  /\ worker' \in [Workers -> Worker]
           /\ \A v \in Workers : Forgets(worker[v], worker'[v])
           /\ asking' \in [Callers -> Keys \cup {NoKey}]
  <1>1. ASSUME NEW v \in Workers PROVE Forgets(worker[v], worker[v])
    BY DEF LeaseInv, Forgets
  <1>2. CASE worker' = worker /\ \E c \in Callers, k \in Keys, p \in Priorities :
                                    Enqueue(c, k, p)
    BY <1>1, <1>2 DEF Enqueue, TypeOK
  <1>3. CASE worker' = worker /\ \E c \in Callers : LookUp(c)
    BY <1>1, <1>3 DEF LookUp, TypeOK
  <1>4. CASE \E w \in Workers : Step(w)
    <2>1. PICK w \in Workers : Step(w)
      BY <1>4
    <2>2. asking' = asking
      BY <2>1 DEF Step, TakeJob, EndTick, Handle, Acknowledge, Fail
    <2> QED BY <1>1, <2>1, <2>2, TickStepWorkers DEF TypeOK
  <1>5. CASE \E w \in Workers : Shutdown(w) \/ Stop(w) \/ Crash(w) \/ Start(w)
    <2>1. PICK w \in Workers : Shutdown(w) \/ Stop(w) \/ Crash(w) \/ Start(w)
      BY <1>5
    <2>2. asking' = asking
      BY <2>1 DEF Shutdown, Stop, Crash, Start
    <2>3. CASE Shutdown(w)
      BY <1>1, <2>2, <2>3
      DEF Shutdown, Forgets, AtRest, TypeOK, Worker
    <2>4. CASE Stop(w) \/ Crash(w)
      <3>1. worker' = [worker EXCEPT ![w] = Down]
        BY <2>4 DEF Stop, Crash
      <3>2. Down \in Worker /\ AtRest(Down)
            /\ Down.batch = {} /\ Down.current = {}
        BY DEF Down, Worker, AtRest
      <3> QED BY <1>1, <2>2, <3>1, <3>2 DEF Forgets, TypeOK
    <2>5. CASE Start(w)
      <3>1. worker' = [worker EXCEPT ![w] = Resting]
        BY <2>5 DEF Start
      <3>2. Resting \in Worker /\ AtRest(Resting)
            /\ Resting.batch = {} /\ Resting.current = {}
        BY DEF Resting, Worker, AtRest
      <3> QED BY <1>1, <2>2, <3>1, <3>2 DEF Forgets, TypeOK
    <2> QED BY <2>1, <2>3, <2>4, <2>5
  <1>6. CASE Tick
    BY <1>1, <1>6 DEF Tick, TypeOK
  <1> QED
    BY <1>2, <1>3, <1>4, <1>5, <1>6 DEF Other, Enqueue, LookUp

\* A lease gives the worker the leases of the selected rows, under the
\* attempt numbers those rows now carry, or none at all.
LEMMA LeaseWorkers ==
    ASSUME TypeOK, QueuedHasAttempts, LeaseInv, NEW w \in Workers,
           NEW S \in Selected(w), worker[w].pc = "idle",
           job' = LeaseRows(w, S),
           \/ worker' = [worker EXCEPT ![w].pc = "next",
                                       ![w].batch = LeasesOf(S)]
           \/ worker' = worker
    PROVE  /\ worker' \in [Workers -> Worker]
           /\ AtRest(worker'[w])
           /\ \A l \in worker'[w].batch \cup worker'[w].current :
                l.id \in S /\ l.attempts = job'[l.id].attempts
           /\ \A v \in Workers \ {w} : worker'[v] = worker[v]
  <1>1. worker[w].batch = {} /\ worker[w].current = {}
    BY DEF LeaseInv, AtRest
  <1>2. S \subseteq Ids /\ \A j \in S : Leased(job[j], job'[j])
    BY LeaseRowsStep
  <1>3. \A l \in LeasesOf(S) : l.id \in S /\ l.attempts = job'[l.id].attempts
    BY <1>2 DEF LeasesOf, Leased
  <1>4. LeasesOf(S) \subseteq Lease
    <2>1. ASSUME NEW j \in S PROVE job[j].attempts + 1 \in 0..MaxAttempts
      <3>1. job[j] \in Job /\ job[j].attempts < MaxAttempts
        BY <1>2 DEF TypeOK, Leased, QueuedHasAttempts
      <3> QED BY <3>1, QueueAssumption DEF QueueAssumption, Job
    <2> QED BY <1>2, <2>1 DEF LeasesOf, Lease
  <1>5. CASE worker' = worker
    BY <1>1, <1>5 DEF TypeOK, LeaseInv
  <1>6. CASE worker' = [worker EXCEPT ![w].pc = "next",
                                      ![w].batch = LeasesOf(S)]
    <2>1. /\ worker'[w].pc = "next"
          /\ worker'[w].batch = LeasesOf(S)
          /\ worker'[w].current = {}
      BY <1>1, <1>6 DEF TypeOK, Worker
    <2>2. worker' \in [Workers -> Worker]
      <3> DEFINE W1 == [worker EXCEPT ![w].pc = "next"]
      <3>1. W1 \in [Workers -> Worker]
        BY DEF TypeOK, Worker
      <3>2. worker' = [W1 EXCEPT ![w].batch = LeasesOf(S)]
        BY <1>6
      <3> HIDE DEF W1
      <3> QED BY <1>4, <3>1, <3>2 DEF Worker
    <2>3. \A v \in Workers \ {w} : worker'[v] = worker[v]
      BY <1>6 DEF TypeOK
    <2> QED BY <1>3, <2>1, <2>2, <2>3 DEF AtRest
  <1> QED BY <1>5, <1>6

-----------------------------------------------------------------------------
(* The invariant.                                                          *)

LEMMA InitIInv == Init => IInv
  <1> SUFFICES ASSUME Init PROVE IInv
    OBVIOUS
  <1>1. NoJob \in Job
    BY QueueAssumption DEF QueueAssumption, NoJob, Job, JobState
  <1>2. TypeOK
    BY <1>1 DEF Init, TypeOK, Worker, Resting
  <1>3. \A j \in Ids : job[j].state = "none" /\ job[j].attempts = 0
    BY DEF Init, NoJob
  <1>4. \A w \in Workers : /\ worker[w].batch = {}
                           /\ worker[w].current = {}
    BY DEF Init, Resting
  <1> QED
    BY <1>2, <1>3, <1>4
    DEF IInv, QueuedHasAttempts, AbsentUntouched, LeaseInv, AtRest, Believed,
        OwnerHasLatestLease, AttemptIdentifiesLease, ActiveKeyUnique, Active

\* A lease keeps the invariant.
LEMMA LeaseIInv ==
    ASSUME IInv, NEW w \in Workers, LeaseJobs(w)
    PROVE  IInv'
  <1> USE DEF IInv
  <1>1. PICK S \in Selected(w) :
          /\ job' = LeaseRows(w, S)
          /\ \/ worker' = [worker EXCEPT ![w].pc = "next",
                                         ![w].batch = LeasesOf(S)]
             \/ worker' = worker
    BY DEF LeaseJobs, vars
  <1>2. worker[w].pc = "idle" /\ asking' = asking
    BY DEF LeaseJobs
  <1>3. /\ job' \in [Ids -> Job]
        /\ \A j \in S : Leased(job[j], job'[j]) /\ job'[j].owner = w
        /\ \A j \in Ids \ S : job'[j] = job[j]
        /\ S \subseteq Ids
    BY <1>1, LeaseRowsStep
  <1>4. /\ worker' \in [Workers -> Worker]
        /\ AtRest(worker'[w])
        /\ \A l \in Believed(w)' : l.id \in S /\ l.attempts = job'[l.id].attempts
        /\ \A v \in Workers \ {w} : worker'[v] = worker[v]
    BY <1>1, <1>2, LeaseWorkers DEF Believed
  <1>5. TypeOK'
    BY <1>2, <1>3, <1>4 DEF TypeOK
  <1>6. QueuedHasAttempts' /\ AbsentUntouched'
    BY <1>3 DEF QueuedHasAttempts, AbsentUntouched, Leased
  <1>7. ASSUME NEW j \in Ids
        PROVE  /\ job[j].attempts <= job'[j].attempts
               /\ j \in S => job[j].attempts < job'[j].attempts
               /\ Active(j)' => Active(j) /\ job'[j].key = job[j].key
    <2>1. job[j].attempts \in Nat /\ job'[j].attempts \in Nat
      BY <1>3, <1>5 DEF TypeOK, Job
    <2> QED BY <1>3, <2>1 DEF Leased, Active
  <1>8. ASSUME NEW v \in Workers, v # w, NEW l \in Believed(v)'
        PROVE  /\ l \in Believed(v)
               /\ l \in Lease
               /\ l.attempts <= job[l.id].attempts
    BY <1>4, <1>8 DEF Believed, TypeOK, Worker, LeaseInv
  <1>9. LeaseInv'
    <2>1. ASSUME NEW v \in Workers, NEW l \in Believed(v)'
          PROVE  l.attempts <= job'[l.id].attempts
      <3>1. l \in Lease
        BY <1>4 DEF Believed, Worker
      <3>2. /\ l.attempts \in Nat /\ l.id \in Ids
            /\ job[l.id].attempts \in Nat /\ job'[l.id].attempts \in Nat
        BY <3>1, <1>3 DEF Lease, TypeOK, Job
      <3>3. CASE v = w
        BY <1>4, <3>2, <3>3
      <3>4. CASE v # w
        BY <1>7, <1>8, <3>2, <3>4
      <3> QED BY <3>3, <3>4
    <2> QED BY <1>4, <2>1 DEF LeaseInv
  <1>10. OwnerHasLatestLease'
    <2>1. ASSUME NEW v \in Workers, NEW l \in Believed(v)', Holds(v, l.id)'
          PROVE  l.attempts = job'[l.id].attempts
      <3>1. CASE v = w
        BY <1>4, <2>1, <3>1
      <3>2. CASE v # w
        <4>1. l \in Believed(v) /\ l.id \in Ids
          BY <1>8, <3>2 DEF Lease
        <4>2. l.id \notin S
          BY <1>3, <2>1, <3>2 DEF Holds
        <4>3. job'[l.id] = job[l.id]
          BY <1>3, <4>1, <4>2
        <4> QED BY <2>1, <4>1, <4>3 DEF OwnerHasLatestLease, Holds
      <3> QED BY <3>1, <3>2
    <2> QED BY <2>1 DEF OwnerHasLatestLease
  <1>11. AttemptIdentifiesLease'
    <2>1. ASSUME NEW v \in Workers, v # w, NEW l \in Believed(v)'
          PROVE  l \notin Believed(w)'
      <3>1. /\ l.attempts \in Nat /\ l.id \in Ids
            /\ job[l.id].attempts \in Nat /\ job'[l.id].attempts \in Nat
        BY <1>8, <2>1, <1>3 DEF Lease, TypeOK, Job
      <3> QED BY <1>4, <1>7, <1>8, <2>1, <3>1
    <2>2. \A u, v \in Workers \ {w} : u # v => Believed(u)' \cap Believed(v)' = {}
      BY <1>4 DEF Believed, AttemptIdentifiesLease
    <2> QED BY <2>1, <2>2 DEF AttemptIdentifiesLease
  <1>12. ActiveKeyUnique'
    BY <1>7 DEF ActiveKeyUnique
  <1> QED BY <1>5, <1>6, <1>9, <1>10, <1>11, <1>12

\* The partial unique index: a row becomes active only by enqueue_job, which
\* finds no active row of the key.
LEMMA OtherKeepsKeys ==
    ASSUME IInv, Other
    PROVE  ActiveKeyUnique'
  <1> USE DEF IInv
  <1>1. \A j \in Ids : Unleased(job[j], job'[j])
    BY OtherRows
  <1>2. CASE \A j \in Ids : Active(j)' => Active(j) /\ job'[j].key = job[j].key
    BY <1>2 DEF ActiveKeyUnique
  <1>3. CASE \E c \in Callers, k \in Keys, p \in Priorities :
                /\ Enqueue(c, k, p)
                /\ ActiveWith(k) = {}
                /\ Insert(k, p)
    <2>1. PICK k \in Keys, p \in Priorities : ActiveWith(k) = {} /\ Insert(k, p)
      BY <1>3
    <2>2. PICK i \in Ids : job' = [job EXCEPT ![i] = NewJob(k, p)]
      BY <2>1 DEF Insert
    <2>3. /\ job'[i].key = k
          /\ \A j \in Ids \ {i} : job'[j] = job[j]
      BY <2>2 DEF TypeOK, NewJob
    <2>4. \A j \in Ids : Active(j) => job[j].key # k
      BY <2>1 DEF ActiveWith
    <2> QED BY <2>3, <2>4 DEF ActiveKeyUnique, Active
  <1>4. ASSUME NEW j \in Ids, ~Inserted(job[j], job'[j])
        PROVE  Active(j)' => Active(j) /\ job'[j].key = job[j].key
    BY <1>1, <1>4 DEF Unleased, Kept, Completed, Requeued, Buried, Active
  <1>5. CASE \E c \in Callers, k \in Keys, p \in Priorities :
                Enqueue(c, k, p) /\ job' = job
    BY <1>2, <1>5 DEF Active
  <1>6. CASE \E c \in Callers, k \in Keys, p \in Priorities : Enqueue(c, k, p)
    BY <1>3, <1>5, <1>6 DEF Enqueue
  <1>7. CASE \E w \in Workers : Acknowledge(w) \/ Fail(w)
    <2>1. ASSUME NEW j \in Ids, job'[j] # job[j]
          PROVE  job[j].state = "leased"
      BY <1>7, <2>1 DEF Acknowledge, Fail, Holds, TypeOK
    <2> QED BY <1>2, <1>4, <2>1 DEF Inserted, Active
  <1>8. CASE \E w \in Workers : Start(w)
    <2>1. ASSUME NEW j \in Ids, job'[j] # job[j]
          PROVE  job[j].state = "leased"
      BY <1>8, <2>1 DEF Start, Reclaimable, Expired
    <2> QED BY <1>2, <1>4, <2>1 DEF Inserted, Active
  <1>9. CASE Tick
    <2>1. ASSUME NEW j \in Ids PROVE job'[j].state = job[j].state
      BY <1>9 DEF Tick, TypeOK, Job
    <2> QED BY <1>2, <1>4, <2>1 DEF Inserted
  <1>10. CASE job' = job
    BY <1>2, <1>10 DEF Active
  <1> QED
    BY <1>6, <1>7, <1>8, <1>9, <1>10
    DEF Other, Step, LookUp, TakeJob, EndTick, Handle, Shutdown, Stop, Crash

\* Every other action keeps the invariant.
LEMMA OtherIInv ==
    ASSUME IInv, Other
    PROVE  IInv'
  <1> USE DEF IInv
  <1>1. /\ job' \in [Ids -> Job]
        /\ \A j \in Ids : Unleased(job[j], job'[j])
    BY OtherRows
  <1>2. /\ worker' \in [Workers -> Worker]
        /\ \A v \in Workers : Forgets(worker[v], worker'[v])
        /\ asking' \in [Callers -> Keys \cup {NoKey}]
    BY OtherWorkers
  <1>3. TypeOK'
    BY <1>1, <1>2 DEF TypeOK
  <1>4. QueuedHasAttempts' /\ AbsentUntouched'
    <2>1. ASSUME NEW j \in Ids
          PROVE  /\ job'[j].state = "queued" => job'[j].attempts < MaxAttempts
                 /\ job'[j].state = "none" => job'[j].attempts = 0
      BY <1>1, <2>1, QueueAssumption
      DEF QueueAssumption, QueuedHasAttempts, AbsentUntouched, Unleased, Kept,
          Inserted, Completed, Requeued, Buried
    <2> QED BY <2>1 DEF QueuedHasAttempts, AbsentUntouched
  <1>5. ASSUME NEW v \in Workers, NEW l \in Believed(v)'
        PROVE  l \in Believed(v) /\ l \in Lease
    BY <1>2 DEF Forgets, Believed, TypeOK, Worker
  <1>6. ASSUME NEW j \in Ids
        PROVE  job[j].attempts <= job'[j].attempts
    <2>1. job[j].attempts \in Nat /\ job'[j].attempts \in Nat
      BY <1>3 DEF TypeOK, Job
    <2>2. job'[j].attempts = job[j].attempts
      BY <1>1
      DEF AbsentUntouched, Unleased, Kept, Inserted, Completed, Requeued, Buried
    <2> QED BY <2>1, <2>2
  <1>7. LeaseInv'
    <2>1. ASSUME NEW v \in Workers, NEW l \in Believed(v)'
          PROVE  l.attempts <= job'[l.id].attempts
      <3>1. l \in Believed(v) /\ l.id \in Ids /\ l.attempts \in Nat
        BY <1>5 DEF Lease
      <3>2. l.attempts <= job[l.id].attempts
        BY <3>1 DEF LeaseInv
      <3>3. job[l.id].attempts \in Nat /\ job'[l.id].attempts \in Nat
        BY <3>1, <1>3 DEF TypeOK, Job
      <3> QED BY <1>6, <3>1, <3>2, <3>3
    <2> QED BY <1>2, <2>1 DEF LeaseInv, Forgets
  <1>8. OwnerHasLatestLease'
    <2>1. ASSUME NEW v \in Workers, NEW l \in Believed(v)', Holds(v, l.id)'
          PROVE  l.attempts = job'[l.id].attempts
      <3>1. l \in Believed(v) /\ l.id \in Ids
        BY <1>5 DEF Lease
      <3>2. Kept(job[l.id], job'[l.id])
        BY <1>1, <2>1, <3>1
        DEF Holds, Unleased, Inserted, Completed, Requeued, Buried
      <3> QED BY <2>1, <3>1, <3>2 DEF Kept, Holds, OwnerHasLatestLease
    <2> QED BY <2>1 DEF OwnerHasLatestLease
  <1>9. AttemptIdentifiesLease'
    BY <1>5 DEF AttemptIdentifiesLease
  <1> QED
    BY <1>3, <1>4, <1>7, <1>8, <1>9, OtherKeepsKeys

\* The invariant is inductive.
LEMMA NextIInv == IInv /\ [Next]_vars => IInv'
  <1> SUFFICES ASSUME IInv, [Next]_vars PROVE IInv'
    OBVIOUS
  <1>1. CASE \E w \in Workers : LeaseJobs(w)
    BY <1>1, LeaseIInv
  <1>2. CASE Other
    BY <1>2, OtherIInv
  <1>3. CASE UNCHANGED vars
    BY <1>3
    DEF vars, IInv, TypeOK, QueuedHasAttempts, AbsentUntouched, LeaseInv, AtRest,
        Believed, OwnerHasLatestLease, Holds, AttemptIdentifiesLease,
        ActiveKeyUnique, Active
  <1> QED BY <1>1, <1>2, <1>3 DEF Next, Other

LEMMA Invariance == Spec => []IInv
  BY InitIInv, NextIInv, PTL DEF Spec

\* The rows and the workers always have their declared shape: in particular no
\* attempt counter exceeds max_attempts (queue.py:101, 163, 192).
THEOREM QueueTypeOK == Spec => []TypeOK
  <1>1. IInv => TypeOK
    BY DEF IInv
  <1> QED BY <1>1, Invariance, PTL

\* No two workers ever believe they hold the same attempt of a job, however
\* leases expire and are reclaimed (queue.py:73-112, 173-203).
THEOREM LeaseIdentity == Spec => []AttemptIdentifiesLease
  <1>1. IInv => AttemptIdentifiesLease
    BY DEF IInv
  <1> QED BY <1>1, Invariance, PTL

\* A worker that passes the ownership test of acknowledge_job or fail_job acts
\* under the latest lease of the row, although attempts are not compared
\* (queue.py:127-131, 154-158).
THEOREM OwnershipIsCurrent == Spec => []OwnerHasLatestLease
  <1>1. IInv => OwnerHasLatestLease
    BY DEF IInv
  <1> QED BY <1>1, Invariance, PTL

\* A queued job always has an attempt left (queue.py:163, 192).
THEOREM QueuedJobsCanRun == Spec => []QueuedHasAttempts
  <1>1. IInv => QueuedHasAttempts
    BY DEF IInv
  <1> QED BY <1>1, Invariance, PTL

\* There is at most one active job per key (queue.py:52-55).
THEOREM OneActiveJobPerKey == Spec => []ActiveKeyUnique
  <1>1. IInv => ActiveKeyUnique
    BY DEF IInv
  <1> QED BY <1>1, Invariance, PTL

-----------------------------------------------------------------------------
(* The queue implements the ledger.                                        *)

LedgerView ==
    [j \in Ids |-> [phase |-> job[j].state, attempts |-> job[j].attempts]]

LEMMA LedgerInit == Init => Ledger!Init
  <1> SUFFICES ASSUME Init PROVE Ledger!Init
    OBVIOUS
  <1>1. \A j \in Ids : job[j].state = "none" /\ job[j].attempts = 0
    BY DEF Init, NoJob
  <1> QED BY <1>1 DEF Ledger!Init, Ledger!Unknown

\* Each way a row changes is a move of the ledger, or none.
LEMMA RowMoves ==
    ASSUME IInv, NEW j \in Ids,
           Unleased(job[j], job'[j]) \/ Leased(job[j], job'[j])
    PROVE  LedgerView'[j] = LedgerView[j]
             \/ Ledger!Moves(LedgerView[j], LedgerView'[j])
  <1> DEFINE old == LedgerView[j]
             new == LedgerView'[j]
  <1>1. /\ old = [phase |-> job[j].state, attempts |-> job[j].attempts]
        /\ new = [phase |-> job'[j].state, attempts |-> job'[j].attempts]
    BY DEF LedgerView
  <1> HIDE DEF old, new
  <1>2. CASE Kept(job[j], job'[j])
    BY <1>1, <1>2 DEF Kept, old, new
  <1>3. CASE Inserted(job[j], job'[j])
    BY <1>1, <1>3
    DEF IInv, AbsentUntouched, Inserted, Ledger!Moves, Ledger!Submitted,
        Ledger!Unknown, old, new
  <1>4. CASE Leased(job[j], job'[j])
    BY <1>1, <1>4
    DEF IInv, QueuedHasAttempts, Leased, Ledger!Moves, Ledger!Run, old, new
  <1>5. CASE Completed(job[j], job'[j])
    BY <1>1, <1>5 DEF Completed, Ledger!Moves, Ledger!Succeeded, old, new
  <1>6. CASE Requeued(job[j], job'[j])
    BY <1>1, <1>6 DEF Requeued, Ledger!Moves, Ledger!PutBack, old, new
  <1>7. CASE Buried(job[j], job'[j])
    BY <1>1, <1>7 DEF Buried, Ledger!Moves, Ledger!GivenUp, old, new
  <1> QED BY <1>2, <1>3, <1>4, <1>5, <1>6, <1>7 DEF Unleased

LEMMA LedgerStep == IInv /\ [Next]_vars => [Ledger!Next]_LedgerView
  <1> SUFFICES ASSUME IInv, [Next]_vars
               PROVE  Ledger!Next \/ UNCHANGED LedgerView
    OBVIOUS
  <1>1. CASE UNCHANGED vars
    BY <1>1 DEF vars, LedgerView
  <1>2. CASE Next
    <2>1. \A j \in Ids : Unleased(job[j], job'[j]) \/ Leased(job[j], job'[j])
      <3>1. CASE \E w \in Workers : LeaseJobs(w)
        <4>1. PICK w \in Workers : \E S \in Selected(w) : job' = LeaseRows(w, S)
          BY <3>1 DEF LeaseJobs
        <4> QED BY <4>1, LeaseRowsStep DEF IInv, Unleased, Kept
      <3>2. CASE Other
        BY <3>2, OtherRows DEF IInv
      <3> QED BY <1>2, <3>1, <3>2 DEF Next, Other
    <2>2. \A j \in Ids : LedgerView'[j] = LedgerView[j]
                           \/ Ledger!Moves(LedgerView[j], LedgerView'[j])
      BY <2>1, RowMoves
    <2>3. LedgerView' = [j \in Ids |-> LedgerView'[j]]
      BY DEF LedgerView
    <2> QED BY <2>2, <2>3 DEF Ledger!Next, LedgerView
  <1> QED BY <1>1, <1>2

\* jobs/queue.py keeps the ledger's promise: at most MaxAttempts runs, given up
\* only after the last, nothing after the end (queue.py:73-203).
THEOREM QueueImplementsLedger == Spec => ImplementsLedger
  <1>1. Init => Ledger!Init
    BY LedgerInit
  <1>2. IInv /\ [Next]_vars => [Ledger!Next]_LedgerView
    BY LedgerStep
  <1> QED
    BY <1>1, <1>2, Invariance, PTL
    DEF Spec, ImplementsLedger, Ledger!Spec, LedgerView

=============================================================================
