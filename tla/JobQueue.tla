------------------------------ MODULE JobQueue ------------------------------
(***************************************************************************)
(* The crawl_jobs queue (jobs/queue.py) and the processes around it: the   *)
(* callers of enqueue_job, the lease workers (jobs/worker.py) with their   *)
(* graceful stop (ops/shutdown.py), and the reclaiming of expired leases   *)
(* when a process starts (ops/reconcile.py).  An action is one committed   *)
(* transaction or one step of a worker between two of them: a transaction  *)
(* of this component locks single rows, so any two are in some order.      *)
(*                                                                         *)
(* Clock readings only appear as differences, so a job carries the time    *)
(* left: `lease` until leased_until has passed, `wait` until               *)
(* next_attempt_at is reached.                                             *)
(***************************************************************************)
EXTENDS FiniteSets, Integers

CONSTANTS
    Workers,     \* worker processes, each with its own worker_id
    Callers,     \* callers of enqueue_job
    Keys,        \* (job_type, dedupe_key) pairs
    Handled,     \* the keys whose job_type has a handler
    Priorities,  \* priorities callers use
    MaxJobs,     \* bound on the rows of crawl_jobs in a behaviour
    Limit,       \* limit of LeaseWorker.tick
    MaxAttempts, \* max_attempts
    LeaseTime,   \* lease_seconds, in ticks
    DelayBase,   \* retry_delay's base_seconds, in ticks
    DelayCap,    \* retry_delay's cap_seconds, in ticks
    NoWorker,    \* lease_owner is NULL
    NoKey        \* a caller that is not inside enqueue_job

ASSUME QueueAssumption ==
    /\ Handled \subseteq Keys
    /\ Priorities \subseteq Int
    /\ MaxJobs \in Nat
    /\ Limit \in Nat \ {0}
    /\ MaxAttempts \in Nat \ {0}
    /\ LeaseTime \in Nat
    /\ DelayBase \in Nat
    /\ DelayCap \in Nat
    /\ NoWorker \notin Workers
    /\ NoKey \notin Keys

Ids == 1..MaxJobs

VARIABLES
    job,    \* the crawl_jobs rows, by id
    worker, \* the worker processes
    asking  \* the key a caller of enqueue_job looks up after a conflict

vars == <<job, worker, asking>>

-----------------------------------------------------------------------------

JobState == {"none", "queued", "leased", "succeeded", "dead_letter"}

Job == [state: JobState, key: Keys \cup {NoKey}, priority: Int,
        attempts: 0..MaxAttempts, owner: Workers \cup {NoWorker},
        lease: 0..LeaseTime, wait: 0..DelayCap]

NoJob == [state |-> "none", key |-> NoKey, priority |-> 0, attempts |-> 0,
          owner |-> NoWorker, lease |-> 0, wait |-> 0]

Active(j) == job[j].state \in {"queued", "leased"}
Finished(j) == job[j].state \in {"succeeded", "dead_letter"}

\* JobLease: what lease_jobs returned to the worker.
Lease == [id: Ids, attempts: 0..MaxAttempts]

\* accepting: ShutdownCoordinator.accepting_leases; batch: the leases of the
\* running tick still to handle; current: the one being handled, if any.
Worker == [pc: {"down", "idle", "next", "handle", "acknowledge", "fail"},
           accepting: BOOLEAN, batch: SUBSET Lease, current: SUBSET Lease]

Resting == [pc |-> "idle", accepting |-> TRUE, batch |-> {}, current |-> {}]
Down == [pc |-> "down", accepting |-> FALSE, batch |-> {}, current |-> {}]

\* ORDER BY priority DESC, id.
Precedes(i, j) ==
    \/ job[i].priority > job[j].priority
    \/ job[i].priority = job[j].priority /\ i < j

\* Mutant: the delay has no cap.
RetryDelayUncapped(attempt) == DelayBase * 2 ^ (attempt - 1)

\* min(cap_seconds, base_seconds * 2 ** (attempt - 1))
RetryDelay(attempt) ==
    LET delay == DelayBase * 2 ^ (attempt - 1)
    IN IF delay \in 0..DelayCap THEN delay ELSE DelayCap

\* Mutant: the attempt limit is checked too late by one.
ReleasedOneMore(row, delay) ==
    IF row.attempts > MaxAttempts
    THEN [row EXCEPT !.state = "dead_letter", !.owner = NoWorker,
                     !.lease = 0, !.wait = 0]
    ELSE [row EXCEPT !.state = "queued", !.owner = NoWorker,
                     !.lease = 0, !.wait = delay]

\* Mutant: a job put back starts counting its attempts again.
ReleasedReset(row, delay) ==
    IF row.attempts >= MaxAttempts
    THEN [row EXCEPT !.state = "dead_letter", !.owner = NoWorker,
                     !.lease = 0, !.wait = 0]
    ELSE [row EXCEPT !.state = "queued", !.owner = NoWorker, !.attempts = 0,
                     !.lease = 0, !.wait = delay]

\* The row after fail_job (delay > 0) or reclaim_expired_leases (delay = 0).
Released(row, delay) ==
    IF row.attempts >= MaxAttempts
    THEN [row EXCEPT !.state = "dead_letter", !.owner = NoWorker,
                     !.lease = 0, !.wait = 0]
    ELSE [row EXCEPT !.state = "queued", !.owner = NoWorker,
                     !.lease = 0, !.wait = delay]

-----------------------------------------------------------------------------
(* enqueue_job: INSERT ... ON CONFLICT DO NOTHING against the partial      *)
(* unique index of active jobs, then a SELECT of the job in the way.       *)

\* Mutant: the index covers queued jobs only.
QueuedWith(k) == {j \in Ids : job[j].state = "queued" /\ job[j].key = k}

ActiveWith(k) == {j \in Ids : Active(j) /\ job[j].key = k}

NewJob(k, p) ==
    [state |-> "queued", key |-> k, priority |-> p, attempts |-> 0,
     owner |-> NoWorker, lease |-> 0, wait |-> 0]

Insert(k, p) ==
    \E j \in Ids :
        /\ job[j].state = "none"
        /\ \A i \in 1..(j - 1) : job[i].state # "none"
        /\ job' = [job EXCEPT ![j] = NewJob(k, p)]

Enqueue(c, k, p) ==
    /\ asking[c] = NoKey
    /\ \/ /\ ActiveWith(k) # {}
          /\ asking' = [asking EXCEPT ![c] = k]
          /\ UNCHANGED job
       \/ /\ ActiveWith(k) = {}
          /\ Insert(k, p)
          /\ UNCHANGED asking
    /\ UNCHANGED worker

\* The id of the job is returned, or "active deduplicated job disappeared" is
\* raised; either way the call is over.
LookUp(c) ==
    /\ asking[c] # NoKey
    /\ asking' = [asking EXCEPT ![c] = NoKey]
    /\ UNCHANGED <<job, worker>>

-----------------------------------------------------------------------------
(* LeaseWorker.tick.  A database error inside a transaction may come after *)
(* the commit took effect.                                                 *)

Ready(j) == job[j].state = "queued" /\ job[j].wait = 0

\* What lease_jobs may select: the first Limit ready rows, SKIP LOCKED
\* leaving out those another worker's lease_jobs has locked (and gives back
\* if it is rolled back).
Selected(w) ==
    LET ready == {j \in Ids : Ready(j)}
        mayLock == \E v \in Workers \ {w} : worker[v].pc = "idle"
    IN {S \in SUBSET ready :
          /\ S # {}
          /\ Cardinality(S) <= Limit
          /\ mayLock \/ S = ready \/ Cardinality(S) = Limit
          /\ mayLock \/ \A i \in S, j \in ready \ S : Precedes(i, j)}

\* Mutant: the attempt is counted when the job fails, not when it is leased.
LeaseRowsUncounted(w, S) ==
    [j \in Ids |->
        IF j \in S THEN [job[j] EXCEPT !.state = "leased", !.owner = w,
                                       !.lease = LeaseTime]
        ELSE job[j]]

LeaseRows(w, S) ==
    [j \in Ids |->
        IF j \in S
        THEN [job[j] EXCEPT !.state = "leased", !.owner = w,
                            !.lease = LeaseTime, !.attempts = @ + 1]
        ELSE job[j]]

LeasesOf(S) == {[id |-> j, attempts |-> job[j].attempts + 1] : j \in S}

LeaseJobs(w) ==
    /\ worker[w].pc = "idle"
    /\ worker[w].accepting
    /\ \E S \in Selected(w) :
         /\ job' = LeaseRows(w, S)
         /\ \/ worker' = [worker EXCEPT ![w].pc = "next",
                                        ![w].batch = LeasesOf(S)]
            \/ UNCHANGED worker \* an error after the commit: tick raises
    /\ UNCHANGED asking

\* The next lease of the batch; a job type without a handler fails at once.
\* The lease's expiry is not looked at.
TakeJob(w) ==
    /\ worker[w].pc = "next"
    /\ \E l \in worker[w].batch :
         /\ \A m \in worker[w].batch \ {l} : Precedes(l.id, m.id)
         /\ worker' = [worker EXCEPT
              ![w].pc = IF job[l.id].key \in Handled THEN "handle" ELSE "fail",
              ![w].batch = @ \ {l},
              ![w].current = {l}]
    /\ UNCHANGED <<job, asking>>

EndTick(w) ==
    /\ worker[w].pc = "next"
    /\ worker[w].batch = {}
    /\ worker' = [worker EXCEPT ![w].pc = "idle"]
    /\ UNCHANGED <<job, asking>>

\* The handler returns, or raises.
Handle(w) ==
    /\ worker[w].pc = "handle"
    /\ \E outcome \in {"acknowledge", "fail"} :
         worker' = [worker EXCEPT ![w].pc = outcome]
    /\ UNCHANGED <<job, asking>>

\* Mutant: the statements find the row by its id alone.
HoldsById(w, j) == TRUE

Holds(w, j) == job[j].state = "leased" /\ job[j].owner = w

\* acknowledge_job's UPDATE.
Acknowledged(row) ==
    [row EXCEPT !.state = "succeeded", !.owner = NoWorker, !.lease = 0]

NextLease(w) == worker' = [worker EXCEPT ![w].pc = "next", ![w].current = {}]

\* An exception leaves tick; the rest of the batch stays leased.
LeaveTick(w) ==
    worker' = [worker EXCEPT ![w] =
                 [Resting EXCEPT !.accepting = worker[w].accepting]]

ToFail(w) == worker' = [worker EXCEPT ![w].pc = "fail"]

\* acknowledge_job in its transaction.  No row changed (RuntimeError), or the
\* database fails before or after the commit: tick catches it, to fail_job.
Acknowledge(w) ==
    /\ worker[w].pc = "acknowledge"
    /\ \E l \in worker[w].current :
         \/ /\ Holds(w, l.id)
            /\ job' = [job EXCEPT ![l.id] = Acknowledged(@)]
            /\ NextLease(w) \/ ToFail(w)
         \/ UNCHANGED job /\ ToFail(w)
    /\ UNCHANGED asking

\* fail_job in its transaction.  An ownership mismatch or a database error
\* leaves tick.
Fail(w) ==
    /\ worker[w].pc = "fail"
    /\ \E l \in worker[w].current :
         \/ /\ Holds(w, l.id)
            /\ job' = [job EXCEPT ![l.id] =
                         Released(@, RetryDelay(@.attempts))]
            /\ NextLease(w) \/ LeaveTick(w)
         \/ UNCHANGED job /\ LeaveTick(w)
    /\ UNCHANGED asking

-----------------------------------------------------------------------------
(* Stopping, crashing and starting worker processes; time.                 *)

Busy(w) == worker[w].pc \in {"next", "handle", "acknowledge", "fail"}

Shutdown(w) ==
    /\ worker[w].pc # "down"
    /\ worker[w].accepting
    /\ worker' = [worker EXCEPT ![w].accepting = FALSE]
    /\ UNCHANGED <<job, asking>>

\* After the grace period the tick is cancelled; without one the process
\* just ends.
Stop(w) ==
    /\ worker[w].pc # "down"
    /\ ~worker[w].accepting
    /\ worker' = [worker EXCEPT ![w] = Down]
    /\ UNCHANGED <<job, asking>>

Crash(w) ==
    /\ Busy(w)
    /\ worker' = [worker EXCEPT ![w] = Down]
    /\ UNCHANGED <<job, asking>>

Expired(j) == job[j].state = "leased" /\ job[j].lease = 0

\* A row that acknowledge_job or fail_job is locking.
Locked(j) ==
    \E w \in Workers :
        /\ worker[w].pc \in {"acknowledge", "fail"}
        /\ Holds(w, j)
        /\ \E l \in worker[w].current : l.id = j

\* Mutant: nothing is reclaimed.
ReclaimableNone(S) == S = {}

\* reclaim_expired_leases takes the expired rows and skips locked ones.
Reclaimable(S) ==
    /\ S \subseteq {j \in Ids : Expired(j)}
    /\ \A j \in Ids \ S : Expired(j) => Locked(j)

\* A process starts and runs reconcile_startup.
Start(w) ==
    /\ worker[w].pc = "down"
    /\ worker' = [worker EXCEPT ![w] = Resting]
    /\ \E S \in SUBSET Ids :
         /\ Reclaimable(S)
         /\ job' = [j \in Ids |->
              IF j \in S THEN Released(job[j], 0) ELSE job[j]]
    /\ UNCHANGED asking

Less(n) == IF n > 0 THEN n - 1 ELSE 0

Tick ==
    /\ \E j \in Ids : job[j].lease > 0 \/ job[j].wait > 0
    /\ job' = [j \in Ids |->
         [job[j] EXCEPT !.lease = Less(@), !.wait = Less(@)]]
    /\ UNCHANGED <<worker, asking>>

-----------------------------------------------------------------------------

Init ==
    /\ job = [j \in Ids |-> NoJob]
    /\ worker = [w \in Workers |-> Resting]
    /\ asking = [c \in Callers |-> NoKey]

\* What a running worker does until its tick is over.
Step(w) ==
    TakeJob(w) \/ EndTick(w) \/ Handle(w) \/ Acknowledge(w) \/ Fail(w)

Next ==
    \/ \E c \in Callers, k \in Keys, p \in Priorities : Enqueue(c, k, p)
    \/ \E c \in Callers : LookUp(c)
    \/ \E w \in Workers :
         \/ LeaseJobs(w) \/ Step(w)
         \/ Shutdown(w) \/ Stop(w) \/ Crash(w) \/ Start(w)
    \/ Tick

Spec == Init /\ [][Next]_vars

\* Handlers return, a worker that may lease is not kept from it for ever by
\* the other workers or by its own restarts, a stopping process stops, a
\* stopped one is started again, time passes.
Fairness ==
    /\ \A w \in Workers :
         /\ WF_vars(Step(w))
         /\ SF_vars(LeaseJobs(w))
         /\ WF_vars(Stop(w))
         /\ WF_vars(Start(w))
    /\ WF_vars(Tick)

FairSpec == Spec /\ Fairness

\* Every process is also asked to stop again and again (deployments).
RestartingSpec == FairSpec /\ \A w \in Workers : WF_vars(Shutdown(w))

-----------------------------------------------------------------------------

TypeOK ==
    /\ job \in [Ids -> Job]
    /\ worker \in [Workers -> Worker]
    /\ asking \in [Callers -> Keys \cup {NoKey}]

\* The leases a worker believes it has.
Believed(w) == worker[w].batch \cup worker[w].current

\* Two workers may run one job at the same time (a lease expired), but never
\* under the same attempt number: the attempts counter identifies the lease,
\* though no statement of jobs/queue.py compares it.
AttemptIdentifiesLease ==
    \A v, w \in Workers : v # w => Believed(v) \cap Believed(w) = {}

\* The row a worker may acknowledge or fail is the row of the lease it is
\* handling: owning the row implies having its latest lease, although only the
\* owner is compared (acknowledge_job, fail_job).
OwnerHasLatestLease ==
    \A w \in Workers : \A l \in Believed(w) :
        Holds(w, l.id) => l.attempts = job[l.id].attempts

\* A job waits in the queue only while it has attempts left, whoever put it
\* back (fail_job or reclaim_expired_leases).
QueuedHasAttempts ==
    \A j \in Ids : job[j].state = "queued" => job[j].attempts < MaxAttempts

\* At most one active job per key (enqueue_job under its partial index).
ActiveKeyUnique ==
    \A i, j \in Ids :
        Active(i) /\ Active(j) /\ job[i].key = job[j].key => i = j

\* The queue is the ledger: a job runs at most MaxAttempts times, is given up
\* only after the last attempt, and once finished is never touched again, by
\* late workers or by reclaiming.
Ledger == INSTANCE JobLedger WITH
    Jobs <- Ids,
    ledger <- [j \in Ids |-> [phase |-> job[j].state,
                              attempts |-> job[j].attempts]]

ImplementsLedger == Ledger!Spec

\* Every job ends, as succeeded or as a dead letter, whatever crashes, lost
\* replies and restarts happen, provided processes are restarted again and
\* again: only a start reclaims what an expired lease holds.
EveryJobEnds ==
    \A j \in Ids : job[j].state = "queued" ~> Finished(j)

\* docs/g002-verification.md:14: "Workers claim jobs with FOR UPDATE SKIP
\* LOCKED, reclaim expired leases, ...".
ExpiredLeaseReclaimed == \A j \in Ids : Expired(j) ~> ~Expired(j)

=============================================================================
