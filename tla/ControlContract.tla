--------------------------- MODULE ControlContract ---------------------------
(***************************************************************************)
(* What the control plane's repository promises to its callers             *)
(* (control/repository.py, the ControlRepository protocol): workers own    *)
(* their GPUs exclusively, jobs are leased to one worker at a time, retries*)
(* are bounded and submissions are idempotent.                             *)
(*                                                                         *)
(* Every call is one step.  A call that raises (NotFoundError,             *)
(* ConflictError) or returns the current record changes nothing and is no  *)
(* step.  Where the backends differ, the contract leaves the choice open:  *)
(*   - claim_next_job may hand out any eligible job (PostgreSQL skips      *)
(*     locked rows, the in-memory backend sorts);                          *)
(*   - a sweep may take any part of what is due (PostgreSQL commits one    *)
(*     job at a time and skips locked rows);                               *)
(*   - a claim may retire its caller, because the PostgreSQL claim decides *)
(*     on a worker row it has not locked.                                  *)
(*                                                                         *)
(* Time is a logical clock.  A call reads the clock when it starts and     *)
(* compares that timestamp later, so an effect uses a time that may lag    *)
(* behind the clock by up to MaxLag.                                       *)
(***************************************************************************)
EXTENDS Scheduling, Sequences

CONSTANTS
    WorkerIds,        \* worker identities
    MaxJobs,          \* bound: jobs that can be created
    Specs,            \* WorkerSpec records workers register with
    MaxConcurrencies, \* values of WorkerRegistration.max_concurrency
    RequestedStates,  \* states a worker asks for (set_worker_state, heartbeat)
    Submissions,      \* JobSubmission records clients send
    WorkerTtl,        \* worker_ttl_seconds
    LeaseSeconds,     \* lease_seconds
    MaxLag,           \* bound: age of a call's timestamp at its effect
    MaxTime           \* bound: last value of the clock

VARIABLES
    workers,       \* worker id -> WorkerRecord
    jobs,          \* job id -> JobRecord; the id is also the job's sequence
    leases_issued, \* number of lease tokens drawn; every uuid4() is fresh
    clock          \* utc_now()

vars == <<workers, jobs, leases_issued, clock>>

JobIds == 1 .. MaxJobs

\* WorkerState of models.py.
LiveStates == {"online", "draining"}
WorkerStates == LiveStates \cup {"offline"}

\* JobStatus of models.py.
TerminalStatuses == {"succeeded", "failed", "cancelled"}
JobStatuses == {"queued", "running"} \cup TerminalStatuses

\* A Python None, by the type of the field that holds it.
Unset == -1
NoToken == 0
NoKey == "no-key"
NoWorker == "no-worker"

ASSUME ContractAssumption ==
    /\ NoWorker \notin WorkerIds
    /\ MaxJobs \in Nat /\ MaxLag \in Nat /\ MaxTime \in Nat
    /\ WorkerTtl \in Nat \ {0} /\ LeaseSeconds \in Nat \ {0}
    /\ MaxConcurrencies \subseteq Nat \ {0}
    /\ RequestedStates \subseteq WorkerStates
    /\ \A s \in Specs : WorkerSpecValid(s)
    /\ \A s \in Submissions : /\ RequirementsValid(s.requirements)
                              /\ s.max_attempts \in Nat \ {0}
                              /\ s.available_at \in Nat \cup {Unset}

\* Rows that do not exist.
NoWorkerRecord ==
    [spec |-> [gpu_uuids |-> {}], max_concurrency |-> 0, state |-> "unregistered",
     active_jobs |-> 0, last_seen_at |-> 0]

NoJobRecord ==
    [request |-> [idempotency_key |-> NoKey], status |-> "none", attempts |-> 0,
     available_at |-> 0, assigned_worker_id |-> NoWorker, lease_token |-> NoToken,
     lease_expires_at |-> Unset, result |-> NoToken, error |-> "none"]

\* WorkerRecord without the fields no decision reads (registered_at, metadata).
WorkerRecords ==
    [spec : Specs \cup {NoWorkerRecord.spec}, max_concurrency : Nat,
     state : WorkerStates \cup {"unregistered"}, active_jobs : Nat,
     last_seen_at : Nat]

\* JobRecord.  request holds the immutable columns (capability, payload,
\* requirements, priority, max_attempts, idempotency_key) and the available_at
\* the client asked for; available_at is the column itself.  A result is
\* represented by the lease token of the attempt that produced it, an error by
\* its retryable flag.
JobRecords ==
    [request : Submissions \cup {NoJobRecord.request},
     status : JobStatuses \cup {"none"}, attempts : Nat, available_at : Nat,
     assigned_worker_id : WorkerIds \cup {NoWorker}, lease_token : Nat,
     lease_expires_at : Nat \cup {Unset}, result : Nat,
     error : {"none", "retryable", "final"}]

Init ==
    /\ workers = [w \in WorkerIds |-> NoWorkerRecord]
    /\ jobs = [j \in JobIds |-> NoJobRecord]
    /\ leases_issued = 0
    /\ clock = 0

Timestamps == {t \in 0 .. clock : clock - t <= MaxLag}

-----------------------------------------------------------------------------
(* Workers                                                                 *)

Registered(w) == workers[w].state # "unregistered"

\* _active_job_count: the running jobs assigned to w.
RunningJobs(w) ==
    {j \in JobIds : jobs[j].status = "running" /\ jobs[j].assigned_worker_id = w}

\* A worker keeps its GPUs while it is not OFFLINE or still has active jobs.
owns_resources(w) ==
    /\ Registered(w)
    /\ workers[w].state # "offline" \/ workers[w].active_jobs > 0

\* _assert_gpu_ownership_available, with ignore_worker_id = w.
gpu_ownership_available(w, spec) ==
    \A v \in WorkerIds \ {w} :
        owns_resources(v) => workers[v].spec.gpu_uuids \cap spec.gpu_uuids = {}

register_worker(w, spec, max_concurrency, t) ==
    /\ workers[w].active_jobs > 0 => /\ spec = workers[w].spec
                                     /\ max_concurrency >= workers[w].active_jobs
    /\ gpu_ownership_available(w, spec)
    /\ workers' = [workers EXCEPT ![w] =
           [spec |-> spec, max_concurrency |-> max_concurrency, state |-> "online",
            active_jobs |-> Cardinality(RunningJobs(w)), last_seen_at |-> t]]
    /\ UNCHANGED <<jobs, leases_issued, clock>>

set_worker_state(w, state, t) ==
    /\ Registered(w)
    /\ state # "offline" => gpu_ownership_available(w, workers[w].spec)
    /\ workers' = [workers EXCEPT ![w].state = state, ![w].last_seen_at = t]
    /\ UNCHANGED <<jobs, leases_issued, clock>>

\* A worker row is stale when its last_seen_at lies before now - ttl.
Stale(worker, t) == t - worker.last_seen_at > WorkerTtl

\* expire_stale_workers, for any part S of the workers that are due.
expire_stale_workers(S, t) ==
    /\ S # {}
    /\ \A w \in S : workers[w].state \in LiveStates /\ Stale(workers[w], t)
    /\ workers' = [w \in WorkerIds |-> IF w \in S
                                       THEN [workers[w] EXCEPT !.state = "offline"]
                                       ELSE workers[w]]
    /\ UNCHANGED <<jobs, leases_issued, clock>>

\* claim_next_job when it takes its caller for stale.  The contract does not say
\* that the caller is stale now (see OfflineOnlyWhenStale).
retire_claimer(w) ==
    /\ workers[w].state \in LiveStates
    /\ workers' = [workers EXCEPT ![w].state = "offline"]
    /\ UNCHANGED <<jobs, leases_issued, clock>>

-----------------------------------------------------------------------------
(* Leases                                                                  *)

\* Mutant: the lease token is not compared.
Mut_assert_running_token(j, w, token, t) ==
    /\ jobs[j].status = "running"
    /\ jobs[j].assigned_worker_id = w
    /\ jobs[j].lease_expires_at > t

\* _assert_running: the lease belongs to w, under this token, and is not over.
assert_running(j, w, token, t) ==
    /\ jobs[j].status = "running"
    /\ jobs[j].assigned_worker_id = w
    /\ jobs[j].lease_token = token
    /\ jobs[j].lease_expires_at > t

\* heartbeat_worker without lease: the state is kept when the body has none.
HeartbeatState(w, state) == IF state = "unchanged" THEN workers[w].state ELSE state

\* What heartbeat_worker writes to the worker row.
HeartbeatRow(w, state, t) ==
    [workers[w] EXCEPT !.state = HeartbeatState(w, state),
                       !.active_jobs = Cardinality(RunningJobs(w)),
                       !.last_seen_at = t]

\* An OFFLINE worker must take its GPUs back through the ownership check.
HeartbeatAllowed(w, state) ==
    /\ Registered(w)
    /\ workers[w].state = "offline" => state \notin LiveStates

heartbeat_worker(w, state, t) ==
    /\ HeartbeatAllowed(w, state)
    /\ workers' = [workers EXCEPT ![w] = HeartbeatRow(w, state, t)]
    /\ UNCHANGED <<jobs, leases_issued, clock>>

\* heartbeat_worker with active_job_id and lease_token renews the lease.
heartbeat_lease(w, state, j, token, t) ==
    /\ HeartbeatAllowed(w, state)
    /\ assert_running(j, w, token, t)
    /\ workers' = [workers EXCEPT ![w] = HeartbeatRow(w, state, t)]
    /\ jobs' = [jobs EXCEPT ![j].lease_expires_at = t + LeaseSeconds]
    /\ UNCHANGED <<leases_issued, clock>>

-----------------------------------------------------------------------------
(* Jobs                                                                    *)

Exists(j) == jobs[j].status # "none"

\* Some job has the idempotency key.
KeyTaken(key) == \E j \in JobIds : Exists(j) /\ jobs[j].request.idempotency_key = key

\* _submission_matches: an explicit available_at is compared with the column.
submission_matches(job, s) ==
    /\ [job.request EXCEPT !.available_at = s.available_at] = s
    /\ s.available_at # Unset => job.available_at = s.available_at

\* Mutant: an available_at that was not given stays None.
Mut_NewJob(s, t) ==
    [NoJobRecord EXCEPT !.request = s, !.status = "queued", !.available_at = s.available_at]

\* The record of a new job.
NewJob(s, t) ==
    [NoJobRecord EXCEPT !.request = s, !.status = "queued",
        !.available_at = IF s.available_at = Unset THEN t ELSE s.available_at]

\* submit_job when it creates a record; a replay returns the existing one.
submit_job(s, j, t) ==
    /\ ~ Exists(j)
    /\ s.idempotency_key # NoKey => ~ KeyTaken(s.idempotency_key)
    /\ jobs' = [jobs EXCEPT ![j] = NewJob(s, t)]
    /\ UNCHANGED <<workers, leases_issued, clock>>

\* The worker may serve the request: its capability and its requirements.
Suits(spec, s) ==
    /\ s.capability \in spec.capabilities
    /\ worker_matches(spec, s.requirements)

\* claim_next_job's filter over the jobs.
eligible(j, w, t) ==
    /\ jobs[j].status = "queued"
    /\ jobs[j].available_at <= t
    /\ jobs[j].attempts < jobs[j].request.max_attempts
    /\ Suits(workers[w].spec, jobs[j].request)

\* The worker may be given one more job.
Claiming(w, t) ==
    /\ workers[w].state = "online"
    /\ ~ Stale(workers[w], t)
    /\ workers[w].active_jobs < workers[w].max_concurrency

claim_next_job(j, w, t) ==
    /\ Claiming(w, t)
    /\ eligible(j, w, t)
    /\ jobs' = [jobs EXCEPT ![j] =
           [jobs[j] EXCEPT !.status = "running", !.attempts = @ + 1,
                           !.assigned_worker_id = w, !.lease_token = leases_issued + 1,
                           !.lease_expires_at = t + LeaseSeconds, !.error = "none"]]
    /\ workers' = [workers EXCEPT ![w].active_jobs = @ + 1]
    /\ leases_issued' = leases_issued + 1
    /\ UNCHANGED clock

\* _release_worker_capacity, for all jobs of S at once.
release_worker_capacity(S) ==
    workers' = [w \in WorkerIds |->
        LET n == Cardinality(S \cap RunningJobs(w)) IN
        [workers[w] EXCEPT !.active_jobs = IF @ > n THEN @ - n ELSE 0]]

\* Mutant: the lease token survives the end of the lease.
Mut_Unleased(job) ==
    [job EXCEPT !.assigned_worker_id = NoWorker, !.lease_expires_at = Unset]

\* The columns a job loses when its lease ends.
Unleased(job) ==
    [job EXCEPT !.assigned_worker_id = NoWorker, !.lease_token = NoToken,
                !.lease_expires_at = Unset]

complete_job(j, w, token, t) ==
    /\ assert_running(j, w, token, t)
    /\ jobs' = [jobs EXCEPT ![j] =
           [Unleased(jobs[j]) EXCEPT !.status = "succeeded", !.result = token,
                                     !.error = "none"]]
    /\ release_worker_capacity({j})
    /\ UNCHANGED <<leases_issued, clock>>

\* Mutant: off by one at max_attempts.
Mut_EndAttempt(job, retryable, t) ==
    IF retryable /\ job.attempts <= job.request.max_attempts
    THEN [Unleased(job) EXCEPT !.status = "queued", !.error = "retryable",
                               !.available_at = t]
    ELSE [Unleased(job) EXCEPT !.status = "failed", !.error = "final"]

\* The end of an attempt that did not succeed: back to the queue while attempts
\* are left, FAILED otherwise.
EndAttempt(job, retryable, t) ==
    IF retryable /\ job.attempts < job.request.max_attempts
    THEN [Unleased(job) EXCEPT !.status = "queued", !.error = "retryable",
                               !.available_at = t]
    ELSE [Unleased(job) EXCEPT !.status = "failed", !.error = "final"]

fail_job(j, w, token, retryable, t) ==
    /\ assert_running(j, w, token, t)
    /\ jobs' = [jobs EXCEPT ![j] = EndAttempt(jobs[j], retryable, t)]
    /\ release_worker_capacity({j})
    /\ UNCHANGED <<leases_issued, clock>>

cancel_job(j) ==
    /\ jobs[j].status \in {"queued", "running"}
    /\ jobs' = [jobs EXCEPT ![j] = [Unleased(jobs[j]) EXCEPT !.status = "cancelled"]]
    /\ release_worker_capacity({j})
    /\ UNCHANGED <<leases_issued, clock>>

LeaseExpired(j, t) == jobs[j].status = "running" /\ jobs[j].lease_expires_at <= t

\* recover_expired_jobs, for any part S of the jobs that are due.
recover_expired_jobs(S, t) ==
    /\ S # {}
    /\ \A j \in S : LeaseExpired(j, t)
    /\ jobs' = [j \in JobIds |-> IF j \in S THEN EndAttempt(jobs[j], TRUE, t) ELSE jobs[j]]
    /\ release_worker_capacity(S)
    /\ UNCHANGED <<leases_issued, clock>>

Tick ==
    /\ clock < MaxTime
    /\ clock' = clock + 1
    /\ UNCHANGED <<workers, jobs, leases_issued>>

-----------------------------------------------------------------------------
WorkerCall(w, t) ==
    \/ \E spec \in Specs, m \in MaxConcurrencies : register_worker(w, spec, m, t)
    \/ \E s \in RequestedStates : set_worker_state(w, s, t)
    \/ \E s \in RequestedStates \cup {"unchanged"} : heartbeat_worker(w, s, t)

LeaseCall(w, j, token, t) ==
    \/ \E s \in RequestedStates \cup {"unchanged"} : heartbeat_lease(w, s, j, token, t)
    \/ complete_job(j, w, token, t)
    \/ \E retryable \in BOOLEAN : fail_job(j, w, token, retryable, t)

Next ==
    \/ \E t \in Timestamps :
          \/ \E w \in WorkerIds : WorkerCall(w, t)
          \/ \E w \in WorkerIds, j \in JobIds : claim_next_job(j, w, t)
          \/ \E w \in WorkerIds, j \in JobIds, token \in 1 .. leases_issued :
                LeaseCall(w, j, token, t)
          \/ \E S \in SUBSET WorkerIds : expire_stale_workers(S, t)
          \/ \E S \in SUBSET JobIds : recover_expired_jobs(S, t)
          \/ \E s \in Submissions, j \in JobIds : submit_job(s, j, t)
    \/ \E w \in WorkerIds : retire_claimer(w)
    \/ \E j \in JobIds : cancel_job(j)
    \/ Tick

Spec == Init /\ [][Next]_vars

-----------------------------------------------------------------------------
(* Properties                                                              *)

\* The records of both tables have their types (models.py).
TypeOK ==
    /\ workers \in [WorkerIds -> WorkerRecords]
    /\ jobs \in [JobIds -> JobRecords]
    /\ leases_issued \in Nat
    /\ clock \in Nat

\* The active_jobs column, which is written by increments in claim_next_job, by
\* decrements wherever an attempt ends and by a recount in register_worker and
\* heartbeat_worker, always is the number of running jobs assigned to the worker.
ActiveJobsAccurate ==
    \A w \in WorkerIds : workers[w].active_jobs = Cardinality(RunningJobs(w))

\* A GPU has one user: two workers that are live or have a running job never
\* share a GPU, across registration, drains, expiry, re-enrolment and recovery.
UsesGpus(w) == workers[w].state \in LiveStates \/ RunningJobs(w) # {}
GpuExclusive ==
    \A v, w \in WorkerIds : v # w /\ UsesGpus(v) /\ UsesGpus(w) =>
        workers[v].spec.gpu_uuids \cap workers[w].spec.gpu_uuids = {}

\* No worker runs more jobs than its max_concurrency, also after it registered
\* again with a smaller one.
WithinCapacity ==
    \A w \in WorkerIds : Cardinality(RunningJobs(w)) <= workers[w].max_concurrency

\* The lease columns belong together: a running job has a registered worker, an
\* expiry and a token nobody else holds; any other job has none of them.
LeaseConsistent ==
    \A j \in JobIds :
        /\ jobs[j].lease_token <= leases_issued
        /\ IF jobs[j].status = "running"
           THEN /\ jobs[j].assigned_worker_id \in WorkerIds
                /\ Registered(jobs[j].assigned_worker_id)
                /\ jobs[j].lease_expires_at # Unset
                /\ jobs[j].lease_token # NoToken
                /\ \A k \in JobIds : jobs[k].lease_token = jobs[j].lease_token => k = j
           ELSE /\ jobs[j].assigned_worker_id = NoWorker
                /\ jobs[j].lease_token = NoToken
                /\ jobs[j].lease_expires_at = Unset

\* A queued job can still be claimed: retries and recovery never put a job back
\* that has used up its attempts (it would wait forever), and no job is attempted
\* more often than max_attempts.
RetriesBounded ==
    \A j \in JobIds : Exists(j) =>
        /\ jobs[j].attempts <= jobs[j].request.max_attempts
        /\ jobs[j].status = "queued" => jobs[j].attempts < jobs[j].request.max_attempts
        /\ jobs[j].status = "running" => jobs[j].attempts > 0

\* The worker that runs a job still has the topology the job was matched with:
\* registering again while jobs are active does not change it.
RunningJobSuits ==
    \A j \in JobIds : jobs[j].status = "running" =>
        Suits(workers[jobs[j].assigned_worker_id].spec, jobs[j].request)

\* What a claim relies on when it adds a job to a worker: the active_jobs column is right,
\* the worker has room, and the jobs it runs were matched with the topology it still has.
Accounting == ActiveJobsAccurate /\ WithinCapacity /\ RunningJobSuits

\* An idempotency key names at most one job.
IdempotencyUnique ==
    \A j, k \in JobIds :
        /\ Exists(j) /\ Exists(k)
        /\ jobs[j].request.idempotency_key = jobs[k].request.idempotency_key
        /\ jobs[j].request.idempotency_key # NoKey
        => j = k

\* A terminal job is never written again: not by a late worker, a cancel that
\* lost the race or the recovery sweep.
TerminalIsFinal ==
    [][\A j \in JobIds : jobs[j].status \in TerminalStatuses => jobs'[j] = jobs[j]]_vars

\* The result kept is the one of the attempt that holds the lease: an earlier
\* attempt of the same worker, recovered and claimed again, cannot complete it.
ResultFromLeaseHolder ==
    [][\A j \in JobIds : jobs'[j].result # jobs[j].result =>
           jobs[j].status = "running" /\ jobs'[j].result = jobs[j].lease_token]_vars

\* An expired lease is over: from MaxLag after its expiry it is neither renewed
\* nor completed, whether or not the recovery sweep has run.
ExpiredLeaseIsOver ==
    [][\A j \in JobIds : LeaseExpired(j, clock - MaxLag) =>
           /\ jobs'[j].status # "succeeded"
           /\ jobs'[j].lease_token = jobs[j].lease_token =>
                 jobs'[j].lease_expires_at = jobs[j].lease_expires_at]_vars

\* Late calls are fenced off: one that comes after the job's end, for an earlier attempt, or
\* after the lease ran out leaves the job as it is.
JobsFenced == TerminalIsFinal /\ ResultFromLeaseHolder /\ ExpiredLeaseIsOver

\* Only a worker that was silent for longer than the TTL is taken OFFLINE
\* (docs/control-plane.md: "Workers that exceed the configured TTL are marked
\* OFFLINE").  Stated for callers that do not ask for OFFLINE themselves.
OfflineOnlyWhenStale ==
    [][\A w \in WorkerIds :
           workers[w].state \in LiveStates /\ workers'[w].state = "offline"
           => "offline" \in RequestedStates \/ Stale(workers[w], clock)]_vars
=============================================================================
