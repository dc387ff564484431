----------------------- MODULE ControlContract_proofs -----------------------
(* Theorems about ControlContract, for every value of its constants. *)
EXTENDS ControlContract, FiniteSetTheorems, TLAPS

\* The sets of jobs are finite, so counting them is well defined.
LEMMA RunningJobsFinite ==
    ASSUME NEW w
    PROVE  /\ RunningJobs(w) \subseteq JobIds
           /\ IsFiniteSet(RunningJobs(w))
           /\ Cardinality(RunningJobs(w)) \in Nat
           /\ (Cardinality(RunningJobs(w)) = 0) <=> (RunningJobs(w) = {})
<1>1. IsFiniteSet(JobIds)
  BY FS_Interval, ContractAssumption DEF JobIds
<1>2. RunningJobs(w) \subseteq JobIds
  BY DEF RunningJobs
<1>3. IsFiniteSet(RunningJobs(w))
  BY <1>1, <1>2, FS_Subset
<1> QED
  BY <1>2, <1>3, FS_CardinalityType, FS_EmptySet

\* Giving capacity back changes the active_jobs column and nothing else.
LEMMA ReleaseFacts ==
    ASSUME TypeOK, NEW S, release_worker_capacity(S)
    PROVE  /\ workers' \in [WorkerIds -> WorkerRecords]
           /\ \A w \in WorkerIds :
                 /\ workers'[w].spec = workers[w].spec
                 /\ workers'[w].state = workers[w].state
                 /\ workers'[w].max_concurrency = workers[w].max_concurrency
                 /\ workers'[w].last_seen_at = workers[w].last_seen_at
                 /\ workers'[w].active_jobs =
                       IF workers[w].active_jobs > Cardinality(S \cap RunningJobs(w))
                       THEN workers[w].active_jobs - Cardinality(S \cap RunningJobs(w))
                       ELSE 0
<1> SUFFICES ASSUME NEW w \in WorkerIds
             PROVE  /\ workers'[w] \in WorkerRecords
                    /\ workers'[w].spec = workers[w].spec
                    /\ workers'[w].state = workers[w].state
                    /\ workers'[w].max_concurrency = workers[w].max_concurrency
                    /\ workers'[w].last_seen_at = workers[w].last_seen_at
                    /\ workers'[w].active_jobs =
                          IF workers[w].active_jobs > Cardinality(S \cap RunningJobs(w))
                          THEN workers[w].active_jobs - Cardinality(S \cap RunningJobs(w))
                          ELSE 0
  BY DEF release_worker_capacity
<1>1. Cardinality(S \cap RunningJobs(w)) \in Nat
  BY RunningJobsFinite, FS_Subset, FS_CardinalityType, S \cap RunningJobs(w) \subseteq RunningJobs(w)
<1> DEFINE n == Cardinality(S \cap RunningJobs(w))
<1>2. workers'[w] = [workers[w] EXCEPT !.active_jobs = IF @ > n THEN @ - n ELSE 0]
  BY DEF release_worker_capacity
<1>3. workers[w] \in WorkerRecords
  BY DEF TypeOK
<1> HIDE DEF n
<1> QED
  BY <1>1, <1>2, <1>3 DEF WorkerRecords, n

-----------------------------------------------------------------------------
(***************************************************************************)
(* The inductive invariant.  GpuExclusive needs ActiveJobsAccurate (an     *)
(* enrolment reads the column, not the jobs) and LeaseConsistent (a running*)
(* job belongs to a registered worker); ActiveJobsAccurate needs the types.*)
(***************************************************************************)
RequestKept ==
    \A j \in JobIds : Exists(j) => jobs[j].request \in Submissions

IInv ==
    /\ TypeOK
    /\ RequestKept
    /\ ActiveJobsAccurate
    /\ GpuExclusive
    /\ WithinCapacity
    /\ LeaseConsistent
    /\ RetriesBounded
    /\ RunningJobSuits
    /\ IdempotencyUnique

\* The empty tables satisfy the inductive invariant.
LEMMA InitIInv == Init => IInv
<1> SUFFICES ASSUME Init PROVE IInv
  OBVIOUS
<1>1. TypeOK
  BY ContractAssumption
     DEF Init, TypeOK, WorkerRecords, JobRecords, NoWorkerRecord, NoJobRecord, NoToken,
         NoWorker, Unset
<1>2. \A w \in WorkerIds : RunningJobs(w) = {} /\ ~ UsesGpus(w)
  BY DEF Init, RunningJobs, UsesGpus, NoJobRecord, NoWorkerRecord, LiveStates
<1>3. ActiveJobsAccurate /\ WithinCapacity
  <2>1. \A w \in WorkerIds : Cardinality(RunningJobs(w)) = 0
    BY <1>2, RunningJobsFinite
  <2> QED
    BY <2>1 DEF Init, ActiveJobsAccurate, WithinCapacity, NoWorkerRecord
<1>4. GpuExclusive /\ RetriesBounded /\ RunningJobSuits /\ IdempotencyUnique /\ RequestKept
  BY <1>2 DEF Init, RequestKept, GpuExclusive, RetriesBounded, RunningJobSuits, IdempotencyUnique, Exists,
              NoJobRecord
<1>5. LeaseConsistent
  BY DEF Init, LeaseConsistent, NoJobRecord, NoToken
<1> QED
  BY <1>1, <1>3, <1>4, <1>5 DEF IInv

\* The step leaves the job's attempt alone: at most the lease is renewed.
SameAttempt(j) ==
    /\ jobs'[j].request = jobs[j].request
    /\ jobs'[j].status = jobs[j].status
    /\ jobs'[j].attempts = jobs[j].attempts
    /\ jobs'[j].assigned_worker_id = jobs[j].assigned_worker_id
    /\ jobs'[j].lease_token = jobs[j].lease_token
    /\ IF jobs[j].status = "running" THEN jobs'[j].lease_expires_at # Unset
       ELSE jobs'[j].lease_expires_at = jobs[j].lease_expires_at

\* While the attempts stay as they are, so do the workers' sets of running jobs.
LEMMA SameRunning ==
    ASSUME \A j \in JobIds : SameAttempt(j), NEW w
    PROVE  RunningJobs(w)' = RunningJobs(w)
BY DEF RunningJobs, SameAttempt

\* A call that leaves the jobs alone leaves the sets of running jobs alone.
LEMMA SameJobs ==
    ASSUME IInv, UNCHANGED jobs
    PROVE  (\A j \in JobIds : SameAttempt(j)) /\ jobs' \in [JobIds -> JobRecords]
BY DEF SameAttempt, IInv, TypeOK, LeaseConsistent

\* A step on the workers keeps the invariant when it recounts active_jobs, keeps
\* topology and room for the running jobs, and keeps the GPUs exclusive.
LEMMA WorkersOnly ==
    ASSUME IInv, UNCHANGED <<leases_issued, clock>>,
           jobs' \in [JobIds -> JobRecords], \A j \in JobIds : SameAttempt(j),
           workers' \in [WorkerIds -> WorkerRecords],
           GpuExclusive',
           \A w \in WorkerIds :
              /\ workers'[w].active_jobs = Cardinality(RunningJobs(w))
              /\ Cardinality(RunningJobs(w)) <= workers'[w].max_concurrency
              /\ Registered(w) => workers'[w].state # "unregistered"
              /\ RunningJobs(w) # {} => workers'[w].spec = workers[w].spec
    PROVE  IInv'
<1>1. TypeOK'
  BY DEF IInv, TypeOK
<1>2. ActiveJobsAccurate' /\ WithinCapacity'
  BY SameRunning DEF ActiveJobsAccurate, WithinCapacity
<1>3. LeaseConsistent'
  BY DEF IInv, LeaseConsistent, Registered, SameAttempt
<1>4. RetriesBounded' /\ IdempotencyUnique' /\ RequestKept'
  BY DEF IInv, RequestKept, RetriesBounded, IdempotencyUnique, Exists, SameAttempt
<1>5. RunningJobSuits'
  <2> SUFFICES ASSUME NEW j \in JobIds, jobs[j].status = "running"
               PROVE  Suits(workers'[jobs[j].assigned_worker_id].spec, jobs[j].request)
    BY DEF RunningJobSuits, Suits, worker_matches, MatchReasons, SameAttempt
  <2> DEFINE w == jobs[j].assigned_worker_id
  <2>1. w \in WorkerIds
    BY DEF IInv, LeaseConsistent
  <2>2. j \in RunningJobs(w)
    BY DEF RunningJobs
  <2>3. workers'[w].spec = workers[w].spec
    BY <2>1, <2>2
  <2> QED
    BY <2>3 DEF IInv, RunningJobSuits
<1> QED
  BY <1>1, <1>2, <1>3, <1>4, <1>5 DEF IInv

\* An enrolment that passed the ownership check takes no GPU that is in use.
LEMMA UsersOwn ==
    ASSUME IInv, NEW v \in WorkerIds, UsesGpus(v)
    PROVE  owns_resources(v)
<1>1. CASE workers[v].state \in LiveStates
  BY <1>1 DEF owns_resources, Registered, LiveStates
<1>2. CASE RunningJobs(v) # {}
  <2>1. PICK j \in RunningJobs(v) : TRUE
    BY <1>2
  <2>2. Registered(v)
    BY <2>1 DEF RunningJobs, IInv, LeaseConsistent
  <2>3. workers[v].active_jobs > 0
    BY <1>2, RunningJobsFinite DEF IInv, ActiveJobsAccurate
  <2> QED
    BY <2>2, <2>3 DEF owns_resources
<1> QED
  BY <1>1, <1>2 DEF UsesGpus

-----------------------------------------------------------------------------
(* Worker calls                                                            *)

\* The GPUs stay exclusive when one worker takes what the check allowed.
LEMMA EnrolExclusive ==
    ASSUME IInv, \A j \in JobIds : SameAttempt(j), NEW w \in WorkerIds, NEW spec,
           gpu_ownership_available(w, spec),
           workers'[w].spec = spec,
           \A v \in WorkerIds \ {w} : workers'[v] = workers[v]
    PROVE  GpuExclusive'
<1>1. \A v \in WorkerIds \ {w} : UsesGpus(v)' <=> UsesGpus(v)
  BY SameRunning DEF UsesGpus
<1>2. \A v \in WorkerIds \ {w} : UsesGpus(v) => workers[v].spec.gpu_uuids \cap spec.gpu_uuids = {}
  BY UsersOwn DEF gpu_ownership_available
<1> SUFFICES ASSUME NEW u \in WorkerIds, NEW v \in WorkerIds, u # v, UsesGpus(u)', UsesGpus(v)'
             PROVE  workers'[u].spec.gpu_uuids \cap workers'[v].spec.gpu_uuids = {}
  BY DEF GpuExclusive
<1>3. CASE u = w
  BY <1>1, <1>2, <1>3
<1>4. CASE v = w
  BY <1>1, <1>2, <1>4
<1>5. CASE u # w /\ v # w
  BY <1>1, <1>5 DEF IInv, GpuExclusive
<1> QED
  BY <1>3, <1>4, <1>5

\* The GPUs stay exclusive when no worker becomes a user or changes topology.
LEMMA ReleaseExclusive ==
    ASSUME IInv,
           \A w \in WorkerIds : /\ workers'[w].spec = workers[w].spec
                                /\ UsesGpus(w)' => UsesGpus(w)
    PROVE  GpuExclusive'
BY DEF IInv, GpuExclusive

\* register_worker: the checks on a worker with active jobs and on GPU owners
\* are what the invariant needs.
LEMMA RegisterKeeps ==
    ASSUME IInv, NEW w \in WorkerIds, NEW spec \in Specs, NEW m \in MaxConcurrencies,
           NEW t \in Nat, register_worker(w, spec, m, t)
    PROVE  IInv'
<1> DEFINE row == [spec |-> spec, max_concurrency |-> m, state |-> "online",
                   active_jobs |-> Cardinality(RunningJobs(w)), last_seen_at |-> t]
<1>1. workers' = [workers EXCEPT ![w] = row] /\ UNCHANGED <<jobs, leases_issued, clock>>
  BY DEF register_worker
<1>2. row \in WorkerRecords
  BY RunningJobsFinite, ContractAssumption DEF WorkerRecords, WorkerStates, LiveStates
<1>3. workers \in [WorkerIds -> WorkerRecords]
  BY DEF IInv, TypeOK
<1>4. workers' \in [WorkerIds -> WorkerRecords]
  BY <1>1, <1>2, <1>3
<1>5. workers'[w] = row /\ \A v \in WorkerIds \ {w} : workers'[v] = workers[v]
  BY <1>1, <1>3
<1>6. GpuExclusive'
  BY <1>1, <1>5, SameJobs, EnrolExclusive DEF register_worker
<1>7. /\ workers[w].active_jobs = Cardinality(RunningJobs(w))
      /\ RunningJobs(w) # {} => spec = workers[w].spec /\ m >= workers[w].active_jobs
  BY RunningJobsFinite DEF register_worker, IInv, ActiveJobsAccurate
<1>8. Cardinality(RunningJobs(w)) <= m
  BY <1>7, RunningJobsFinite, ContractAssumption
<1>9. \A v \in WorkerIds \ {w} :
         /\ workers'[v].active_jobs = Cardinality(RunningJobs(v))
         /\ Cardinality(RunningJobs(v)) <= workers'[v].max_concurrency
         /\ Registered(v) => workers'[v].state # "unregistered"
         /\ workers'[v].spec = workers[v].spec
  BY <1>5 DEF IInv, ActiveJobsAccurate, WithinCapacity, Registered
<1> QED
  BY <1>1, <1>4, <1>5, <1>6, <1>7, <1>8, <1>9, SameJobs, WorkersOnly

\* set_worker_state: only the way out of OFFLINE needs the ownership check.
LEMMA SetStateKeeps ==
    ASSUME IInv, NEW w \in WorkerIds, NEW state \in WorkerStates,
           NEW t \in Nat, set_worker_state(w, state, t)
    PROVE  IInv'
<1>1. /\ workers' = [workers EXCEPT ![w] = [workers[w] EXCEPT !.state = state, !.last_seen_at = t]]
      /\ UNCHANGED <<jobs, leases_issued, clock>>
  BY DEF set_worker_state
<1>2. workers \in [WorkerIds -> WorkerRecords]
  BY DEF IInv, TypeOK
<1>3. workers' \in [WorkerIds -> WorkerRecords]
  BY <1>1, <1>2 DEF WorkerRecords
<1>4. /\ \A v \in WorkerIds \ {w} : workers'[v] = workers[v]
      /\ workers'[w] = [workers[w] EXCEPT !.state = state, !.last_seen_at = t]
  BY <1>1, <1>2
<1>5. /\ workers'[w].spec = workers[w].spec
      /\ workers'[w].active_jobs = workers[w].active_jobs
      /\ workers'[w].max_concurrency = workers[w].max_concurrency
      /\ workers'[w].state = state
  BY <1>2, <1>4 DEF WorkerRecords
<1>6. GpuExclusive'
  <2>1. CASE state = "offline"
    <3>1. \A v \in WorkerIds : UsesGpus(v)' => UsesGpus(v)
      BY <1>1, <1>4, <1>5, <2>1, SameJobs, SameRunning DEF UsesGpus, LiveStates
    <3> QED
      BY <1>4, <1>5, <3>1, ReleaseExclusive
  <2>2. CASE state # "offline"
    BY <1>1, <1>4, <1>5, <2>2, SameJobs, EnrolExclusive DEF set_worker_state
  <2> QED
    BY <2>1, <2>2
<1>7. \A v \in WorkerIds :
         /\ workers'[v].active_jobs = Cardinality(RunningJobs(v))
         /\ Cardinality(RunningJobs(v)) <= workers'[v].max_concurrency
         /\ Registered(v) => workers'[v].state # "unregistered"
         /\ workers'[v].spec = workers[v].spec
  BY <1>4, <1>5 DEF IInv, ActiveJobsAccurate, WithinCapacity, Registered, WorkerStates, LiveStates
<1> QED
  BY <1>1, <1>3, <1>6, <1>7, SameJobs, WorkersOnly

\* A step that only lets go of GPUs: no topology, capacity or count changes, and
\* no worker becomes live.
LEMMA ReleasesOnly ==
    ASSUME IInv, UNCHANGED <<leases_issued, clock>>,
           jobs' \in [JobIds -> JobRecords], \A j \in JobIds : SameAttempt(j),
           workers' \in [WorkerIds -> WorkerRecords],
           \A w \in WorkerIds :
              /\ workers'[w].spec = workers[w].spec
              /\ workers'[w].max_concurrency = workers[w].max_concurrency
              /\ workers'[w].active_jobs = workers[w].active_jobs
              /\ workers'[w].state \in LiveStates => workers[w].state \in LiveStates
              /\ Registered(w) => workers'[w].state # "unregistered"
    PROVE  IInv'
<1>1. \A w \in WorkerIds : UsesGpus(w)' => UsesGpus(w)
  BY SameRunning DEF UsesGpus
<1>2. GpuExclusive'
  BY <1>1, ReleaseExclusive
<1>3. \A w \in WorkerIds :
         /\ workers'[w].active_jobs = Cardinality(RunningJobs(w))
         /\ Cardinality(RunningJobs(w)) <= workers'[w].max_concurrency
  BY DEF IInv, ActiveJobsAccurate, WithinCapacity
<1> QED
  BY <1>2, <1>3, WorkersOnly

\* expire_stale_workers takes workers OFFLINE, which gives GPUs up and takes none.
LEMMA ExpireKeeps ==
    ASSUME IInv, NEW S \in SUBSET WorkerIds, NEW t \in Nat, expire_stale_workers(S, t)
    PROVE  IInv'
<1>1. workers \in [WorkerIds -> WorkerRecords]
  BY DEF IInv, TypeOK
<1>2. /\ workers' = [w \in WorkerIds |-> IF w \in S THEN [workers[w] EXCEPT !.state = "offline"]
                                         ELSE workers[w]]
      /\ UNCHANGED <<jobs, leases_issued, clock>>
  BY DEF expire_stale_workers
<1>3. workers' \in [WorkerIds -> WorkerRecords]
  BY <1>1, <1>2 DEF WorkerRecords, WorkerStates
<1>4. \A w \in WorkerIds :
         /\ workers'[w].spec = workers[w].spec
         /\ workers'[w].max_concurrency = workers[w].max_concurrency
         /\ workers'[w].active_jobs = workers[w].active_jobs
         /\ workers'[w].state \in {workers[w].state, "offline"}
  BY <1>1, <1>2 DEF WorkerRecords
<1> QED
  BY <1>2, <1>3, <1>4, SameJobs, ReleasesOnly DEF LiveStates, Registered

\* The same for the claim that retires its caller.
LEMMA RetireKeeps ==
    ASSUME IInv, NEW w \in WorkerIds, retire_claimer(w)
    PROVE  IInv'
<1>1. workers \in [WorkerIds -> WorkerRecords]
  BY DEF IInv, TypeOK
<1>2. /\ workers' = [workers EXCEPT ![w] = [workers[w] EXCEPT !.state = "offline"]]
      /\ UNCHANGED <<jobs, leases_issued, clock>>
  BY DEF retire_claimer
<1>3. workers' \in [WorkerIds -> WorkerRecords]
  BY <1>1, <1>2 DEF WorkerRecords, WorkerStates
<1>4. \A v \in WorkerIds :
         /\ workers'[v].spec = workers[v].spec
         /\ workers'[v].max_concurrency = workers[v].max_concurrency
         /\ workers'[v].active_jobs = workers[v].active_jobs
         /\ workers'[v].state \in {workers[v].state, "offline"}
  BY <1>1, <1>2 DEF WorkerRecords
<1> QED
  BY <1>2, <1>3, <1>4, SameJobs, ReleasesOnly DEF LiveStates, Registered

\* What a heartbeat writes to the worker row keeps all but state and last_seen_at.
LEMMA HeartbeatRowFacts ==
    ASSUME IInv, NEW w \in WorkerIds, NEW state \in WorkerStates \cup {"unchanged"},
           NEW t \in Nat, HeartbeatAllowed(w, state),
           workers' = [workers EXCEPT ![w] = HeartbeatRow(w, state, t)]
    PROVE  /\ workers' \in [WorkerIds -> WorkerRecords]
           /\ \A v \in WorkerIds :
                 /\ workers'[v].spec = workers[v].spec
                 /\ workers'[v].max_concurrency = workers[v].max_concurrency
                 /\ workers'[v].active_jobs = workers[v].active_jobs
                 /\ workers'[v].state \in LiveStates => workers[v].state \in LiveStates
                 /\ Registered(v) => workers'[v].state # "unregistered"
<1>1. workers \in [WorkerIds -> WorkerRecords] /\ workers[w] \in WorkerRecords
  BY DEF IInv, TypeOK
<1>2. workers[w].active_jobs = Cardinality(RunningJobs(w))
  BY DEF IInv, ActiveJobsAccurate
<1> DEFINE s == HeartbeatState(w, state)
<1>3. /\ s \in WorkerStates
      /\ s \in LiveStates => workers[w].state \in LiveStates
  BY <1>1 DEF HeartbeatState, HeartbeatAllowed, Registered, WorkerRecords, WorkerStates, LiveStates
<1> HIDE DEF s
<1>4. HeartbeatRow(w, state, t) =
         [workers[w] EXCEPT !.state = s, !.active_jobs = workers[w].active_jobs,
                            !.last_seen_at = t]
  BY <1>2 DEF HeartbeatRow, s
<1>5. /\ HeartbeatRow(w, state, t) \in WorkerRecords
      /\ HeartbeatRow(w, state, t).spec = workers[w].spec
      /\ HeartbeatRow(w, state, t).max_concurrency = workers[w].max_concurrency
      /\ HeartbeatRow(w, state, t).active_jobs = workers[w].active_jobs
      /\ HeartbeatRow(w, state, t).state = s
  BY <1>1, <1>3, <1>4 DEF WorkerRecords
<1>6. "unregistered" \notin WorkerStates
  BY DEF WorkerStates, LiveStates
<1> QED
  BY <1>1, <1>3, <1>5, <1>6 DEF Registered

\* heartbeat_worker without a lease.
LEMMA HeartbeatKeeps ==
    ASSUME IInv, NEW w \in WorkerIds, NEW state \in WorkerStates \cup {"unchanged"},
           NEW t \in Nat, heartbeat_worker(w, state, t)
    PROVE  IInv'
<1>1. /\ HeartbeatAllowed(w, state)
      /\ workers' = [workers EXCEPT ![w] = HeartbeatRow(w, state, t)]
      /\ UNCHANGED <<jobs, leases_issued, clock>>
  BY DEF heartbeat_worker
<1> QED
  BY <1>1, HeartbeatRowFacts, SameJobs, ReleasesOnly

\* heartbeat_worker that renews a lease.
LEMMA RenewKeeps ==
    ASSUME IInv, NEW w \in WorkerIds, NEW state \in WorkerStates \cup {"unchanged"},
           NEW j \in JobIds, NEW token, NEW t \in Nat, heartbeat_lease(w, state, j, token, t)
    PROVE  IInv'
<1>1. /\ HeartbeatAllowed(w, state)
      /\ workers' = [workers EXCEPT ![w] = HeartbeatRow(w, state, t)]
      /\ jobs' = [jobs EXCEPT ![j] = [jobs[j] EXCEPT !.lease_expires_at = t + LeaseSeconds]]
      /\ UNCHANGED <<leases_issued, clock>>
      /\ jobs[j].status = "running"
  BY DEF heartbeat_lease, assert_running
<1>2. jobs \in [JobIds -> JobRecords]
  BY DEF IInv, TypeOK
<1>3. t + LeaseSeconds \in Nat
  BY ContractAssumption
<1>4. jobs' \in [JobIds -> JobRecords]
  BY <1>1, <1>2, <1>3 DEF JobRecords
<1>5. \A k \in JobIds : jobs'[k].lease_expires_at = IF k = j THEN t + LeaseSeconds
                                                    ELSE jobs[k].lease_expires_at
  BY <1>1, <1>2 DEF JobRecords
<1>6. \A k \in JobIds : /\ jobs'[k].request = jobs[k].request
                        /\ jobs'[k].status = jobs[k].status
                        /\ jobs'[k].attempts = jobs[k].attempts
                        /\ jobs'[k].assigned_worker_id = jobs[k].assigned_worker_id
                        /\ jobs'[k].lease_token = jobs[k].lease_token
  BY <1>1, <1>2 DEF JobRecords
<1>7. \A k \in JobIds : SameAttempt(k)
  BY <1>1, <1>3, <1>5, <1>6 DEF SameAttempt, IInv, LeaseConsistent, Unset
<1> QED
  BY <1>1, <1>4, <1>7, HeartbeatRowFacts, ReleasesOnly

-----------------------------------------------------------------------------
(* Jobs                                                                    *)

\* The job's attempt ends, or it leaves the queue: nothing of the lease is left,
\* and it is queued only while attempts are left.
Ends(j) ==
    /\ jobs[j].status \in {"queued", "running"}
    /\ jobs'[j].request = jobs[j].request
    /\ jobs'[j].attempts = jobs[j].attempts
    /\ jobs'[j].status \in {"queued"} \cup TerminalStatuses
    /\ jobs'[j].status = "queued" => jobs[j].attempts < jobs[j].request.max_attempts
    /\ jobs'[j].assigned_worker_id = NoWorker
    /\ jobs'[j].lease_token = NoToken
    /\ jobs'[j].lease_expires_at = Unset

\* Ending the jobs of S and giving their capacity back keeps the invariant.
LEMMA EndsKeep ==
    ASSUME IInv, NEW S \in SUBSET JobIds, release_worker_capacity(S),
           UNCHANGED <<leases_issued, clock>>,
           jobs' \in [JobIds -> JobRecords],
           \A j \in S : Ends(j), \A j \in JobIds \ S : jobs'[j] = jobs[j]
    PROVE  IInv'
<1>1. TypeOK
  BY DEF IInv
<1>2. TypeOK'
  BY <1>1, ReleaseFacts DEF TypeOK
<1>3. \A w \in WorkerIds : RunningJobs(w)' = RunningJobs(w) \ S
  BY DEF RunningJobs, Ends, TerminalStatuses
<1>4. \A w \in WorkerIds :
         /\ Cardinality(RunningJobs(w)') = Cardinality(RunningJobs(w)) - Cardinality(S \cap RunningJobs(w))
         /\ Cardinality(RunningJobs(w)') \in Nat
         /\ Cardinality(S \cap RunningJobs(w)) \in Nat
  <2> SUFFICES ASSUME NEW w \in WorkerIds
               PROVE  /\ Cardinality(RunningJobs(w) \ S)
                           = Cardinality(RunningJobs(w)) - Cardinality(S \cap RunningJobs(w))
                      /\ Cardinality(RunningJobs(w) \ S) \in Nat
                      /\ Cardinality(S \cap RunningJobs(w)) \in Nat
    BY <1>3
  <2>1. IsFiniteSet(RunningJobs(w))
    BY RunningJobsFinite
  <2>2. /\ IsFiniteSet(RunningJobs(w) \ S)
        /\ Cardinality(RunningJobs(w) \ S)
             = Cardinality(RunningJobs(w)) - Cardinality(RunningJobs(w) \cap S)
    BY <2>1, FS_Difference
  <2>3. RunningJobs(w) \cap S = S \cap RunningJobs(w)
    OBVIOUS
  <2>4. IsFiniteSet(S \cap RunningJobs(w))
    BY <2>1, FS_Subset, S \cap RunningJobs(w) \subseteq RunningJobs(w)
  <2> QED
    BY <2>2, <2>3, <2>4, FS_CardinalityType
<1>5. \A w \in WorkerIds : workers'[w].active_jobs = Cardinality(RunningJobs(w)')
  <2> SUFFICES ASSUME NEW w \in WorkerIds
               PROVE  workers'[w].active_jobs = Cardinality(RunningJobs(w)')
    OBVIOUS
  <2>1. workers[w].active_jobs = Cardinality(RunningJobs(w))
    BY DEF IInv, ActiveJobsAccurate
  <2>2. workers'[w].active_jobs =
           IF workers[w].active_jobs > Cardinality(S \cap RunningJobs(w))
           THEN workers[w].active_jobs - Cardinality(S \cap RunningJobs(w)) ELSE 0
    BY <1>1, ReleaseFacts
  <2> QED
    BY <1>4, <2>1, <2>2, RunningJobsFinite
<1>6. ActiveJobsAccurate'
  BY <1>5 DEF ActiveJobsAccurate
<1>7. WithinCapacity'
  <2> SUFFICES ASSUME NEW w \in WorkerIds
               PROVE  Cardinality(RunningJobs(w)') <= workers'[w].max_concurrency
    BY DEF WithinCapacity
  <2>1. Cardinality(RunningJobs(w)) <= workers[w].max_concurrency
    BY DEF IInv, WithinCapacity
  <2>2. workers'[w].max_concurrency = workers[w].max_concurrency /\ workers[w].max_concurrency \in Nat
    BY <1>1, ReleaseFacts DEF TypeOK, WorkerRecords
  <2> DEFINE new == Cardinality(RunningJobs(w)')
             old == Cardinality(RunningJobs(w))
             gone == Cardinality(S \cap RunningJobs(w))
  <2>3. new = old - gone /\ new \in Nat /\ gone \in Nat
    BY <1>4
  <2>4. old \in Nat
    BY RunningJobsFinite
  <2> HIDE DEF new, old, gone
  <2>5. new <= old
    BY <2>3, <2>4
  <2>6. new <= workers'[w].max_concurrency
    BY <2>1, <2>2, <2>3, <2>4, <2>5 DEF old
  <2> QED
    BY <2>6 DEF new
<1>8. GpuExclusive'
  <2>1. \A w \in WorkerIds : UsesGpus(w)' => UsesGpus(w)
    BY <1>1, <1>3, ReleaseFacts DEF UsesGpus
  <2> QED
    BY <1>1, <2>1, ReleaseFacts, ReleaseExclusive
<1>9. \A j \in JobIds : /\ jobs'[j].request = jobs[j].request
                        /\ Exists(j)' <=> Exists(j)
                        /\ jobs'[j].lease_token \in {NoToken, jobs[j].lease_token}
                        /\ jobs'[j].status = "running" => jobs'[j] = jobs[j]
  BY DEF Ends, Exists, TerminalStatuses
<1>10. LeaseConsistent'
  <2> SUFFICES ASSUME NEW j \in JobIds
               PROVE  /\ jobs'[j].lease_token <= leases_issued
                      /\ IF jobs'[j].status = "running"
                         THEN /\ jobs'[j].assigned_worker_id \in WorkerIds
                              /\ workers'[jobs'[j].assigned_worker_id].state # "unregistered"
                              /\ jobs'[j].lease_expires_at # Unset
                              /\ jobs'[j].lease_token # NoToken
                              /\ \A k \in JobIds : jobs'[k].lease_token = jobs'[j].lease_token => k = j
                         ELSE /\ jobs'[j].assigned_worker_id = NoWorker
                              /\ jobs'[j].lease_token = NoToken
                              /\ jobs'[j].lease_expires_at = Unset
    BY DEF LeaseConsistent, Registered
  <2>1. jobs'[j].lease_token <= leases_issued
    BY <1>1, <1>9 DEF IInv, LeaseConsistent, TypeOK, NoToken
  <2>2. CASE jobs'[j].status = "running"
    <3>1. jobs'[j] = jobs[j] /\ jobs[j].status = "running"
      BY <1>9, <2>2
    <3>2. /\ jobs[j].assigned_worker_id \in WorkerIds
          /\ workers[jobs[j].assigned_worker_id].state # "unregistered"
          /\ jobs[j].lease_expires_at # Unset
          /\ jobs[j].lease_token # NoToken
          /\ \A k \in JobIds : jobs[k].lease_token = jobs[j].lease_token => k = j
      BY <3>1 DEF IInv, LeaseConsistent, Registered
    <3>3. workers'[jobs[j].assigned_worker_id].state # "unregistered"
      BY <1>1, <3>2, ReleaseFacts
    <3>4. \A k \in JobIds : jobs'[k].lease_token = jobs[j].lease_token => k = j
      BY <1>9, <3>2
    <3> QED
      BY <2>1, <2>2, <3>1, <3>2, <3>3, <3>4
  <2>3. CASE jobs'[j].status # "running"
    BY <2>1, <2>3 DEF Ends, IInv, LeaseConsistent
  <2> QED
    BY <2>2, <2>3
<1>11. RetriesBounded'
  BY <1>9 DEF IInv, RetriesBounded, Exists, Ends, TerminalStatuses
<1>12. RunningJobSuits'
  <2> SUFFICES ASSUME NEW j \in JobIds, jobs'[j].status = "running"
               PROVE  Suits(workers'[jobs[j].assigned_worker_id].spec, jobs[j].request)
    BY <1>9 DEF RunningJobSuits, Suits, worker_matches, MatchReasons
  <2>1. jobs'[j] = jobs[j] /\ jobs[j].assigned_worker_id \in WorkerIds
    BY <1>9 DEF IInv, LeaseConsistent
  <2>2. workers'[jobs[j].assigned_worker_id].spec = workers[jobs[j].assigned_worker_id].spec
    BY <1>1, <2>1, ReleaseFacts
  <2> QED
    BY <2>1, <2>2 DEF IInv, RunningJobSuits
<1>13. IdempotencyUnique' /\ RequestKept'
  BY <1>9 DEF IInv, IdempotencyUnique, RequestKept
<1> QED
  BY <1>2, <1>6, <1>7, <1>8, <1>10, <1>11, <1>12, <1>13 DEF IInv

\* EndAttempt ends the attempt of a running job.
LEMMA EndAttemptFacts ==
    ASSUME NEW job \in JobRecords, NEW retryable \in BOOLEAN, NEW t \in Nat
    PROVE  LET new == EndAttempt(job, retryable, t) IN
           /\ new \in JobRecords
           /\ new.request = job.request
           /\ new.attempts = job.attempts
           /\ new.status \in {"queued", "failed"}
           /\ new.status = "queued" => job.attempts < job.request.max_attempts
           /\ new.assigned_worker_id = NoWorker
           /\ new.lease_token = NoToken
           /\ new.lease_expires_at = Unset
BY DEF EndAttempt, Unleased, JobRecords, JobStatuses, TerminalStatuses, NoToken

\* complete_job ends one running job.
LEMMA CompleteKeeps ==
    ASSUME IInv, NEW j \in JobIds, NEW w \in WorkerIds, NEW token \in Nat, NEW t \in Nat,
           complete_job(j, w, token, t)
    PROVE  IInv'
<1> DEFINE new == [Unleased(jobs[j]) EXCEPT !.status = "succeeded", !.result = token,
                                            !.error = "none"]
<1>1. /\ jobs' = [jobs EXCEPT ![j] = new]
      /\ jobs[j].status = "running"
      /\ release_worker_capacity({j})
      /\ UNCHANGED <<leases_issued, clock>>
  BY DEF complete_job, assert_running
<1>2. jobs \in [JobIds -> JobRecords] /\ jobs[j] \in JobRecords
  BY DEF IInv, TypeOK
<1>3. /\ new \in JobRecords
      /\ new.request = jobs[j].request /\ new.attempts = jobs[j].attempts
      /\ new.status = "succeeded" /\ new.assigned_worker_id = NoWorker
      /\ new.lease_token = NoToken /\ new.lease_expires_at = Unset
  BY <1>2 DEF Unleased, JobRecords, JobStatuses, TerminalStatuses, NoToken
<1> HIDE DEF new
<1>4. Ends(j) /\ jobs' \in [JobIds -> JobRecords] /\ \A k \in JobIds \ {j} : jobs'[k] = jobs[k]
  BY <1>1, <1>2, <1>3 DEF Ends, TerminalStatuses
<1> QED
  BY <1>1, <1>4, EndsKeep

\* fail_job ends one attempt, with or without a retry.
LEMMA FailKeeps ==
    ASSUME IInv, NEW j \in JobIds, NEW w \in WorkerIds, NEW token \in Nat,
           NEW retryable \in BOOLEAN, NEW t \in Nat, fail_job(j, w, token, retryable, t)
    PROVE  IInv'
<1>1. /\ jobs' = [jobs EXCEPT ![j] = EndAttempt(jobs[j], retryable, t)]
      /\ jobs[j].status = "running"
      /\ release_worker_capacity({j})
      /\ UNCHANGED <<leases_issued, clock>>
  BY DEF fail_job, assert_running
<1>2. jobs \in [JobIds -> JobRecords] /\ jobs[j] \in JobRecords
  BY DEF IInv, TypeOK
<1>3. Ends(j) /\ jobs' \in [JobIds -> JobRecords] /\ \A k \in JobIds \ {j} : jobs'[k] = jobs[k]
  BY <1>1, <1>2, EndAttemptFacts DEF Ends, TerminalStatuses
<1> QED
  BY <1>1, <1>3, EndsKeep

\* cancel_job ends a running job, or a queued one that held no capacity.
LEMMA CancelKeeps ==
    ASSUME IInv, NEW j \in JobIds, cancel_job(j)
    PROVE  IInv'
<1> DEFINE new == [Unleased(jobs[j]) EXCEPT !.status = "cancelled"]
<1>1. /\ jobs' = [jobs EXCEPT ![j] = new]
      /\ jobs[j].status \in {"queued", "running"}
      /\ release_worker_capacity({j})
      /\ UNCHANGED <<leases_issued, clock>>
  BY DEF cancel_job
<1>2. jobs \in [JobIds -> JobRecords] /\ jobs[j] \in JobRecords
  BY DEF IInv, TypeOK
<1>3. /\ new \in JobRecords
      /\ new.request = jobs[j].request /\ new.attempts = jobs[j].attempts
      /\ new.status = "cancelled" /\ new.assigned_worker_id = NoWorker
      /\ new.lease_token = NoToken /\ new.lease_expires_at = Unset
  BY <1>2 DEF Unleased, JobRecords, JobStatuses, TerminalStatuses, NoToken
<1> HIDE DEF new
<1>4. Ends(j) /\ jobs' \in [JobIds -> JobRecords] /\ \A k \in JobIds \ {j} : jobs'[k] = jobs[k]
  BY <1>1, <1>2, <1>3 DEF Ends, TerminalStatuses
<1> QED
  BY <1>1, <1>4, EndsKeep

\* recover_expired_jobs ends any set of running jobs at once.
LEMMA RecoverKeeps ==
    ASSUME IInv, NEW S \in SUBSET JobIds, NEW t \in Nat, recover_expired_jobs(S, t)
    PROVE  IInv'
<1>1. /\ jobs' = [j \in JobIds |-> IF j \in S THEN EndAttempt(jobs[j], TRUE, t) ELSE jobs[j]]
      /\ \A j \in S : jobs[j].status = "running"
      /\ release_worker_capacity(S)
      /\ UNCHANGED <<leases_issued, clock>>
  BY DEF recover_expired_jobs, LeaseExpired
<1>2. jobs \in [JobIds -> JobRecords]
  BY DEF IInv, TypeOK
<1>3. ASSUME NEW j \in S PROVE Ends(j)
  <2>1. j \in JobIds /\ jobs[j] \in JobRecords /\ jobs[j].status = "running" /\ TRUE \in BOOLEAN
    BY <1>1, <1>2
  <2> DEFINE new == EndAttempt(jobs[j], TRUE, t)
  <2>2. jobs'[j] = new
    BY <1>1, <2>1
  <2>3. /\ new.request = jobs[j].request /\ new.attempts = jobs[j].attempts
        /\ new.status \in {"queued", "failed"}
        /\ new.status = "queued" => jobs[j].attempts < jobs[j].request.max_attempts
        /\ new.assigned_worker_id = NoWorker
        /\ new.lease_token = NoToken /\ new.lease_expires_at = Unset
    BY <2>1, EndAttemptFacts
  <2> HIDE DEF new
  <2> QED
    BY <2>1, <2>2, <2>3 DEF Ends, TerminalStatuses
<1>4. jobs' \in [JobIds -> JobRecords] /\ \A k \in JobIds \ S : jobs'[k] = jobs[k]
  BY <1>1, <1>2, EndAttemptFacts
<1> QED
  BY <1>1, <1>3, <1>4, EndsKeep

\* submit_job fills a free row under a key that is not taken.
LEMMA SubmitKeeps ==
    ASSUME IInv, NEW s \in Submissions, NEW j \in JobIds, NEW t \in Nat, submit_job(s, j, t)
    PROVE  IInv'
<1>1. /\ jobs' = [jobs EXCEPT ![j] = NewJob(s, t)]
      /\ jobs[j].status = "none"
      /\ s.idempotency_key # NoKey => ~ KeyTaken(s.idempotency_key)
      /\ UNCHANGED <<workers, leases_issued, clock>>
  BY DEF submit_job, Exists
<1>2. jobs \in [JobIds -> JobRecords] /\ s.max_attempts \in Nat \ {0} /\ s.available_at \in Nat \cup {Unset}
  BY ContractAssumption DEF IInv, TypeOK
<1>3. /\ NewJob(s, t) \in JobRecords
      /\ NewJob(s, t).request = s /\ NewJob(s, t).status = "queued"
      /\ NewJob(s, t).attempts = 0 /\ NewJob(s, t).assigned_worker_id = NoWorker
      /\ NewJob(s, t).lease_token = NoToken /\ NewJob(s, t).lease_expires_at = Unset
  BY <1>2 DEF NewJob, NoJobRecord, JobRecords, JobStatuses, NoToken
<1>4. jobs'[j] = NewJob(s, t) /\ \A k \in JobIds \ {j} : jobs'[k] = jobs[k]
  BY <1>1, <1>2
<1>5. TypeOK'
  BY <1>1, <1>2, <1>3 DEF IInv, TypeOK
<1>6. \A w : RunningJobs(w)' = RunningJobs(w)
  BY <1>1, <1>3, <1>4 DEF RunningJobs
<1>7. ActiveJobsAccurate' /\ WithinCapacity' /\ GpuExclusive'
  BY <1>1, <1>6 DEF IInv, ActiveJobsAccurate, WithinCapacity, GpuExclusive, UsesGpus
<1>8. LeaseConsistent'
  <2>1. NoToken <= leases_issued
    BY DEF IInv, TypeOK, NoToken
  <2>2. \A k \in JobIds : jobs[k].status = "running" => k # j /\ jobs'[j].lease_token # jobs[k].lease_token
    BY <1>1, <1>3, <1>4 DEF IInv, LeaseConsistent
  <2> QED
    BY <1>1, <1>3, <1>4, <2>1, <2>2 DEF IInv, LeaseConsistent, Registered
<1>9. RetriesBounded'
  <2>1. 0 <= s.max_attempts /\ 0 < s.max_attempts
    BY <1>2
  <2> QED
    BY <1>3, <1>4, <2>1 DEF IInv, RetriesBounded, Exists
<1>10. RunningJobSuits'
  BY <1>1, <1>3, <1>4, SMTT(30) DEF IInv, RunningJobSuits, Suits, worker_matches, MatchReasons
<1>11. IdempotencyUnique' /\ RequestKept'
  BY <1>1, <1>3, <1>4 DEF IInv, IdempotencyUnique, RequestKept, Exists, KeyTaken
<1> QED
  BY <1>5, <1>7, <1>8, <1>9, <1>10, <1>11 DEF IInv

\* claim_next_job adds one running job and one unit of active_jobs.
LEMMA ClaimKeeps ==
    ASSUME IInv, NEW j \in JobIds, NEW w \in WorkerIds, NEW t \in Nat, claim_next_job(j, w, t)
    PROVE  IInv'
<1> DEFINE new == [jobs[j] EXCEPT !.status = "running", !.attempts = @ + 1,
                                  !.assigned_worker_id = w, !.lease_token = leases_issued + 1,
                                  !.lease_expires_at = t + LeaseSeconds, !.error = "none"]
<1>1. /\ jobs' = [jobs EXCEPT ![j] = new]
      /\ workers' = [workers EXCEPT ![w].active_jobs = @ + 1]
      /\ leases_issued' = leases_issued + 1
      /\ clock' = clock
  BY DEF claim_next_job
<1>2. /\ jobs[j].status = "queued"
      /\ jobs[j].attempts < jobs[j].request.max_attempts
      /\ Suits(workers[w].spec, jobs[j].request)
      /\ workers[w].state = "online"
      /\ workers[w].active_jobs < workers[w].max_concurrency
  BY DEF claim_next_job, eligible, Claiming
<1>3. /\ jobs \in [JobIds -> JobRecords] /\ jobs[j] \in JobRecords
      /\ workers \in [WorkerIds -> WorkerRecords] /\ workers[w] \in WorkerRecords
      /\ leases_issued \in Nat /\ clock \in Nat
  BY DEF IInv, TypeOK
<1>4. /\ new \in JobRecords
      /\ new.request = jobs[j].request /\ new.attempts = jobs[j].attempts + 1
      /\ new.status = "running" /\ new.assigned_worker_id = w
      /\ new.lease_token = leases_issued + 1 /\ new.lease_expires_at = t + LeaseSeconds
  <2> DEFINE attempts == jobs[j].attempts + 1
             token == leases_issued + 1
             expiry == t + LeaseSeconds
  <2>1. expiry \in Nat /\ token \in Nat /\ attempts \in Nat
    BY <1>3, ContractAssumption DEF JobRecords
  <2>2. new = [jobs[j] EXCEPT !.status = "running", !.attempts = attempts,
                              !.assigned_worker_id = w, !.lease_token = token,
                              !.lease_expires_at = expiry, !.error = "none"]
    OBVIOUS
  <2> HIDE DEF new, attempts, token, expiry
  <2>3. /\ new \in JobRecords
        /\ new.request = jobs[j].request /\ new.attempts = attempts
        /\ new.status = "running" /\ new.assigned_worker_id = w
        /\ new.lease_token = token /\ new.lease_expires_at = expiry
    BY <1>3, <2>1, <2>2 DEF JobRecords, JobStatuses
  <2> QED
    BY <2>3 DEF attempts, token, expiry
<1> HIDE DEF new
<1>5. jobs'[j] = new /\ \A k \in JobIds \ {j} : jobs'[k] = jobs[k]
  BY <1>1, <1>3
<1>6. /\ workers' \in [WorkerIds -> WorkerRecords]
      /\ \A v \in WorkerIds : /\ workers'[v].spec = workers[v].spec
                              /\ workers'[v].state = workers[v].state
                              /\ workers'[v].max_concurrency = workers[v].max_concurrency
                              /\ workers'[v].active_jobs = workers[v].active_jobs + (IF v = w THEN 1 ELSE 0)
  BY <1>1, <1>3 DEF WorkerRecords
<1>7. TypeOK'
  BY <1>1, <1>3, <1>4, <1>6 DEF TypeOK
<1>8. /\ RunningJobs(w)' = RunningJobs(w) \cup {j}
      /\ j \notin RunningJobs(w)
      /\ \A v \in WorkerIds \ {w} : RunningJobs(v)' = RunningJobs(v)
  BY <1>2, <1>4, <1>5 DEF RunningJobs
<1>9. \A v \in WorkerIds :
         Cardinality(RunningJobs(v)') = Cardinality(RunningJobs(v)) + (IF v = w THEN 1 ELSE 0)
  <2> SUFFICES ASSUME NEW v \in WorkerIds
               PROVE  Cardinality(RunningJobs(v)') = Cardinality(RunningJobs(v)) + (IF v = w THEN 1 ELSE 0)
    OBVIOUS
  <2>1. Cardinality(RunningJobs(w) \cup {j}) = Cardinality(RunningJobs(w)) + 1
    BY <1>8, RunningJobsFinite, FS_AddElement
  <2>2. Cardinality(RunningJobs(v)) \in Nat
    BY RunningJobsFinite
  <2>3. CASE v = w
    BY <1>8, <2>1, <2>3
  <2>4. CASE v # w
    <3>1. RunningJobs(v)' = RunningJobs(v)
      BY <1>8, <2>4
    <3> QED
      BY <2>2, <2>4, <3>1
  <2> QED
    BY <2>3, <2>4
<1>10. ActiveJobsAccurate'
  BY <1>6, <1>9 DEF IInv, ActiveJobsAccurate
<1>11. WithinCapacity'
  <2> SUFFICES ASSUME NEW v \in WorkerIds
               PROVE  Cardinality(RunningJobs(v)') <= workers'[v].max_concurrency
    BY DEF WithinCapacity
  <2> DEFINE n == Cardinality(RunningJobs(v))
             m == workers[v].max_concurrency
  <2>1. n \in Nat /\ m \in Nat /\ n <= m /\ n = workers[v].active_jobs
    BY <1>3, RunningJobsFinite DEF IInv, WithinCapacity, ActiveJobsAccurate, WorkerRecords
  <2>2. v = w => n < m
    BY <1>2, <2>1
  <2>3. Cardinality(RunningJobs(v)') = n + (IF v = w THEN 1 ELSE 0)
    BY <1>9
  <2>4. workers'[v].max_concurrency = m
    BY <1>6
  <2> HIDE DEF n, m
  <2> QED
    BY <2>1, <2>2, <2>3, <2>4
<1>12. GpuExclusive'
  <2>1. UsesGpus(w)
    BY <1>2 DEF UsesGpus, LiveStates
  <2>2. \A v \in WorkerIds : UsesGpus(v)' => UsesGpus(v)
    BY <1>6, <1>8, <2>1 DEF UsesGpus
  <2> QED
    BY <1>6, <2>2, ReleaseExclusive
<1>13. LeaseConsistent'
  <2>1. \A k \in JobIds : jobs[k].lease_token \in Nat /\ jobs[k].lease_token <= leases_issued
    BY <1>3 DEF IInv, LeaseConsistent, JobRecords
  <2>2. \A k \in JobIds : jobs'[k].lease_token <= leases_issued'
    BY <1>1, <1>3, <1>4, <1>5, <2>1
  <2>3. \A k \in JobIds \ {j} : jobs'[k].lease_token # new.lease_token
    BY <1>3, <1>4, <1>5, <2>1
  <2>4. t + LeaseSeconds # Unset /\ new.lease_token # NoToken
    BY <1>3, <1>4, ContractAssumption DEF Unset, NoToken
  <2>5. Registered(w)
    BY <1>2 DEF Registered
  <2>6. \A v \in WorkerIds : Registered(v) => workers'[v].state # "unregistered"
    BY <1>6 DEF Registered
  <2> SUFFICES ASSUME NEW k \in JobIds
               PROVE  IF jobs'[k].status = "running"
                      THEN /\ jobs'[k].assigned_worker_id \in WorkerIds
                           /\ workers'[jobs'[k].assigned_worker_id].state # "unregistered"
                           /\ jobs'[k].lease_expires_at # Unset
                           /\ jobs'[k].lease_token # NoToken
                           /\ \A i \in JobIds : jobs'[i].lease_token = jobs'[k].lease_token => i = k
                      ELSE /\ jobs'[k].assigned_worker_id = NoWorker
                           /\ jobs'[k].lease_token = NoToken
                           /\ jobs'[k].lease_expires_at = Unset
    BY <2>2 DEF LeaseConsistent, Registered
  <2>7. CASE k = j
    BY <1>4, <1>5, <2>3, <2>4, <2>5, <2>6, <2>7
  <2>8. CASE k # j
    <3>1. jobs'[k] = jobs[k]
      BY <1>5, <2>8
    <3>2. \A i \in JobIds \ {j} : jobs'[i] = jobs[i]
      BY <1>5
    <3> QED
      BY <1>5, <2>3, <2>6, <2>8, <3>1, <3>2 DEF IInv, LeaseConsistent
  <2> QED
    BY <2>7, <2>8
<1>14. RetriesBounded'
  <2>1. jobs[j].attempts \in Nat /\ jobs[j].request.max_attempts \in Nat
    <3>1. jobs[j].request \in Submissions
      BY <1>2 DEF IInv, RequestKept, Exists
    <3> QED
      BY <1>3, <3>1, ContractAssumption DEF JobRecords
  <2>2. /\ jobs[j].attempts + 1 <= jobs[j].request.max_attempts
        /\ jobs[j].attempts + 1 > 0
    BY <1>2, <2>1
  <2> QED
    BY <1>4, <1>5, <2>2 DEF IInv, RetriesBounded, Exists
<1>15. RunningJobSuits'
  <2> SUFFICES ASSUME NEW k \in JobIds, jobs'[k].status = "running"
               PROVE  Suits(workers'[jobs'[k].assigned_worker_id].spec, jobs'[k].request)
    BY DEF RunningJobSuits, Suits, worker_matches, MatchReasons
  <2>1. CASE k = j
    BY <1>2, <1>4, <1>5, <1>6, <2>1
  <2>2. CASE k # j
    <3>1. jobs'[k] = jobs[k] /\ jobs[k].assigned_worker_id \in WorkerIds
      BY <1>5, <2>2 DEF IInv, LeaseConsistent
    <3> QED
      BY <1>6, <3>1 DEF IInv, RunningJobSuits
  <2> QED
    BY <2>1, <2>2
<1>16. IdempotencyUnique' /\ RequestKept'
  <2>1. \A k \in JobIds : jobs'[k].request = jobs[k].request /\ (Exists(k)' <=> Exists(k))
    BY <1>2, <1>4, <1>5 DEF Exists
  <2> QED
    BY <2>1 DEF IInv, IdempotencyUnique, RequestKept
<1> QED
  BY <1>7, <1>10, <1>11, <1>12, <1>13, <1>14, <1>15, <1>16 DEF IInv

-----------------------------------------------------------------------------
(* The theorems                                                            *)

\* Every step of the repository keeps the invariant.
LEMMA NextIInv == IInv /\ [Next]_vars => IInv'
<1> SUFFICES ASSUME IInv, [Next]_vars PROVE IInv'
  OBVIOUS
<1>1. CASE UNCHANGED vars
  BY <1>1 DEF vars, IInv, TypeOK, RequestKept, ActiveJobsAccurate, GpuExclusive, WithinCapacity,
              LeaseConsistent, RetriesBounded, RunningJobSuits, IdempotencyUnique,
              RunningJobs, UsesGpus, Exists, Registered, Suits, worker_matches, MatchReasons
<1>2. CASE Tick
  BY <1>2 DEF Tick, IInv, TypeOK, RequestKept, ActiveJobsAccurate, GpuExclusive, WithinCapacity,
              LeaseConsistent, RetriesBounded, RunningJobSuits, IdempotencyUnique,
              RunningJobs, UsesGpus, Exists, Registered, Suits, worker_matches, MatchReasons
<1>3. ASSUME NEW w \in WorkerIds, retire_claimer(w) PROVE IInv'
  BY <1>3, RetireKeeps
<1>4. ASSUME NEW j \in JobIds, cancel_job(j) PROVE IInv'
  BY <1>4, CancelKeeps
<1>5. ASSUME NEW t \in Timestamps,
             \/ \E w \in WorkerIds : WorkerCall(w, t)
             \/ \E w \in WorkerIds, j \in JobIds : claim_next_job(j, w, t)
             \/ \E w \in WorkerIds, j \in JobIds, token \in 1 .. leases_issued :
                   LeaseCall(w, j, token, t)
             \/ \E S \in SUBSET WorkerIds : expire_stale_workers(S, t)
             \/ \E S \in SUBSET JobIds : recover_expired_jobs(S, t)
             \/ \E s \in Submissions, j \in JobIds : submit_job(s, j, t)
      PROVE  IInv'
  <2>1. t \in Nat
    BY DEF Timestamps, IInv, TypeOK
  <2>2. RequestedStates \subseteq WorkerStates
    BY ContractAssumption
  <2>3. ASSUME NEW w \in WorkerIds, WorkerCall(w, t) PROVE IInv'
    BY <2>1, <2>2, <2>3, RegisterKeeps, SetStateKeeps, HeartbeatKeeps DEF WorkerCall
  <2>4. ASSUME NEW w \in WorkerIds, NEW j \in JobIds, NEW token \in 1 .. leases_issued,
               LeaseCall(w, j, token, t)
        PROVE  IInv'
    <3>1. token \in Nat
      BY DEF IInv, TypeOK
    <3> QED
      BY <2>1, <2>2, <2>4, <3>1, RenewKeeps, CompleteKeeps, FailKeeps DEF LeaseCall
  <2>5. ASSUME NEW w \in WorkerIds, NEW j \in JobIds, claim_next_job(j, w, t) PROVE IInv'
    BY <2>1, <2>5, ClaimKeeps
  <2>6. ASSUME NEW S \in SUBSET WorkerIds, expire_stale_workers(S, t) PROVE IInv'
    BY <2>1, <2>6, ExpireKeeps
  <2>7. ASSUME NEW S \in SUBSET JobIds, recover_expired_jobs(S, t) PROVE IInv'
    BY <2>1, <2>7, RecoverKeeps
  <2>8. ASSUME NEW s \in Submissions, NEW j \in JobIds, submit_job(s, j, t) PROVE IInv'
    BY <2>1, <2>8, SubmitKeeps
  <2> QED
    BY <1>5, <2>3, <2>4, <2>5, <2>6, <2>7, <2>8
<1> QED
  BY <1>1, <1>2, <1>3, <1>4, <1>5 DEF Next

\* The inductive invariant holds throughout.
THEOREM Inductive == Spec => []IInv
BY InitIInv, NextIInv, PTL DEF Spec

\* The records of both tables keep their types.
THEOREM TypeCorrect == Spec => []TypeOK
<1>1. IInv => TypeOK
  BY DEF IInv
<1> QED
  BY <1>1, Inductive, PTL

\* A GPU is never used by two workers: not two live ones, nor one that is live
\* and one that went OFFLINE with jobs still running, for any number of workers,
\* GPUs and jobs and any delay between a call's timestamp and its effect.
THEOREM GpusExclusive == Spec => []GpuExclusive
<1>1. IInv => GpuExclusive
  BY DEF IInv
<1> QED
  BY <1>1, Inductive, PTL

\* The active_jobs column, kept by increments, decrements and recounts, is the
\* number of running jobs, that number respects max_concurrency, and the worker still
\* has the topology its running jobs were matched with.
THEOREM CapacityAccounting == Spec => []Accounting
<1>1. IInv => Accounting
  BY DEF IInv, Accounting
<1> QED
  BY <1>1, Inductive, PTL

\* Leases are consistent: one registered holder, a token of its own and an expiry.
THEOREM Leases == Spec => []LeaseConsistent
<1>1. IInv => LeaseConsistent
  BY DEF IInv
<1> QED
  BY <1>1, Inductive, PTL

\* Retries are bounded, and a key names at most one job.
THEOREM JobsBounded == Spec => [](RetriesBounded /\ IdempotencyUnique)
<1>1. IInv => RetriesBounded /\ IdempotencyUnique
  BY DEF IInv
<1> QED
  BY <1>1, Inductive, PTL

-----------------------------------------------------------------------------
(* Action properties                                                       *)

\* What one step may do to job j: leave it, or one of the changes below.  A job that
\* ends keeps its result or takes the token of the lease that ends.
Untouched(j) == jobs'[j] = jobs[j]
Created(j) == jobs[j].status = "none" /\ jobs'[j].result = NoToken
Taken(j) ==
    /\ jobs[j].status = "queued"
    /\ jobs'[j].status = "running" /\ jobs'[j].result = jobs[j].result
Renewed(j) ==
    /\ jobs[j].status = "running" /\ jobs[j].lease_expires_at > clock - MaxLag
    /\ jobs'[j].status = "running" /\ jobs'[j].result = jobs[j].result
Succeeded(j) ==
    /\ jobs[j].status = "running" /\ jobs[j].lease_expires_at > clock - MaxLag
    /\ jobs'[j].status = "succeeded" /\ jobs'[j].result = jobs[j].lease_token
EndedUnheld(j) ==
    /\ jobs[j].status \in {"queued", "running"}
    /\ jobs'[j].status \notin {"succeeded", "none"} /\ jobs'[j].lease_token = NoToken
    /\ jobs'[j].result = jobs[j].result

JobStep(j) ==
    \/ Untouched(j) \/ Created(j) \/ Taken(j) \/ Renewed(j) \/ Succeeded(j) \/ EndedUnheld(j)

\* A lease that assert_running accepts at a timestamp of this step has not been over for
\* longer than MaxLag.
LEMMA HeldLease ==
    ASSUME TypeOK, NEW j \in JobIds, NEW w, NEW token, NEW t \in Timestamps,
           assert_running(j, w, token, t)
    PROVE  /\ jobs[j].status = "running"
           /\ jobs[j].lease_token = token
           /\ jobs[j].lease_expires_at > clock - MaxLag
<1>1. jobs[j].lease_expires_at \in Int /\ clock \in Nat /\ MaxLag \in Nat
  BY ContractAssumption DEF TypeOK, JobRecords, Unset
<1>2. t \in Nat /\ clock - t <= MaxLag
  BY <1>1 DEF Timestamps
<1> QED
  BY <1>1, <1>2 DEF assert_running

\* The end of an attempt that did not succeed.
LEMMA EndAttemptStep ==
    ASSUME NEW job \in JobRecords, NEW retryable, NEW t
    PROVE  LET e == EndAttempt(job, retryable, t) IN
           e.status \notin {"succeeded", "none"} /\ e.lease_token = NoToken /\ e.result = job.result
BY DEF EndAttempt, Unleased, JobRecords, NoToken

\* Every step of the contract treats every job in one of these ways.
LEMMA JobSteps ==
    ASSUME IInv, Next, NEW j \in JobIds
    PROVE  JobStep(j)
<1>0. TypeOK
  BY DEF IInv
<1>00. jobs[j] \in JobRecords
  BY <1>0 DEF TypeOK
<1>1. CASE Tick \/ \E w \in WorkerIds : retire_claimer(w)
  BY <1>1 DEF Tick, retire_claimer, JobStep, Untouched
<1>2. ASSUME NEW k \in JobIds, cancel_job(k) PROVE JobStep(j)
  BY <1>0, <1>00, <1>2 DEF cancel_job, Unleased, JobStep, Untouched, EndedUnheld, TypeOK, JobRecords
<1>3. ASSUME NEW t \in Timestamps, NEW w \in WorkerIds, WorkerCall(w, t) PROVE JobStep(j)
  BY <1>3 DEF WorkerCall, register_worker, set_worker_state, heartbeat_worker, JobStep, Untouched
<1>4. ASSUME NEW t \in Timestamps, NEW w \in WorkerIds, NEW k \in JobIds, claim_next_job(k, w, t)
      PROVE  JobStep(j)
  BY <1>0, <1>00, <1>4 DEF claim_next_job, eligible, JobStep, Untouched, Taken, TypeOK, JobRecords
<1>5. ASSUME NEW t \in Timestamps, NEW w \in WorkerIds, NEW k \in JobIds, NEW token,
             LeaseCall(w, k, token, t)
      PROVE  JobStep(j)
  <2>1. CASE j # k
    <3>1. jobs'[j] = jobs[j]
      BY <1>0, <1>5, <2>1
      DEF LeaseCall, heartbeat_lease, complete_job, fail_job, TypeOK
    <3> QED
      BY <3>1 DEF JobStep, Untouched
  <2>2. CASE j = k
    <3>1. assert_running(j, w, token, t)
      BY <1>5, <2>2 DEF LeaseCall, heartbeat_lease, complete_job, fail_job
    <3>2. /\ jobs[j].status = "running" /\ jobs[j].lease_token = token
          /\ jobs[j].lease_expires_at > clock - MaxLag
      BY <1>0, <3>1, HeldLease
    <3>3. ASSUME NEW s, heartbeat_lease(w, s, k, token, t) PROVE JobStep(j)
      <4>1. jobs'[j] = [jobs[j] EXCEPT !.lease_expires_at = t + LeaseSeconds]
        BY <1>0, <3>3, <2>2 DEF heartbeat_lease, TypeOK
      <4> QED
        BY <1>00, <3>2, <4>1 DEF JobStep, Renewed, JobRecords
    <3>4. CASE complete_job(k, w, token, t)
      <4>1. jobs'[j] = [Unleased(jobs[j]) EXCEPT !.status = "succeeded", !.result = token,
                                                 !.error = "none"]
        BY <1>0, <3>4, <2>2 DEF complete_job, TypeOK
      <4> QED
        BY <1>00, <3>2, <4>1 DEF JobStep, Succeeded, JobRecords, Unleased
    <3>5. ASSUME NEW retryable, fail_job(k, w, token, retryable, t) PROVE JobStep(j)
      <4>1. jobs'[j] = EndAttempt(jobs[j], retryable, t)
        BY <1>0, <3>5, <2>2 DEF fail_job, TypeOK
      <4> QED
        BY <1>00, <3>2, <4>1, EndAttemptStep DEF JobStep, EndedUnheld
    <3> QED
      BY <1>5, <3>3, <3>4, <3>5 DEF LeaseCall
  <2> QED
    BY <2>1, <2>2
<1>6. ASSUME NEW t \in Timestamps, NEW S \in SUBSET WorkerIds, expire_stale_workers(S, t)
      PROVE  JobStep(j)
  BY <1>6 DEF expire_stale_workers, JobStep, Untouched
<1>7. ASSUME NEW t \in Timestamps, NEW S \in SUBSET JobIds, recover_expired_jobs(S, t)
      PROVE  JobStep(j)
  <2>1. j \in S => /\ jobs[j].status = "running"
                   /\ jobs'[j] = EndAttempt(jobs[j], TRUE, t)
    BY <1>7 DEF recover_expired_jobs, LeaseExpired
  <2>2. j \notin S => jobs'[j] = jobs[j]
    BY <1>7 DEF recover_expired_jobs
  <2>3. LET e == EndAttempt(jobs[j], TRUE, t) IN
        e.status \notin {"succeeded", "none"} /\ e.lease_token = NoToken /\ e.result = jobs[j].result
    BY <1>00 DEF EndAttempt, Unleased, JobRecords, NoToken
  <2> QED
    BY <2>1, <2>2, <2>3 DEF JobStep, Untouched, EndedUnheld
<1>8. ASSUME NEW t \in Timestamps, NEW s \in Submissions, NEW k \in JobIds, submit_job(s, k, t)
      PROVE  JobStep(j)
  <2>1. j # k => jobs'[j] = jobs[j]
    BY <1>0, <1>8 DEF submit_job, TypeOK
  <2>2. j = k => jobs[j].status = "none" /\ jobs'[j] = NewJob(s, t)
    BY <1>0, <1>8 DEF submit_job, TypeOK, Exists
  <2>3. NewJob(s, t).result = NoToken
    BY DEF NewJob, NoJobRecord
  <2> QED
    BY <2>1, <2>2, <2>3 DEF JobStep, Untouched, Created
<1> QED
  BY <1>1, <1>2, <1>3, <1>4, <1>5, <1>6, <1>7, <1>8 DEF Next

\* A row that does not exist has no result.
NoRowNoResult == \A j \in JobIds : jobs[j].status = "none" => jobs[j].result = NoToken

\* Rows that do not exist never get a result.
LEMMA MissingRows == Spec => []NoRowNoResult
<1>1. Init => NoRowNoResult
  BY DEF Init, NoRowNoResult, NoJobRecord
<1>2. IInv /\ NoRowNoResult /\ [Next]_vars => NoRowNoResult'
  <2>1. ASSUME NoRowNoResult, UNCHANGED vars PROVE NoRowNoResult'
    BY <2>1 DEF NoRowNoResult, vars
  <2>2. ASSUME IInv, NoRowNoResult, Next, NEW j \in JobIds, jobs'[j].status = "none"
        PROVE  jobs'[j].result = NoToken
    BY <2>2, JobSteps
    DEF NoRowNoResult, JobStep, Untouched, Created, Taken, Renewed, Succeeded, EndedUnheld
  <2> QED
    BY <2>1, <2>2 DEF NoRowNoResult
<1> QED
  BY <1>1, <1>2, Inductive, PTL DEF Spec

\* Late calls are fenced off, for any number of workers, jobs and attempts and any delay of
\* a call up to MaxLag: a terminal job is never written again, a result comes from the
\* attempt that holds the lease, and a lease that is over is neither renewed nor completed.
THEOREM LateCallsFenced == Spec => JobsFenced
<1> DEFINE Final == \A j \in JobIds : jobs[j].status \in TerminalStatuses => jobs'[j] = jobs[j]
           Holder == \A j \in JobIds : jobs'[j].result # jobs[j].result =>
                        jobs[j].status = "running" /\ jobs'[j].result = jobs[j].lease_token
           Over == \A j \in JobIds : LeaseExpired(j, clock - MaxLag) =>
                        /\ jobs'[j].status # "succeeded"
                        /\ jobs'[j].lease_token = jobs[j].lease_token =>
                              jobs'[j].lease_expires_at = jobs[j].lease_expires_at
<1>1. IInv /\ [Next]_vars => [Final]_vars
  BY JobSteps DEF JobStep, Untouched, Created, Taken, Renewed, Succeeded, EndedUnheld,
                  TerminalStatuses
<1>2. IInv /\ NoRowNoResult /\ [Next]_vars => [Holder]_vars
  BY JobSteps DEF NoRowNoResult, JobStep, Untouched, Created, Taken, Renewed, Succeeded, EndedUnheld
<1>3. IInv /\ [Next]_vars => [Over]_vars
  <2>1. ASSUME IInv, Next, NEW j \in JobIds, LeaseExpired(j, clock - MaxLag)
        PROVE  Untouched(j) \/ EndedUnheld(j)
    <3>1. ~ (jobs[j].lease_expires_at > clock - MaxLag)
      BY <2>1, ContractAssumption DEF LeaseExpired, IInv, TypeOK, JobRecords, Unset
    <3> QED
      BY <2>1, <3>1, JobSteps DEF JobStep, Created, Taken, Renewed, Succeeded, LeaseExpired
  <2>2. ASSUME IInv, NEW j \in JobIds, LeaseExpired(j, clock - MaxLag)
        PROVE  jobs[j].lease_token # NoToken /\ jobs[j].status # "succeeded"
    BY <2>2 DEF IInv, LeaseConsistent, LeaseExpired
  <2> QED
    BY <2>1, <2>2 DEF Untouched, EndedUnheld
<1> QED
  BY <1>1, <1>2, <1>3, Inductive, MissingRows, PTL
  DEF Spec, JobsFenced, TerminalIsFinal, ResultFromLeaseHolder, ExpiredLeaseIsOver

=============================================================================
