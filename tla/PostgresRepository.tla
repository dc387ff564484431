------------------------- MODULE PostgresRepository -------------------------
(***************************************************************************)
(* PostgresControlRepository (control/postgres.py), statement by statement.*)
(* Each connection runs one READ COMMITTED transaction at a time: every    *)
(* SELECT sees what is committed when it runs, row and advisory locks are  *)
(* held to the end, and nothing of a transaction is visible before its     *)
(* commit.  workers and jobs are the committed tables; a transaction's own *)
(* writes are applied by its last step.  That last step also takes the     *)
(* last lock where no read follows it: a transaction that will not wait    *)
(* again and reads nothing more cannot be told apart from a committed one. *)
(*                                                                         *)
(* Rows are locked with FOR UPDATE or by writing them, worker identities   *)
(* and GPUs with advisory locks, a key by an uncommitted insert of it.     *)
(* Several Control processes and request threads share the database; Abort *)
(* is a lost connection, a killed process or a deadlock victim.            *)
(***************************************************************************)
EXTENDS ControlContract

CONSTANTS
    Connections,  \* concurrent database connections
    Ops,          \* the repository methods that are called
    GpuLockKey    \* _ownership_lock_key: GPU -> number, not necessarily injective

VARIABLES
    tx,           \* connection -> transaction
    pg_sequence   \* the identity sequence of jobs; never rolled back

\* _ownership_lock_key reads four bytes of a digest as a signed number.
LeastLockKey == -2147483647 - 1
GreatestLockKey == 2147483647
LockKeys == LeastLockKey .. GreatestLockKey

ASSUME LockKeyAssumption ==
    \A s \in Specs : \A g \in s.gpu_uuids : GpuLockKey[g] \in LockKeys

tables == <<workers, jobs, leases_issued, clock>>
pgvars == <<workers, jobs, leases_issued, clock, tx, pg_sequence>>

NoJob == 0

Idle == [op |-> "none", w |-> NoWorker, j |-> NoJob, arg |-> "none", step |-> "idle",
         now |-> 0, locks |-> {}, seen |-> {}]

PgInit ==
    /\ Init
    /\ tx = [c \in Connections |-> Idle]
    /\ pg_sequence = 0

-----------------------------------------------------------------------------
(* Locks                                                                   *)

WorkerRow(w) == <<"worker", w>>
JobRow(j) == <<"job", j>>
Identity(w) == <<"identity", w>>
Gpu(key) == <<"gpu", key>>
Key(key) == <<"key", key>>

LeastOf(S) == CHOOSE x \in S : \A y \in S : x <= y

\* The committed rows the unique index on idempotency_key leads to.
JobsWithKey(key) ==
    {j \in JobIds : Exists(j) /\ key # NoKey /\ jobs[j].request.idempotency_key = key}

\* Mutant: the GPU locks are taken in any order.
Mut_NextGpuKeys(S) == S

\* _lock_worker_ownership takes the lock keys that remain in sorted order.
NextGpuKeys(S) == {LeastOf(S)}

\* The locks one of which the next statement of c has to take (none: it does not
\* wait).  An UPDATE of many rows locks them in the order its scan meets them.
NextLocks(c) ==
    CASE tx[c].step = "identity" -> {Identity(tx[c].w)}
      [] tx[c].step = "gpus" -> {Gpu(k) : k \in NextGpuKeys(tx[c].seen)}
      [] tx[c].step \in {"own_row", "worker", "retire"} -> {WorkerRow(tx[c].w)}
      [] tx[c].step = "job" -> {JobRow(tx[c].j)}
      [] tx[c].step = "rows" -> {WorkerRow(w) : w \in tx[c].seen}
      [] tx[c].step \in {"lookup", "reselect"} ->
            {JobRow(j) : j \in JobsWithKey(tx[c].arg.idempotency_key)}
      [] tx[c].step = "insert" -> {Key(tx[c].arg.idempotency_key)} \ {Key(NoKey)}
      [] OTHER -> {}

Held(c, lock) == \E d \in Connections \ {c} : lock \in tx[d].locks
MayTake(c, lock) == lock \in NextLocks(c) /\ ~ Held(c, lock)

\* The statement ends: lock it, look at what it read and go on with step s.
Proceed(c, s, lock, seen) ==
    /\ tx' = [tx EXCEPT ![c].step = s, ![c].locks = @ \cup lock, ![c].seen = seen]
    /\ UNCHANGED <<workers, jobs, leases_issued, clock, pg_sequence>>

\* The transaction ends without a write: return None or raise.
Return(c) ==
    /\ tx' = [tx EXCEPT ![c] = Idle]
    /\ UNCHANGED <<workers, jobs, leases_issued, clock, pg_sequence>>

\* The transaction commits a step of the contract.
Commit(c) == tx' = [tx EXCEPT ![c] = Idle] /\ UNCHANGED pg_sequence

-----------------------------------------------------------------------------
(* Calls                                                                   *)

Calls ==
    {x \in
           {[op |-> "register", w |-> w, j |-> NoJob, arg |-> [spec |-> s, m |-> m]] :
                w \in WorkerIds, s \in Specs, m \in MaxConcurrencies}
      \cup {[op |-> "set_state", w |-> w, j |-> NoJob, arg |-> s] :
                w \in WorkerIds, s \in RequestedStates}
      \cup {[op |-> "claim", w |-> w, j |-> NoJob, arg |-> "none"] : w \in WorkerIds}
      \cup {[op |-> "heartbeat", w |-> w, j |-> NoJob, arg |-> [state |-> s]] :
                w \in WorkerIds, s \in RequestedStates \cup {"unchanged"}}
      \cup {[op |-> "renew", w |-> w, j |-> j, arg |-> [state |-> s, token |-> k]] :
                w \in WorkerIds, j \in JobIds, s \in RequestedStates \cup {"unchanged"},
                k \in 1 .. leases_issued}
      \cup {[op |-> "complete", w |-> w, j |-> j, arg |-> [token |-> k]] :
                w \in WorkerIds, j \in JobIds, k \in 1 .. leases_issued}
      \cup {[op |-> "fail", w |-> w, j |-> j, arg |-> [token |-> k, retryable |-> r]] :
                w \in WorkerIds, j \in JobIds, k \in 1 .. leases_issued, r \in BOOLEAN}
      \cup {[op |-> "cancel", w |-> NoWorker, j |-> j, arg |-> "none"] : j \in JobIds}
      \cup {[op |-> o, w |-> NoWorker, j |-> NoJob, arg |-> "none"] :
                o \in {"expire", "recover"}}
      \cup {[op |-> "submit", w |-> NoWorker, j |-> NoJob, arg |-> s] : s \in Submissions}
     : x.op \in Ops}

FirstStep(op) ==
    CASE op \in {"register", "set_state"} -> "identity"
      [] op = "claim" -> "read"
      [] op = "heartbeat" -> "worker"
      [] op \in {"renew", "complete", "fail", "cancel"} -> "job"
      [] op = "expire" -> "scan"
      [] op = "recover" -> "pick"
      [] op = "submit" -> "lookup"

\* A method starts: it reads the clock, then opens its transaction.
Begin(c, call) ==
    /\ tx[c].step = "idle"
    /\ tx' = [tx EXCEPT ![c] = [op |-> call.op, w |-> call.w, j |-> call.j, arg |-> call.arg,
                                step |-> FirstStep(call.op), now |-> clock,
                                locks |-> {}, seen |-> {}]]
    /\ UNCHANGED <<workers, jobs, leases_issued, clock, pg_sequence>>

\* The connection is lost or PostgreSQL rolls the transaction back.
Abort(c) == tx[c].step # "idle" /\ Return(c)

-----------------------------------------------------------------------------
(* register_worker and set_worker_state                                    *)

RequestedGpus(c) == IF tx[c].op = "register" THEN tx[c].arg.spec.gpu_uuids ELSE {}

\* _lock_worker_ownership: the identity.
LockIdentity(c) ==
    /\ tx[c].step = "identity"
    /\ MayTake(c, Identity(tx[c].w))
    /\ Proceed(c, "topology", {Identity(tx[c].w)}, {})

\* The keys of the current and the requested GPUs; the row is not locked yet.
ReadTopology(c) ==
    /\ tx[c].step = "topology"
    /\ LET keys == {GpuLockKey[g] : g \in RequestedGpus(c) \cup workers[tx[c].w].spec.gpu_uuids}
       IN  Proceed(c, IF keys = {} THEN "own_row" ELSE "gpus", {}, keys)

\* Mutant: the GPUs are not locked, only the worker's identity and row.
Mut_LockGpu(c) ==
    /\ tx[c].step = "gpus"
    /\ Proceed(c, "own_row", {}, {})

\* _lock_worker_ownership: the next GPU key.
LockGpu(c) ==
    /\ tx[c].step = "gpus"
    /\ \E k \in tx[c].seen :
          /\ MayTake(c, Gpu(k))
          /\ Proceed(c, IF tx[c].seen = {k} THEN "own_row" ELSE "gpus", {Gpu(k)},
                     tx[c].seen \ {k})

\* SELECT ... FOR UPDATE of the own row; before the first registration there is
\* no row to lock.
LockOwnRow(c) ==
    /\ tx[c].step = "own_row"
    /\ IF Registered(tx[c].w)
       THEN /\ MayTake(c, WorkerRow(tx[c].w))
            /\ Proceed(c, "overlap", {WorkerRow(tx[c].w)}, {})
       ELSE IF tx[c].op = "register" THEN Proceed(c, "overlap", {}, {}) ELSE Return(c)

\* What register_worker checks on its own locked row.
TopologyKept(c) ==
    LET row == workers[tx[c].w] IN
    row.active_jobs > 0 => /\ tx[c].arg.spec = row.spec
                           /\ tx[c].arg.m >= row.active_jobs

\* _gpu_overlap on a fresh snapshot, then what the last statements need.
CheckOverlap(c) ==
    /\ tx[c].step = "overlap"
    /\ \/ /\ tx[c].op = "register"
          /\ IF TopologyKept(c) /\ gpu_ownership_available(tx[c].w, tx[c].arg.spec)
             THEN Proceed(c, "count", {}, {}) ELSE Return(c)
       \/ /\ tx[c].op = "set_state"
          /\ IF \/ tx[c].arg = "offline"
                \/ gpu_ownership_available(tx[c].w, workers[tx[c].w].spec)
             THEN Proceed(c, "write", {}, {}) ELSE Return(c)

\* SELECT count(*) of the running jobs (register_worker, heartbeat_worker).
CountActive(c) ==
    /\ tx[c].step = "count"
    /\ Proceed(c, "write", {}, Cardinality(RunningJobs(tx[c].w)))

CommitRegister(c) ==
    /\ tx[c].step = "write" /\ tx[c].op = "register"
    /\ workers' = [workers EXCEPT ![tx[c].w] =
           [spec |-> tx[c].arg.spec, max_concurrency |-> tx[c].arg.m, state |-> "online",
            active_jobs |-> tx[c].seen, last_seen_at |-> tx[c].now]]
    /\ Commit(c)
    /\ UNCHANGED <<jobs, leases_issued, clock>>

CommitState(c) ==
    /\ tx[c].step = "write" /\ tx[c].op = "set_state"
    /\ workers' = [workers EXCEPT ![tx[c].w].state = tx[c].arg,
                                  ![tx[c].w].last_seen_at = tx[c].now]
    /\ Commit(c)
    /\ UNCHANGED <<jobs, leases_issued, clock>>

-----------------------------------------------------------------------------
(* expire_stale_workers: one UPDATE of all stale rows                      *)

Due(w, t) == workers[w].state \in LiveStates /\ Stale(workers[w], t)

ScanWorkers(c) ==
    /\ tx[c].step = "scan"
    /\ LET due == {w \in WorkerIds : Due(w, tx[c].now)} IN
       IF due = {} THEN Return(c) ELSE Proceed(c, "rows", {}, due)

\* Mutant: a row that changed during the lock wait is not checked again.
Mut_LockDueRow(c) ==
    /\ tx[c].step = "rows"
    /\ \E w \in tx[c].seen :
          /\ MayTake(c, WorkerRow(w))
          /\ Proceed(c, IF tx[c].seen = {w} THEN "write" ELSE "rows",
                     {WorkerRow(w)}, tx[c].seen \ {w})

\* READ COMMITTED evaluates the WHERE clause again on the row it could lock.
LockDueRow(c) ==
    /\ tx[c].step = "rows"
    /\ \E w \in tx[c].seen :
          /\ MayTake(c, WorkerRow(w))
          /\ Proceed(c, IF tx[c].seen = {w} THEN "write" ELSE "rows",
                     IF Due(w, tx[c].now) THEN {WorkerRow(w)} ELSE {},
                     tx[c].seen \ {w})

CommitExpire(c) ==
    /\ tx[c].step = "write" /\ tx[c].op = "expire"
    /\ workers' = [w \in WorkerIds |-> IF WorkerRow(w) \in tx[c].locks
                                       THEN [workers[w] EXCEPT !.state = "offline"]
                                       ELSE workers[w]]
    /\ Commit(c)
    /\ UNCHANGED <<jobs, leases_issued, clock>>

-----------------------------------------------------------------------------
(* claim_next_job                                                          *)

\* The first SELECT takes no lock; what it saw is used by the next statement.
ReadClaimer(c) ==
    /\ tx[c].step = "read"
    /\ LET row == workers[tx[c].w] IN
       IF row.state # "unregistered" /\ Stale(row, tx[c].now)
       THEN Proceed(c, "retire", {}, {})
       ELSE IF row.state = "online" THEN Proceed(c, "select", {}, row.spec)
       ELSE Return(c)

\* UPDATE workers SET state = 'offline' WHERE id = ..., with no further condition.
RetireClaimer(c) ==
    /\ tx[c].step = "retire"
    /\ MayTake(c, WorkerRow(tx[c].w))
    /\ workers' = [workers EXCEPT ![tx[c].w].state = "offline"]
    /\ Commit(c)
    /\ UNCHANGED <<jobs, leases_issued, clock>>

\* The rows the claim query returns: queued, available and within their attempts,
\* suited to the topology that was read before, not locked by anyone.
Claimable(c) ==
    {j \in JobIds :
        /\ workers[tx[c].w].active_jobs < workers[tx[c].w].max_concurrency
        /\ jobs[j].status = "queued"
        /\ jobs[j].available_at <= tx[c].now
        /\ jobs[j].attempts < jobs[j].request.max_attempts
        /\ Suits(tx[c].seen, jobs[j].request)
        /\ ~ Held(c, JobRow(j))}

\* ORDER BY priority DESC, sequence ASC.
RanksFirst(j, S) ==
    \A k \in S \ {j} :
        \/ jobs[j].request.priority > jobs[k].request.priority
        \/ jobs[j].request.priority = jobs[k].request.priority /\ j < k

\* SELECT ... FOR UPDATE SKIP LOCKED LIMIT 1.
SelectJob(c) ==
    /\ tx[c].step = "select"
    /\ \/ Claimable(c) = {} /\ Return(c)
       \/ \E j \in Claimable(c) :
             /\ RanksFirst(j, Claimable(c))
             /\ tx' = [tx EXCEPT ![c].step = "worker", ![c].locks = @ \cup {JobRow(j)},
                                 ![c].j = j]
             /\ UNCHANGED <<workers, jobs, leases_issued, clock, pg_sequence>>

\* Mutant: the locked worker row is not checked again.
Mut_StillClaiming(c) == workers[tx[c].w].state = "online"

\* The checks on the locked worker row.
StillClaiming(c) ==
    /\ Claiming(tx[c].w, tx[c].now)
    /\ Suits(workers[tx[c].w].spec, jobs[tx[c].j].request)

CommitClaim(c) ==
    /\ tx[c].step = "worker" /\ tx[c].op = "claim"
    /\ MayTake(c, WorkerRow(tx[c].w))
    /\ IF StillClaiming(c)
       THEN /\ jobs' = [jobs EXCEPT ![tx[c].j] =
                   [jobs[tx[c].j] EXCEPT
                       !.status = "running", !.attempts = @ + 1,
                       !.assigned_worker_id = tx[c].w, !.lease_token = leases_issued + 1,
                       !.lease_expires_at = tx[c].now + LeaseSeconds, !.error = "none"]]
            /\ workers' = [workers EXCEPT ![tx[c].w].active_jobs = @ + 1]
            /\ leases_issued' = leases_issued + 1
            /\ Commit(c)
            /\ UNCHANGED clock
       ELSE Return(c)

-----------------------------------------------------------------------------
(* heartbeat_worker, complete_job, fail_job, cancel_job                    *)

\* Whether the locked job row allows the call to go on.
JobAllows(c) ==
    IF tx[c].op = "cancel" THEN jobs[tx[c].j].status \in {"queued", "running"}
    ELSE assert_running(tx[c].j, tx[c].w, tx[c].arg.token, tx[c].now)

\* A queued job has no worker whose capacity to give back.
Cancelled(j) == [Unleased(jobs[j]) EXCEPT !.status = "cancelled"]

\* SELECT ... FOR UPDATE of the job, then the checks on it.
LockJob(c) ==
    /\ tx[c].step = "job"
    /\ MayTake(c, JobRow(tx[c].j))
    /\ \/ ~ JobAllows(c) /\ Return(c)
       \/ /\ JobAllows(c) /\ jobs[tx[c].j].status = "queued"
          /\ jobs' = [jobs EXCEPT ![tx[c].j] = Cancelled(tx[c].j)]
          /\ Commit(c)
          /\ UNCHANGED <<workers, leases_issued, clock>>
       \/ /\ JobAllows(c) /\ jobs[tx[c].j].status = "running"
          /\ tx' = [tx EXCEPT ![c].step = "worker", ![c].locks = @ \cup {JobRow(tx[c].j)},
                              ![c].w = jobs[tx[c].j].assigned_worker_id]
          /\ UNCHANGED <<workers, jobs, leases_issued, clock, pg_sequence>>

\* Mutant: the running jobs are counted before the worker row is locked.
Mut_LockHeartbeatRow(c) ==
    /\ tx[c].step = "worker" /\ tx[c].op \in {"heartbeat", "renew"}
    /\ IF HeartbeatAllowed(tx[c].w, tx[c].arg.state)
       THEN Proceed(c, "count", {}, {})
       ELSE Return(c)

\* Mutant: a renewal lets go of the job for the worker and then takes it again.
Mut_LockHeartbeatOrder(c) ==
    /\ tx[c].step = "worker" /\ tx[c].op \in {"heartbeat", "renew"}
    /\ MayTake(c, WorkerRow(tx[c].w))
    /\ IF tx[c].op = "renew"
       THEN /\ tx' = [tx EXCEPT ![c].step = "job", ![c].locks = {WorkerRow(tx[c].w)}]
            /\ UNCHANGED <<workers, jobs, leases_issued, clock, pg_sequence>>
       ELSE Proceed(c, "count", {WorkerRow(tx[c].w)}, {})

\* SELECT ... FOR UPDATE of the worker, after the job where there is one.
LockHeartbeatRow(c) ==
    /\ tx[c].step = "worker" /\ tx[c].op \in {"heartbeat", "renew"}
    /\ MayTake(c, WorkerRow(tx[c].w))
    /\ IF HeartbeatAllowed(tx[c].w, tx[c].arg.state)
       THEN Proceed(c, "count", {WorkerRow(tx[c].w)}, {})
       ELSE Return(c)

CommitHeartbeat(c) ==
    /\ tx[c].step = "write" /\ tx[c].op \in {"heartbeat", "renew"}
    /\ workers' = [workers EXCEPT ![tx[c].w] =
           [@ EXCEPT !.state = HeartbeatState(tx[c].w, tx[c].arg.state),
                     !.active_jobs = tx[c].seen, !.last_seen_at = tx[c].now]]
    /\ jobs' = IF tx[c].op = "heartbeat" THEN jobs
               ELSE [jobs EXCEPT ![tx[c].j].lease_expires_at = tx[c].now + LeaseSeconds]
    /\ Commit(c)
    /\ UNCHANGED <<leases_issued, clock>>

\* _decrement_worker.
decrement_worker(w) ==
    workers' = [workers EXCEPT ![w].active_jobs = IF @ > 1 THEN @ - 1 ELSE 0]

\* What the transaction wrote to its job before it waits for the worker.
EndedJob(c) ==
    LET job == jobs[tx[c].j] IN
    CASE tx[c].op = "complete" ->
            [Unleased(job) EXCEPT !.status = "succeeded", !.result = tx[c].arg.token,
                                  !.error = "none"]
      [] tx[c].op = "fail" -> EndAttempt(job, tx[c].arg.retryable, tx[c].now)
      [] tx[c].op = "recover" -> EndAttempt(job, TRUE, tx[c].now)
      [] tx[c].op = "cancel" -> Cancelled(tx[c].j)

\* The end of a running job; recover_expired_jobs goes on with its next job, in a
\* new transaction and under the same timestamp.
CommitEnd(c) ==
    /\ tx[c].step = "worker" /\ tx[c].op \in {"complete", "fail", "cancel", "recover"}
    /\ MayTake(c, WorkerRow(tx[c].w))
    /\ jobs' = [jobs EXCEPT ![tx[c].j] = EndedJob(c)]
    /\ decrement_worker(tx[c].w)
    /\ tx' = [tx EXCEPT ![c] = IF tx[c].op = "recover"
                               THEN [Idle EXCEPT !.op = "recover", !.step = "pick",
                                                 !.now = tx[c].now]
                               ELSE Idle]
    /\ UNCHANGED <<leases_issued, clock, pg_sequence>>

\* recover_expired_jobs: the oldest expired job nobody has locked.
PickExpired(c) ==
    /\ tx[c].step = "pick"
    /\ LET expired == {j \in JobIds : LeaseExpired(j, tx[c].now) /\ ~ Held(c, JobRow(j))} IN
       IF expired = {} THEN Return(c)
       ELSE /\ tx' = [tx EXCEPT ![c].step = "worker", ![c].j = LeastOf(expired),
                                ![c].locks = {JobRow(LeastOf(expired))},
                                ![c].w = jobs[LeastOf(expired)].assigned_worker_id]
            /\ UNCHANGED <<workers, jobs, leases_issued, clock, pg_sequence>>

-----------------------------------------------------------------------------
(* submit_job                                                              *)

\* SELECT ... FOR UPDATE by key, before and after the INSERT: a row that is found
\* is returned or refused (_submission_matches), once its lock is free.
LookupKey(c) ==
    /\ tx[c].step \in {"lookup", "reselect"}
    /\ LET found == JobsWithKey(tx[c].arg.idempotency_key) IN
       IF found # {} THEN /\ \A j \in found : MayTake(c, JobRow(j))
                          /\ Return(c)
       ELSE /\ tx[c].step = "lookup"
            /\ Proceed(c, "insert", {}, {})

\* Mutant: the insert gives way to an insert of the key that is not committed.
Mut_InsertNoWait(c) ==
    /\ tx[c].step = "insert"
    /\ pg_sequence < MaxJobs
    /\ pg_sequence' = pg_sequence + 1
    /\ tx' = IF \/ JobsWithKey(tx[c].arg.idempotency_key) # {}
                \/ \E lock \in NextLocks(c) : Held(c, lock)
             THEN [tx EXCEPT ![c].step = "reselect"]
             ELSE [tx EXCEPT ![c].step = "write", ![c].j = pg_sequence + 1,
                             ![c].locks = NextLocks(c)]
    /\ UNCHANGED tables

\* INSERT ... ON CONFLICT (idempotency_key) DO NOTHING waits for an uncommitted
\* insert of the key; it draws from the sequence even when it inserts nothing.
InsertJob(c) ==
    /\ tx[c].step = "insert"
    /\ pg_sequence < MaxJobs
    /\ \A lock \in NextLocks(c) : ~ Held(c, lock)
    /\ pg_sequence' = pg_sequence + 1
    /\ tx' = IF JobsWithKey(tx[c].arg.idempotency_key) # {}
             THEN [tx EXCEPT ![c].step = "reselect"]
             ELSE [tx EXCEPT ![c].step = "write", ![c].j = pg_sequence + 1,
                             ![c].locks = NextLocks(c)]
    /\ UNCHANGED tables

CommitSubmit(c) ==
    /\ tx[c].step = "write" /\ tx[c].op = "submit"
    /\ jobs' = [jobs EXCEPT ![tx[c].j] = NewJob(tx[c].arg, tx[c].now)]
    /\ Commit(c)
    /\ UNCHANGED <<workers, leases_issued, clock>>

-----------------------------------------------------------------------------
Statement(c) ==
    \/ LockIdentity(c) \/ ReadTopology(c) \/ LockGpu(c) \/ LockOwnRow(c)
    \/ CheckOverlap(c) \/ CountActive(c) \/ CommitRegister(c) \/ CommitState(c)
    \/ ScanWorkers(c) \/ LockDueRow(c) \/ CommitExpire(c)
    \/ ReadClaimer(c) \/ RetireClaimer(c) \/ SelectJob(c) \/ CommitClaim(c)
    \/ LockJob(c) \/ LockHeartbeatRow(c) \/ CommitHeartbeat(c) \/ CommitEnd(c)
    \/ PickExpired(c)
    \/ LookupKey(c) \/ InsertJob(c) \/ CommitSubmit(c)

PgNext ==
    \/ \E c \in Connections : (\E call \in Calls : Begin(c, call)) \/ Statement(c) \/ Abort(c)
    \/ Tick /\ UNCHANGED <<tx, pg_sequence>>

PgSpec == PgInit /\ [][PgNext]_pgvars

-----------------------------------------------------------------------------
(* Properties                                                              *)

\* Every commit is a step of the contract: interleaved transactions, lock waits
\* and rollbacks leave nothing a serial repository could not have done.
PgContract == [][Next]_vars

\* Every transaction of S waits for a lock another one of S holds.
Stuck(S) ==
    \A c \in S : \E lock \in NextLocks(c), d \in S \ {c} : lock \in tx[d].locks

\* No transactions wait for each other in a circle, whatever they do, except for
\* sweeps that lock the stale workers in different orders (PostgreSQL aborts one
\* and the next round repeats it): where transactions are stuck, there are sweeps
\* among them that are stuck without the others.  The lock orders of
\* docs/control-plane.md, identity - sorted GPU keys - own row and job - worker,
\* see to it.
NoDeadlock ==
    \A S \in (SUBSET Connections) \ {{}} : Stuck(S) =>
        LET sweeps == {c \in S : tx[c].op = "expire"}
        IN  sweeps # {} /\ Stuck(sweeps)

\* The transaction is about to write the OFFLINE its caller asked for.
AsksOffline(c) ==
    /\ tx[c].step = "write"
    /\ \/ tx[c].op = "set_state" /\ tx[c].arg = "offline"
       \/ tx[c].op \in {"heartbeat", "renew"} /\ tx[c].arg.state = "offline"

\* A worker that was refreshed while the expiry sweep waited for its row stays
\* live: whoever goes OFFLINE without asking was silent for longer than the TTL,
\* unless a claim retired it (see OfflineOnlyWhenStale).
SweepTakesStaleOnly ==
    [][\A w \in WorkerIds :
           workers[w].state \in LiveStates /\ workers'[w].state = "offline"
           => \/ Stale(workers[w], clock)
              \/ \E c \in Connections : /\ tx[c].step = "retire" \/ AsksOffline(c)
                                       /\ tx[c].w = w /\ tx'[c].step = "idle"]_pgvars

\* An insert that found its key taken finds the job afterwards: the error
\* "idempotent job insert did not persist" is never raised.
ConflictingInsertPersisted ==
    \A c \in Connections : tx[c].step = "reselect" =>
        JobsWithKey(tx[c].arg.idempotency_key) # {}
=============================================================================
