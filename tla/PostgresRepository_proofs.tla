---------------------- MODULE PostgresRepository_proofs ----------------------
(***************************************************************************)
(* The PostgreSQL backend implements ControlContract, for all constants:   *)
(* whatever the transactions interleave, every commit is one call of the   *)
(* contract.  What a transaction has read stays true until it commits,     *)
(* because of the locks it holds.                                          *)
(***************************************************************************)
EXTENDS PostgresRepository, ControlContract_proofs, WellFoundedInduction

-----------------------------------------------------------------------------
(* The invariant: what the transactions hold and know                      *)

Opers == {"none", "register", "set_state", "claim", "heartbeat", "renew", "complete", "fail",
          "cancel", "expire", "recover", "submit"}

\* The steps of each method.
StepsOf(op) ==
    CASE op = "none" -> {"idle"}
      [] op = "register" ->
            {"identity", "topology", "gpus", "own_row", "overlap", "count", "write"}
      [] op = "set_state" -> {"identity", "topology", "gpus", "own_row", "overlap", "write"}
      [] op = "claim" -> {"read", "retire", "select", "worker"}
      [] op = "heartbeat" -> {"worker", "count", "write"}
      [] op = "renew" -> {"job", "worker", "count", "write"}
      [] op \in {"complete", "fail", "cancel"} -> {"job", "worker"}
      [] op = "expire" -> {"scan", "rows", "write"}
      [] op = "recover" -> {"pick", "worker"}
      [] op = "submit" -> {"lookup", "insert", "reselect", "write"}

\* A transaction is a record that is at a step of its method, under a past timestamp.
Shaped(c) ==
    /\ DOMAIN tx[c] = {"op", "w", "j", "arg", "step", "now", "locks", "seen"}
    /\ tx[c].op \in Opers
    /\ tx[c].step \in StepsOf(tx[c].op)
    /\ tx[c].now \in Nat /\ tx[c].now <= clock
    /\ tx[c].step = "idle" => tx[c].locks = {}

\* Only rows that exist are locked.
HeldRows(c) ==
    /\ \A w \in WorkerIds : WorkerRow(w) \in tx[c].locks => Registered(w)
    /\ \A j \in JobIds : JobRow(j) \in tx[c].locks => Exists(j)

\* The GPUs whose locks a registration or a change of state needs.
OwnGpus(c) == RequestedGpus(c) \cup workers[tx[c].w].spec.gpu_uuids

OwnerTx(c) ==
    tx[c].op \in {"register", "set_state"} =>
        /\ tx[c].w \in WorkerIds
        /\ tx[c].op = "register" =>
              tx[c].arg.spec \in Specs /\ tx[c].arg.m \in MaxConcurrencies
        /\ tx[c].op = "set_state" => tx[c].arg \in RequestedStates
        /\ tx[c].step # "identity" => Identity(tx[c].w) \in tx[c].locks
        /\ tx[c].step = "gpus" =>
              \A g \in OwnGpus(c) : \/ GpuLockKey[g] \in tx[c].seen
                                    \/ Gpu(GpuLockKey[g]) \in tx[c].locks
        /\ tx[c].step \in {"own_row", "overlap", "count", "write"} =>
              \A g \in OwnGpus(c) : Gpu(GpuLockKey[g]) \in tx[c].locks
        /\ tx[c].step \in {"overlap", "count", "write"} =>
              /\ Registered(tx[c].w) => WorkerRow(tx[c].w) \in tx[c].locks
              /\ tx[c].op = "set_state" => Registered(tx[c].w)
        /\ tx[c].op = "register" /\ tx[c].step \in {"count", "write"} =>
              TopologyKept(c) /\ gpu_ownership_available(tx[c].w, tx[c].arg.spec)
        /\ tx[c].op = "register" /\ tx[c].step = "write" =>
              tx[c].seen = Cardinality(RunningJobs(tx[c].w))
        /\ tx[c].op = "set_state" /\ tx[c].step = "write" =>
              \/ tx[c].arg = "offline"
              \/ gpu_ownership_available(tx[c].w, workers[tx[c].w].spec)

ClaimTx(c) ==
    tx[c].op = "claim" =>
        /\ tx[c].w \in WorkerIds
        /\ tx[c].step = "retire" => Registered(tx[c].w)
        /\ tx[c].step = "worker" =>
              /\ tx[c].j \in JobIds /\ JobRow(tx[c].j) \in tx[c].locks
              /\ jobs[tx[c].j].status = "queued"
              /\ jobs[tx[c].j].available_at <= tx[c].now
              /\ jobs[tx[c].j].attempts < jobs[tx[c].j].request.max_attempts

BeatTx(c) ==
    tx[c].op \in {"heartbeat", "renew"} =>
        /\ tx[c].w \in WorkerIds
        /\ tx[c].arg.state \in RequestedStates \cup {"unchanged"}
        /\ tx[c].step \in {"count", "write"} =>
              WorkerRow(tx[c].w) \in tx[c].locks /\ HeartbeatAllowed(tx[c].w, tx[c].arg.state)
        /\ tx[c].step = "write" => tx[c].seen = Cardinality(RunningJobs(tx[c].w))
        /\ tx[c].op = "renew" => tx[c].j \in JobIds
        /\ tx[c].op = "renew" /\ tx[c].step # "job" =>
              /\ JobRow(tx[c].j) \in tx[c].locks
              /\ assert_running(tx[c].j, tx[c].w, tx[c].arg.token, tx[c].now)

EndTx(c) ==
    tx[c].op \in {"complete", "fail", "cancel", "recover"} =>
        /\ tx[c].op # "recover" => tx[c].j \in JobIds
        /\ tx[c].op \in {"complete", "fail"} => tx[c].w \in WorkerIds
        /\ tx[c].op = "fail" => tx[c].arg.retryable \in BOOLEAN
        /\ tx[c].step = "worker" =>
              /\ tx[c].j \in JobIds /\ JobRow(tx[c].j) \in tx[c].locks
              /\ jobs[tx[c].j].status = "running"
              /\ tx[c].w = jobs[tx[c].j].assigned_worker_id
              /\ tx[c].op \in {"complete", "fail"} =>
                    assert_running(tx[c].j, tx[c].w, tx[c].arg.token, tx[c].now)
              /\ tx[c].op = "recover" => LeaseExpired(tx[c].j, tx[c].now)

SweepTx(c) ==
    tx[c].op = "expire" =>
        /\ tx[c].step = "rows" => tx[c].seen \subseteq WorkerIds
        /\ \A w \in WorkerIds : WorkerRow(w) \in tx[c].locks => Due(w, tx[c].now)

Inserting(c) == tx[c].op = "submit" /\ tx[c].step = "write"

SubmitTx(c) ==
    tx[c].op = "submit" =>
        /\ tx[c].arg \in Submissions
        /\ tx[c].step = "reselect" => JobsWithKey(tx[c].arg.idempotency_key) # {}
        /\ tx[c].step = "write" =>
              /\ tx[c].j \in JobIds /\ tx[c].j <= pg_sequence /\ ~ Exists(tx[c].j)
              /\ tx[c].arg.idempotency_key # NoKey =>
                    /\ Key(tx[c].arg.idempotency_key) \in tx[c].locks
                    /\ ~ KeyTaken(tx[c].arg.idempotency_key)

TxInv(c) ==
    /\ Shaped(c) /\ HeldRows(c)
    /\ OwnerTx(c) /\ ClaimTx(c) /\ BeatTx(c) /\ EndTx(c) /\ SweepTx(c) /\ SubmitTx(c)

\* A lock has one holder.
Exclusive ==
    \A c, d \in Connections : c # d => tx[c].locks \cap tx[d].locks = {}

\* The identity sequence runs ahead of the jobs: every number drawn is used once.
SequenceAhead ==
    /\ pg_sequence \in 0 .. MaxJobs
    /\ \A j \in JobIds : j > pg_sequence => ~ Exists(j)
    /\ \A c, d \in Connections : c # d /\ Inserting(c) /\ Inserting(d) => tx[c].j # tx[d].j

PgInv ==
    /\ DOMAIN tx = Connections
    /\ clock <= MaxTime
    /\ Exclusive
    /\ SequenceAhead
    /\ \A c \in Connections : TxInv(c)

-----------------------------------------------------------------------------
(* Steps of one transaction                                                *)

\* Kinds of locks do not mix.
LEMMA LockKinds ==
    \A x, y : /\ WorkerRow(x) # JobRow(y) /\ WorkerRow(x) # Identity(y)
              /\ WorkerRow(x) # Gpu(y) /\ WorkerRow(x) # Key(y)
              /\ JobRow(x) # Identity(y) /\ JobRow(x) # Gpu(y) /\ JobRow(x) # Key(y)
              /\ Identity(x) # Gpu(y) /\ Identity(x) # Key(y) /\ Gpu(x) # Key(y)
              /\ WorkerRow(x) = WorkerRow(y) => x = y
              /\ JobRow(x) = JobRow(y) => x = y
              /\ Identity(x) = Identity(y) => x = y
              /\ Gpu(x) = Gpu(y) => x = y
              /\ Key(x) = Key(y) => x = y
BY DEF WorkerRow, JobRow, Identity, Gpu, Key

\* Only c's transaction moves.
Only(c) == DOMAIN tx' = Connections /\ \A d \in Connections \ {c} : tx'[d] = tx[d]

\* A statement that ends with Proceed.
LEMMA ProceedFacts ==
    ASSUME DOMAIN tx = Connections, NEW c \in Connections, Shaped(c), NEW s, NEW lock, NEW seen,
           Proceed(c, s, lock, seen)
    PROVE  /\ Only(c) /\ UNCHANGED <<workers, jobs, leases_issued, clock, pg_sequence>>
           /\ DOMAIN tx'[c] = DOMAIN tx[c]
           /\ tx'[c].op = tx[c].op /\ tx'[c].w = tx[c].w /\ tx'[c].j = tx[c].j
           /\ tx'[c].arg = tx[c].arg /\ tx'[c].now = tx[c].now
           /\ tx'[c].step = s /\ tx'[c].locks = tx[c].locks \cup lock /\ tx'[c].seen = seen
BY DEF Proceed, Shaped, Only

\* A transaction that ends.
Ended(c) == Only(c) /\ tx'[c] = Idle

\* A transaction that returns early ends and leaves the tables alone.
LEMMA ReturnFacts ==
    ASSUME DOMAIN tx = Connections, NEW c \in Connections, Return(c)
    PROVE  Ended(c) /\ UNCHANGED <<workers, jobs, leases_issued, clock, pg_sequence>>
BY DEF Return, Only, Ended

\* A commit ends the transaction and draws no job number.
LEMMA CommitFacts ==
    ASSUME DOMAIN tx = Connections, NEW c \in Connections, Commit(c)
    PROVE  Ended(c) /\ pg_sequence' = pg_sequence
BY DEF Commit, Only, Ended

-----------------------------------------------------------------------------
(* What the locks of the others keep from changing                         *)

\* A step of d leaves the worker rows others have locked, the topology of the
\* identities they have locked, and the owners of the GPUs they have locked.
FrameWorkers(d) ==
    /\ clock' = clock
    /\ \A c \in Connections \ {d}, w \in WorkerIds : WorkerRow(w) \in tx[c].locks =>
          workers'[w] = workers[w] /\ RunningJobs(w)' = RunningJobs(w)
    /\ \A c \in Connections \ {d}, w \in WorkerIds : Identity(w) \in tx[c].locks =>
          /\ workers'[w].spec = workers[w].spec
          /\ ~ Registered(w) => workers'[w] = workers[w]
    /\ \A w \in WorkerIds : Registered(w) => Registered(w)'
    /\ \A v \in WorkerIds : owns_resources(v)' =>
          \/ owns_resources(v) /\ workers'[v].spec = workers[v].spec
          \/ \A g \in workers'[v].spec.gpu_uuids : Gpu(GpuLockKey[g]) \in tx[d].locks

\* It leaves the jobs others have locked, and creates at most the job it inserts.
FrameJobs(d) ==
    /\ clock' = clock
    /\ \A c \in Connections \ {d}, j \in JobIds : JobRow(j) \in tx[c].locks =>
          jobs'[j] = jobs[j]
    /\ \A j \in JobIds : Exists(j) => Exists(j)' /\ jobs'[j].request = jobs[j].request
    /\ \A j \in JobIds : Exists(j)' /\ ~ Exists(j) =>
          Inserting(d) /\ j = tx[d].j /\ jobs'[j].request = tx[d].arg
    /\ pg_sequence \in Nat /\ pg_sequence' \in Nat /\ pg_sequence <= pg_sequence'

\* The number of running jobs of a worker whose row is not there, or is locked by c.
LEMMA SameCount ==
    ASSUME IInv, IInv', NEW w \in WorkerIds, NEW c \in Connections, NEW d \in Connections \ {c},
           FrameWorkers(d), Identity(w) \in tx[c].locks,
           Registered(w) => WorkerRow(w) \in tx[c].locks
    PROVE  workers'[w] = workers[w] /\ RunningJobs(w)' = RunningJobs(w)
<1>1. CASE Registered(w)
  BY <1>1 DEF FrameWorkers
<1>2. CASE ~ Registered(w)
  <2>1. workers'[w] = workers[w]
    BY <1>2 DEF FrameWorkers
  <2>2. RunningJobs(w) = {}
    BY <1>2 DEF IInv, LeaseConsistent, RunningJobs, Registered
  <2>3. RunningJobs(w)' = {}
    BY <1>2, <2>1 DEF IInv, LeaseConsistent, RunningJobs, Registered
  <2> QED
    BY <2>1, <2>2, <2>3
<1> QED
  BY <1>1, <1>2

\* The GPUs a transaction has locked and found available stay available.
LEMMA StaysAvailable ==
    ASSUME Exclusive, NEW c \in Connections, NEW d \in Connections \ {c}, FrameWorkers(d),
           NEW w, NEW spec, gpu_ownership_available(w, spec),
           \A g \in spec.gpu_uuids : Gpu(GpuLockKey[g]) \in tx[c].locks
    PROVE  gpu_ownership_available(w, spec)'
<1> SUFFICES ASSUME NEW v \in WorkerIds \ {w}, owns_resources(v)',
                    NEW g \in workers'[v].spec.gpu_uuids, g \in spec.gpu_uuids
             PROVE  FALSE
  BY DEF gpu_ownership_available
<1>1. CASE owns_resources(v) /\ workers'[v].spec = workers[v].spec
  BY <1>1 DEF gpu_ownership_available
<1>2. CASE \A h \in workers'[v].spec.gpu_uuids : Gpu(GpuLockKey[h]) \in tx[d].locks
  BY <1>2 DEF Exclusive
<1> QED
  BY <1>1, <1>2 DEF FrameWorkers

\* A registration or a change of state keeps what it knows while others step.
LEMMA OwnerFrame ==
    ASSUME IInv, IInv', Exclusive, NEW c \in Connections, NEW d \in Connections \ {c},
           FrameWorkers(d), tx'[c] = tx[c], Shaped(c), OwnerTx(c)
    PROVE  OwnerTx(c)'
<1> SUFFICES ASSUME tx[c].op \in {"register", "set_state"} PROVE OwnerTx(c)'
  BY DEF OwnerTx
<1> DEFINE w == tx[c].w
<1>0. w \in WorkerIds
  BY DEF OwnerTx
<1>1. tx[c].step # "identity" => OwnGpus(c)' = OwnGpus(c)
  BY <1>0 DEF OwnerTx, FrameWorkers, OwnGpus, RequestedGpus
<1>2. tx[c].step \in {"overlap", "count", "write"} =>
         workers'[w] = workers[w] /\ RunningJobs(w)' = RunningJobs(w)
  BY <1>0, SameCount DEF OwnerTx
<1>3. tx[c].op = "register" /\ tx[c].step \in {"count", "write"} =>
         TopologyKept(c)' /\ gpu_ownership_available(w, tx[c].arg.spec)'
  <2> SUFFICES ASSUME tx[c].op = "register", tx[c].step \in {"count", "write"}
               PROVE  TopologyKept(c)' /\ gpu_ownership_available(w, tx[c].arg.spec)'
    OBVIOUS
  <2>1. TopologyKept(c)'
    BY <1>2 DEF OwnerTx, TopologyKept
  <2>2. \A g \in tx[c].arg.spec.gpu_uuids : Gpu(GpuLockKey[g]) \in tx[c].locks
    BY DEF OwnerTx, OwnGpus, RequestedGpus
  <2>3. gpu_ownership_available(w, tx[c].arg.spec)
    BY DEF OwnerTx
  <2> QED
    BY <2>1, <2>2, <2>3, StaysAvailable
<1>4. tx[c].op = "set_state" /\ tx[c].step = "write" /\ tx[c].arg # "offline" =>
         gpu_ownership_available(w, workers[w].spec)'
  <2> SUFFICES ASSUME tx[c].op = "set_state", tx[c].step = "write", tx[c].arg # "offline",
                      NEW spec, spec = workers[w].spec
               PROVE  gpu_ownership_available(w, workers[w].spec)'
    OBVIOUS
  <2>1. workers'[w].spec = spec
    BY <1>2
  <2>2. \A g \in spec.gpu_uuids : Gpu(GpuLockKey[g]) \in tx[c].locks
    BY DEF OwnerTx, OwnGpus
  <2>3. gpu_ownership_available(w, spec)
    BY DEF OwnerTx
  <2>4. gpu_ownership_available(w, spec)'
    BY <2>2, <2>3, StaysAvailable
  <2> QED
    BY <2>1, <2>4
<1> QED
  BY <1>0, <1>1, <1>2, <1>3, <1>4 DEF OwnerTx, Registered

\* A claim keeps what it knows while others step.
LEMMA ClaimFrame ==
    ASSUME NEW c \in Connections, NEW d \in Connections \ {c},
           FrameWorkers(d), FrameJobs(d), tx'[c] = tx[c], ClaimTx(c)
    PROVE  ClaimTx(c)'
<1>1. tx[c].op = "claim" /\ tx[c].step = "worker" => jobs'[tx[c].j] = jobs[tx[c].j]
  BY DEF ClaimTx, FrameJobs
<1> QED
  BY <1>1 DEF ClaimTx, FrameWorkers

\* A heartbeat keeps what it knows while others step.
LEMMA BeatFrame ==
    ASSUME NEW c \in Connections, NEW d \in Connections \ {c},
           FrameWorkers(d), FrameJobs(d), tx'[c] = tx[c], BeatTx(c)
    PROVE  BeatTx(c)'
<1>1. tx[c].op = "renew" /\ tx[c].step # "job" => jobs'[tx[c].j] = jobs[tx[c].j]
  BY DEF BeatTx, FrameJobs
<1>2. tx[c].op \in {"heartbeat", "renew"} /\ tx[c].step \in {"count", "write"} =>
         /\ workers'[tx[c].w] = workers[tx[c].w]
         /\ RunningJobs(tx[c].w)' = RunningJobs(tx[c].w)
  BY DEF BeatTx, FrameWorkers
<1> QED
  BY <1>1, <1>2 DEF BeatTx, HeartbeatAllowed, Registered, assert_running

\* The end of an attempt keeps what it knows while others step.
LEMMA EndFrame ==
    ASSUME NEW c \in Connections, NEW d \in Connections \ {c},
           FrameJobs(d), tx'[c] = tx[c], EndTx(c)
    PROVE  EndTx(c)'
<1>1. tx[c].op \in {"complete", "fail", "cancel", "recover"} /\ tx[c].step = "worker" =>
         jobs'[tx[c].j] = jobs[tx[c].j]
  BY DEF EndTx, FrameJobs
<1> QED
  BY <1>1 DEF EndTx, LeaseExpired, assert_running

\* A sweep keeps what it knows while others step.
LEMMA SweepFrame ==
    ASSUME NEW c \in Connections, NEW d \in Connections \ {c},
           FrameWorkers(d), tx'[c] = tx[c], SweepTx(c)
    PROVE  SweepTx(c)'
BY DEF SweepTx, FrameWorkers, Due, Stale

\* A submission keeps what it knows while others step.
LEMMA SubmitFrame ==
    ASSUME NEW c \in Connections, NEW d \in Connections \ {c}, Exclusive, SequenceAhead,
           FrameJobs(d), tx'[c] = tx[c], SubmitTx(c), SubmitTx(d)
    PROVE  SubmitTx(c)'
<1> SUFFICES ASSUME tx[c].op = "submit" PROVE SubmitTx(c)'
  BY DEF SubmitTx
<1> DEFINE key == tx[c].arg.idempotency_key
<1>1. tx[c].step = "reselect" => (JobsWithKey(key) # {})'
  <2> SUFFICES ASSUME tx[c].step = "reselect" PROVE (JobsWithKey(key) # {})'
    OBVIOUS
  <2>1. PICK j \in JobsWithKey(key) : TRUE
    BY DEF SubmitTx
  <2>2. j \in JobIds /\ Exists(j) /\ key # NoKey /\ jobs[j].request.idempotency_key = key
    BY <2>1 DEF JobsWithKey
  <2>3. Exists(j)' /\ jobs'[j].request = jobs[j].request
    BY <2>2 DEF FrameJobs
  <2>4. j \in JobsWithKey(key)'
    BY <2>2, <2>3 DEF JobsWithKey
  <2> QED
    BY <2>4
<1>2. ASSUME tx[c].step = "write" PROVE ~ Exists(tx[c].j)' /\ tx[c].j <= pg_sequence'
  <2>1. tx[c].j \in JobIds /\ ~ Exists(tx[c].j) /\ tx[c].j <= pg_sequence
    BY <1>2 DEF SubmitTx
  <2>2. Exists(tx[c].j)' => Inserting(d) /\ tx[c].j = tx[d].j
    BY <2>1 DEF FrameJobs
  <2>3. Inserting(c)
    BY <1>2 DEF Inserting
  <2>4. ~ Exists(tx[c].j)'
    BY <2>2, <2>3 DEF SequenceAhead
  <2>5. tx[c].j \in Int
    BY <2>1 DEF JobIds
  <2> QED
    BY <2>1, <2>4, <2>5 DEF FrameJobs
<1>3. ASSUME tx[c].step = "write", key # NoKey PROVE ~ KeyTaken(key)'
  <2> SUFFICES ASSUME NEW j \in JobIds, Exists(j)', jobs'[j].request.idempotency_key = key
               PROVE  FALSE
    BY DEF KeyTaken
  <2>1. ~ KeyTaken(key) /\ Key(key) \in tx[c].locks
    BY <1>3 DEF SubmitTx
  <2>2. ~ Exists(j)
    BY <2>1 DEF KeyTaken, FrameJobs
  <2>3. Inserting(d) /\ tx[d].arg.idempotency_key = key
    BY <2>2 DEF FrameJobs
  <2>4. Key(key) \in tx[d].locks
    BY <1>3, <2>3 DEF SubmitTx, Inserting
  <2> QED
    BY <2>1, <2>4 DEF Exclusive
<1> QED
  BY <1>1, <1>2, <1>3 DEF SubmitTx

\* A step of d keeps what the other transactions hold and know.
LEMMA TxFrame ==
    ASSUME IInv, IInv', PgInv, NEW c \in Connections, NEW d \in Connections \ {c},
           FrameWorkers(d), FrameJobs(d), tx'[c] = tx[c]
    PROVE  TxInv(c)'
<1>1. TxInv(c) /\ TxInv(d) /\ Exclusive /\ SequenceAhead
  BY DEF PgInv
<1>2. Shaped(c)'
  BY <1>1 DEF TxInv, Shaped, FrameJobs
<1>3. HeldRows(c)'
  BY <1>1 DEF TxInv, HeldRows, FrameWorkers, FrameJobs
<1>4. OwnerTx(c)'
  BY <1>1, OwnerFrame DEF TxInv
<1>5. ClaimTx(c)'
  BY <1>1, ClaimFrame DEF TxInv
<1>6. BeatTx(c)'
  BY <1>1, BeatFrame DEF TxInv
<1>7. EndTx(c)'
  BY <1>1, EndFrame DEF TxInv
<1>8. SweepTx(c)'
  BY <1>1, SweepFrame DEF TxInv
<1>9. SubmitTx(c)'
  BY <1>1, SubmitFrame DEF TxInv
<1> QED
  BY <1>2, <1>3, <1>4, <1>5, <1>6, <1>7, <1>8, <1>9 DEF TxInv

-----------------------------------------------------------------------------
(* How a statement keeps the invariant                                     *)

\* A step of c keeps the invariant when it disturbs no one, knows what it has to know
\* afterwards and takes only free locks.
LEMMA StepKeeps ==
    ASSUME IInv, IInv', PgInv, NEW c \in Connections, Only(c), FrameWorkers(c), FrameJobs(c),
           TxInv(c)', SequenceAhead', \A lock \in tx'[c].locks \ tx[c].locks : ~ Held(c, lock)
    PROVE  PgInv'
<1>1. \A d \in Connections : TxInv(d)'
  BY TxFrame DEF Only
<1>2. Exclusive'
  BY DEF Exclusive, PgInv, Only, Held
<1> QED
  BY <1>1, <1>2 DEF PgInv, Only, FrameJobs

\* The identity sequence, when c inserts nothing new.
LEMMA SequenceKept ==
    ASSUME PgInv, NEW c \in Connections, Only(c), FrameJobs(c), pg_sequence' = pg_sequence,
           ~ Inserting(c)'
    PROVE  SequenceAhead'
<1>1. SequenceAhead /\ SubmitTx(c)
  BY DEF PgInv, TxInv
<1>2. \A j \in JobIds : j > pg_sequence => ~ Exists(j)'
  <2> SUFFICES ASSUME NEW j \in JobIds, j > pg_sequence, Exists(j)' PROVE FALSE
    OBVIOUS
  <2>1. Inserting(c) /\ j = tx[c].j
    BY <1>1 DEF SequenceAhead, FrameJobs
  <2>2. j <= pg_sequence
    BY <1>1, <2>1 DEF SubmitTx, Inserting
  <2>3. j \in Int /\ pg_sequence \in Int
    BY <1>1 DEF JobIds, SequenceAhead
  <2> QED
    BY <2>2, <2>3
<1>3. \A d, e \in Connections : d # e /\ Inserting(d)' /\ Inserting(e)' => tx'[d].j # tx'[e].j
  BY <1>1 DEF SequenceAhead, Only, Inserting
<1> QED
  BY <1>1, <1>2, <1>3 DEF SequenceAhead

\* A statement that writes nothing disturbs no one.
LEMMA Quiet ==
    ASSUME IInv, PgInv, NEW c, UNCHANGED <<workers, jobs, leases_issued, clock>>,
           pg_sequence' \in Nat, pg_sequence <= pg_sequence'
    PROVE  IInv' /\ FrameWorkers(c) /\ FrameJobs(c)
<1>1. IInv'
  BY NextIInv DEF vars
<1>2. FrameWorkers(c)
  BY DEF FrameWorkers, RunningJobs, Registered, owns_resources
<1>3. FrameJobs(c)
  BY ContractAssumption DEF FrameJobs, Exists, PgInv, SequenceAhead
<1> QED
  BY <1>1, <1>2, <1>3

\* A transaction that is over knows nothing.
LEMMA IdleTx ==
    ASSUME NEW c \in Connections, tx'[c] = Idle, clock' \in Nat
    PROVE  TxInv(c)' /\ tx'[c].locks = {} /\ ~ Inserting(c)'
<1>1. /\ DOMAIN tx'[c] = {"op", "w", "j", "arg", "step", "now", "locks", "seen"}
      /\ tx'[c].op = "none" /\ tx'[c].step = "idle" /\ tx'[c].locks = {} /\ tx'[c].now = 0
  BY DEF Idle
<1>2. Shaped(c)'
  BY <1>1 DEF Shaped, Opers, StepsOf
<1>3. HeldRows(c)'
  BY <1>1 DEF HeldRows
<1>4. OwnerTx(c)' /\ ClaimTx(c)' /\ BeatTx(c)' /\ EndTx(c)' /\ SweepTx(c)' /\ SubmitTx(c)'
  BY <1>1 DEF OwnerTx, ClaimTx, BeatTx, EndTx, SweepTx, SubmitTx
<1> QED
  BY <1>1, <1>2, <1>3, <1>4 DEF TxInv, Inserting

\* A transaction that ends, with or without a write, keeps the invariant.
LEMMA EndedKeeps ==
    ASSUME IInv, IInv', PgInv, NEW c \in Connections, Ended(c), pg_sequence' = pg_sequence,
           FrameWorkers(c), FrameJobs(c)
    PROVE  PgInv'
<1>1. Only(c) /\ tx'[c] = Idle
  BY DEF Ended
<1>2. clock' \in Nat
  BY DEF IInv, TypeOK
<1>3. TxInv(c)' /\ tx'[c].locks = {} /\ ~ Inserting(c)'
  BY <1>1, <1>2, IdleTx
<1>4. SequenceAhead'
  BY <1>1, <1>3, SequenceKept
<1> QED
  BY <1>1, <1>3, <1>4, StepKeeps

\* So does a Return.
LEMMA ReturnKeeps ==
    ASSUME IInv, PgInv, NEW c \in Connections, Return(c)
    PROVE  PgInv' /\ UNCHANGED vars
<1>1. Ended(c) /\ UNCHANGED <<workers, jobs, leases_issued, clock, pg_sequence>>
  BY ReturnFacts DEF PgInv
<1>2. pg_sequence \in Nat
  BY ContractAssumption DEF PgInv, SequenceAhead
<1>3. IInv' /\ FrameWorkers(c) /\ FrameJobs(c)
  BY <1>1, <1>2, Quiet
<1> QED
  BY <1>1, <1>3, EndedKeeps DEF vars

\* And a statement that goes on, when it knows what it has to know and takes free locks.
LEMMA GoesOn ==
    ASSUME IInv, PgInv, NEW c \in Connections, Only(c),
           UNCHANGED <<workers, jobs, leases_issued, clock, pg_sequence>>,
           TxInv(c)', ~ Inserting(c)', \A lock \in tx'[c].locks \ tx[c].locks : ~ Held(c, lock)
    PROVE  PgInv' /\ UNCHANGED vars
<1>1. pg_sequence \in Nat
  BY ContractAssumption DEF PgInv, SequenceAhead
<1>2. IInv' /\ FrameWorkers(c) /\ FrameJobs(c)
  BY <1>1, Quiet
<1>3. SequenceAhead'
  BY <1>2, SequenceKept
<1> QED
  BY <1>2, <1>3, StepKeeps DEF vars

-----------------------------------------------------------------------------
(* register_worker and set_worker_state                                    *)

\* StepsOf, method by method.
LEMMA Steps ==
    /\ StepsOf("none") = {"idle"}
    /\ StepsOf("register") =
          {"identity", "topology", "gpus", "own_row", "overlap", "count", "write"}
    /\ StepsOf("set_state") = {"identity", "topology", "gpus", "own_row", "overlap", "write"}
    /\ StepsOf("claim") = {"read", "retire", "select", "worker"}
    /\ StepsOf("heartbeat") = {"worker", "count", "write"}
    /\ StepsOf("renew") = {"job", "worker", "count", "write"}
    /\ StepsOf("complete") = {"job", "worker"} /\ StepsOf("fail") = {"job", "worker"}
    /\ StepsOf("cancel") = {"job", "worker"}
    /\ StepsOf("expire") = {"scan", "rows", "write"}
    /\ StepsOf("recover") = {"pick", "worker"}
    /\ StepsOf("submit") = {"lookup", "insert", "reselect", "write"}
BY DEF StepsOf

\* A registration or a change of state that goes on and knows what it has to know.
LEMMA OwnerGoesOn ==
    ASSUME IInv, PgInv, NEW c \in Connections, tx[c].op \in {"register", "set_state"},
           NEW s \in StepsOf(tx[c].op) \ {"idle"}, NEW lock, NEW seen, Proceed(c, s, lock, seen),
           OwnerTx(c)', \A l \in lock : ~ Held(c, l),
           \A w \in WorkerIds : WorkerRow(w) \in lock => Registered(w),
           \A j \in JobIds : JobRow(j) \notin lock
    PROVE  PgInv' /\ UNCHANGED vars
<1>1. TxInv(c) /\ DOMAIN tx = Connections
  BY DEF PgInv
<1>2. /\ Only(c) /\ UNCHANGED <<workers, jobs, leases_issued, clock, pg_sequence>>
      /\ DOMAIN tx'[c] = DOMAIN tx[c]
      /\ tx'[c].op = tx[c].op /\ tx'[c].now = tx[c].now
      /\ tx'[c].step = s /\ tx'[c].locks = tx[c].locks \cup lock
  BY <1>1, ProceedFacts DEF TxInv
<1>3. Shaped(c)'
  BY <1>1, <1>2 DEF Shaped, TxInv
<1>4. HeldRows(c)'
  BY <1>1, <1>2 DEF HeldRows, TxInv, Registered, Exists
<1>5. TxInv(c)' /\ ~ Inserting(c)'
  BY <1>2, <1>3, <1>4 DEF TxInv, ClaimTx, BeatTx, EndTx, SweepTx, SubmitTx, Inserting
<1> QED
  BY <1>2, <1>5, GoesOn

\* The methods that are at these steps.
LEMMA OwnerSteps ==
    ASSUME PgInv, NEW c \in Connections,
           tx[c].step \in {"identity", "topology", "gpus", "own_row", "overlap"}
    PROVE  /\ tx[c].op \in {"register", "set_state"}
           /\ {"identity", "topology", "gpus", "own_row", "overlap", "write"}
                \subseteq StepsOf(tx[c].op) \ {"idle"}
           /\ OwnerTx(c) /\ Shaped(c) /\ DOMAIN tx = Connections
<1>1. OwnerTx(c) /\ Shaped(c) /\ DOMAIN tx = Connections
  BY DEF PgInv, TxInv
<1>2. tx[c].op \in {"register", "set_state"}
  BY <1>1, Steps DEF Shaped, Opers
<1> QED
  BY <1>1, <1>2, Steps

\* _lock_worker_ownership: the advisory lock of the worker's id is taken.
LEMMA LockIdentityKeeps ==
    ASSUME IInv, PgInv, NEW c \in Connections, LockIdentity(c)
    PROVE  PgInv' /\ UNCHANGED vars
<1> DEFINE lock == {Identity(tx[c].w)}
<1>1. Proceed(c, "topology", lock, {}) /\ tx[c].step = "identity" /\ ~ Held(c, Identity(tx[c].w))
  BY DEF LockIdentity, MayTake
<1>2. /\ tx[c].op \in {"register", "set_state"} /\ "topology" \in StepsOf(tx[c].op) \ {"idle"}
      /\ OwnerTx(c) /\ Shaped(c) /\ DOMAIN tx = Connections
  BY <1>1, OwnerSteps
<1>3. OwnerTx(c)'
  BY <1>1, <1>2, ProceedFacts DEF OwnerTx
<1>4. (\A w \in WorkerIds : WorkerRow(w) \notin lock) /\ (\A j \in JobIds : JobRow(j) \notin lock)
  BY LockKinds
<1> HIDE DEF lock
<1>5. \A l \in lock : ~ Held(c, l)
  BY <1>1 DEF lock
<1> QED
  BY <1>1, <1>2, <1>3, <1>4, <1>5, OwnerGoesOn

\* The stored GPUs of the worker are read, and with them the lock keys that are to be taken.
LEMMA ReadTopologyKeeps ==
    ASSUME IInv, PgInv, NEW c \in Connections, ReadTopology(c)
    PROVE  PgInv' /\ UNCHANGED vars
<1> DEFINE keys == {GpuLockKey[g] : g \in RequestedGpus(c) \cup workers[tx[c].w].spec.gpu_uuids}
           s == IF keys = {} THEN "own_row" ELSE "gpus"
<1>1. Proceed(c, s, {}, keys) /\ tx[c].step = "topology"
  BY DEF ReadTopology
<1>2. /\ tx[c].op \in {"register", "set_state"} /\ s \in StepsOf(tx[c].op) \ {"idle"}
      /\ OwnerTx(c) /\ Shaped(c) /\ DOMAIN tx = Connections
  BY <1>1, OwnerSteps
<1>3. \A g \in OwnGpus(c) : GpuLockKey[g] \in keys
  BY DEF OwnGpus
<1>4. s \in {"own_row", "gpus"} /\ (s = "own_row" => keys = {})
  OBVIOUS
<1> HIDE DEF keys, s
<1>5. /\ UNCHANGED <<workers, jobs, leases_issued, clock, pg_sequence>>
      /\ tx'[c].op = tx[c].op /\ tx'[c].w = tx[c].w /\ tx'[c].arg = tx[c].arg
      /\ tx'[c].step = s /\ tx'[c].locks = tx[c].locks /\ tx'[c].seen = keys
  BY <1>1, <1>2, ProceedFacts
<1>6. OwnGpus(c)' = OwnGpus(c)
  BY <1>5 DEF OwnGpus, RequestedGpus
<1>7. OwnerTx(c)'
  BY <1>1, <1>2, <1>3, <1>4, <1>5, <1>6 DEF OwnerTx
<1> QED
  BY <1>1, <1>2, <1>7, OwnerGoesOn

\* The advisory locks of the GPUs are taken in the order of their keys.
LEMMA LockGpuKeeps ==
    ASSUME IInv, PgInv, NEW c \in Connections, LockGpu(c)
    PROVE  PgInv' /\ UNCHANGED vars
<1>1. tx[c].step = "gpus"
  BY DEF LockGpu
<1>2. PICK k \in tx[c].seen :
         /\ MayTake(c, Gpu(k))
         /\ Proceed(c, IF tx[c].seen = {k} THEN "own_row" ELSE "gpus", {Gpu(k)},
                    tx[c].seen \ {k})
  BY DEF LockGpu
<1> DEFINE lock == {Gpu(k)}
           s == IF tx[c].seen = {k} THEN "own_row" ELSE "gpus"
<1>3. /\ tx[c].op \in {"register", "set_state"} /\ s \in StepsOf(tx[c].op) \ {"idle"}
      /\ OwnerTx(c) /\ Shaped(c) /\ DOMAIN tx = Connections
  BY <1>1, OwnerSteps
<1>4. Proceed(c, s, lock, tx[c].seen \ {k})
  BY <1>2
<1>5. (\A w \in WorkerIds : WorkerRow(w) \notin lock) /\ (\A j \in JobIds : JobRow(j) \notin lock)
  BY LockKinds
<1>6. s \in {"own_row", "gpus"} /\ (s = "own_row" => tx[c].seen \subseteq {k})
  OBVIOUS
<1>7. \A l \in lock : ~ Held(c, l)
  BY <1>2 DEF MayTake
<1> HIDE DEF s
<1>8. /\ UNCHANGED <<workers, jobs, leases_issued, clock, pg_sequence>>
      /\ tx'[c].op = tx[c].op /\ tx'[c].w = tx[c].w /\ tx'[c].arg = tx[c].arg
      /\ tx'[c].step = s /\ tx'[c].locks = tx[c].locks \cup lock
      /\ tx'[c].seen = tx[c].seen \ {k}
  BY <1>4, <1>3, ProceedFacts
<1>9. OwnGpus(c)' = OwnGpus(c)
  BY <1>8 DEF OwnGpus, RequestedGpus
<1>10. OwnerTx(c)'
  BY <1>1, <1>3, <1>6, <1>8, <1>9 DEF OwnerTx
<1> HIDE DEF lock
<1> QED
  BY <1>3, <1>4, <1>5, <1>7, <1>10, OwnerGoesOn

\* The worker's own row is locked, after the advisory locks.
LEMMA LockOwnRowKeeps ==
    ASSUME IInv, PgInv, NEW c \in Connections, LockOwnRow(c)
    PROVE  PgInv' /\ UNCHANGED vars
<1>1. tx[c].step = "own_row"
  BY DEF LockOwnRow
<1>2. /\ tx[c].op \in {"register", "set_state"} /\ "overlap" \in StepsOf(tx[c].op) \ {"idle"}
      /\ OwnerTx(c) /\ Shaped(c) /\ DOMAIN tx = Connections
  BY <1>1, OwnerSteps
<1>3. ASSUME NEW lock, Proceed(c, "overlap", lock, {}), \A l \in lock : ~ Held(c, l),
             Registered(tx[c].w) => WorkerRow(tx[c].w) \in lock,
             tx[c].op = "set_state" => Registered(tx[c].w),
             \A w \in WorkerIds : WorkerRow(w) \in lock => Registered(w),
             \A j \in JobIds : JobRow(j) \notin lock
      PROVE  PgInv' /\ UNCHANGED vars
  <2>1. /\ UNCHANGED <<workers, jobs, leases_issued, clock, pg_sequence>>
        /\ tx'[c].op = tx[c].op /\ tx'[c].w = tx[c].w /\ tx'[c].arg = tx[c].arg
        /\ tx'[c].step = "overlap" /\ tx'[c].locks = tx[c].locks \cup lock
    BY <1>2, <1>3, ProceedFacts
  <2>2. OwnGpus(c)' = OwnGpus(c)
    BY <2>1 DEF OwnGpus, RequestedGpus
  <2>3. OwnerTx(c)'
    BY <1>1, <1>2, <1>3, <2>1, <2>2 DEF OwnerTx, Registered
  <2> QED
    BY <1>2, <1>3, <2>3, OwnerGoesOn
<1>4. CASE Registered(tx[c].w)
  <2> DEFINE lock == {WorkerRow(tx[c].w)}
  <2>1. Proceed(c, "overlap", lock, {}) /\ \A l \in lock : ~ Held(c, l)
    BY <1>4 DEF LockOwnRow, MayTake
  <2>2. /\ \A w \in WorkerIds : WorkerRow(w) \in lock => Registered(w)
        /\ \A j \in JobIds : JobRow(j) \notin lock
        /\ WorkerRow(tx[c].w) \in lock
    BY <1>4, LockKinds
  <2> HIDE DEF lock
  <2> QED
    BY <1>3, <1>4, <2>1, <2>2
<1>5. CASE ~ Registered(tx[c].w) /\ tx[c].op = "register"
  <2>1. Proceed(c, "overlap", {}, {})
    BY <1>5 DEF LockOwnRow
  <2> QED
    BY <1>3, <1>5, <2>1
<1>6. CASE ~ Registered(tx[c].w) /\ tx[c].op = "set_state"
  BY <1>6, ReturnKeeps DEF LockOwnRow
<1> QED
  BY <1>2, <1>4, <1>5, <1>6

\* The check for workers with the same GPUs: what it read still holds when it goes on.
LEMMA CheckOverlapKeeps ==
    ASSUME IInv, PgInv, NEW c \in Connections, CheckOverlap(c)
    PROVE  PgInv' /\ UNCHANGED vars
<1>1. tx[c].step = "overlap"
  BY DEF CheckOverlap
<1>2. /\ tx[c].op \in {"register", "set_state"} /\ "write" \in StepsOf(tx[c].op) \ {"idle"}
      /\ OwnerTx(c) /\ Shaped(c) /\ DOMAIN tx = Connections
  BY <1>1, OwnerSteps
<1>3. tx[c].op = "register" => "count" \in StepsOf(tx[c].op) \ {"idle"}
  BY Steps
<1>4. ASSUME NEW s, Proceed(c, s, {}, {})
      PROVE  /\ UNCHANGED <<workers, jobs, leases_issued, clock, pg_sequence>>
             /\ tx'[c].op = tx[c].op /\ tx'[c].w = tx[c].w /\ tx'[c].arg = tx[c].arg
             /\ tx'[c].step = s /\ tx'[c].locks = tx[c].locks
             /\ OwnGpus(c)' = OwnGpus(c)
  <2>1. /\ UNCHANGED <<workers, jobs, leases_issued, clock, pg_sequence>>
        /\ tx'[c].op = tx[c].op /\ tx'[c].w = tx[c].w /\ tx'[c].arg = tx[c].arg
        /\ tx'[c].step = s /\ tx'[c].locks = tx[c].locks
    BY <1>2, <1>4, ProceedFacts
  <2> QED
    BY <2>1 DEF OwnGpus, RequestedGpus
<1>5. CASE Return(c)
  BY <1>5, ReturnKeeps
<1>6. CASE /\ tx[c].op = "register" /\ Proceed(c, "count", {}, {})
           /\ TopologyKept(c) /\ gpu_ownership_available(tx[c].w, tx[c].arg.spec)
  <2>1. (TopologyKept(c) /\ gpu_ownership_available(tx[c].w, tx[c].arg.spec))'
    BY <1>4, <1>6 DEF TopologyKept, gpu_ownership_available, owns_resources, Registered
  <2>2. OwnerTx(c)'
    BY <1>1, <1>2, <1>4, <1>6, <2>1 DEF OwnerTx, Registered
  <2> QED
    BY <1>2, <1>3, <1>6, <2>2, OwnerGoesOn
<1>7. CASE /\ tx[c].op = "set_state" /\ Proceed(c, "write", {}, {})
           /\ tx[c].arg = "offline" \/ gpu_ownership_available(tx[c].w, workers[tx[c].w].spec)
  <2>1. (tx[c].arg = "offline" \/ gpu_ownership_available(tx[c].w, workers[tx[c].w].spec))'
    BY <1>4, <1>7 DEF gpu_ownership_available, owns_resources, Registered
  <2>2. OwnerTx(c)'
    BY <1>1, <1>2, <1>4, <1>7, <2>1 DEF OwnerTx, Registered
  <2> QED
    BY <1>2, <1>7, <2>2, OwnerGoesOn
<1> QED
  BY <1>5, <1>6, <1>7 DEF CheckOverlap

\* A transaction's timestamp is one of the contract.
LEMMA NowIsTimestamp ==
    ASSUME MaxTime <= MaxLag, IInv, PgInv, NEW c \in Connections
    PROVE  tx[c].now \in Timestamps /\ tx[c].now \in Nat /\ tx[c].now <= clock
<1>1. tx[c].now \in Nat /\ tx[c].now <= clock /\ clock <= MaxTime /\ clock \in Nat
  BY DEF PgInv, TxInv, Shaped, IInv, TypeOK
<1> QED
  BY <1>1, ContractAssumption DEF Timestamps

\* A commit that leaves the jobs alone disturbs no job.
LEMMA SameJobsFrame ==
    ASSUME PgInv, NEW c, UNCHANGED <<jobs, clock, pg_sequence>>
    PROVE  FrameJobs(c) /\ \A w : RunningJobs(w)' = RunningJobs(w)
BY ContractAssumption DEF FrameJobs, PgInv, SequenceAhead, Exists, RunningJobs

\* The commit of register_worker is register_worker of the contract.
LEMMA CommitRegisterKeeps ==
    ASSUME MaxTime <= MaxLag, IInv, PgInv, NEW c \in Connections, CommitRegister(c)
    PROVE  PgInv' /\ Next
<1> DEFINE w == tx[c].w
           row == [spec |-> tx[c].arg.spec, max_concurrency |-> tx[c].arg.m, state |-> "online",
                   active_jobs |-> tx[c].seen, last_seen_at |-> tx[c].now]
<1>1. /\ tx[c].step = "write" /\ tx[c].op = "register"
      /\ workers' = [workers EXCEPT ![w] = row] /\ Commit(c)
      /\ UNCHANGED <<jobs, leases_issued, clock>>
  BY DEF CommitRegister
<1>2. TxInv(c) /\ Exclusive /\ DOMAIN tx = Connections
  BY DEF PgInv
<1>3. /\ w \in WorkerIds /\ tx[c].arg.spec \in Specs /\ tx[c].arg.m \in MaxConcurrencies
      /\ Identity(w) \in tx[c].locks
      /\ \A g \in tx[c].arg.spec.gpu_uuids : Gpu(GpuLockKey[g]) \in tx[c].locks
      /\ Registered(w) => WorkerRow(w) \in tx[c].locks
      /\ TopologyKept(c) /\ gpu_ownership_available(w, tx[c].arg.spec)
      /\ tx[c].seen = Cardinality(RunningJobs(w))
  BY <1>1, <1>2 DEF TxInv, OwnerTx, OwnGpus, RequestedGpus
<1>4. tx[c].now \in Timestamps
  BY NowIsTimestamp
<1>5. register_worker(w, tx[c].arg.spec, tx[c].arg.m, tx[c].now)
  BY <1>1, <1>3 DEF register_worker, TopologyKept
<1>6. Next
  BY <1>3, <1>4, <1>5 DEF Next, WorkerCall
<1>7. IInv'
  BY <1>6, NextIInv
<1>8. workers'[w] = row /\ \A v \in WorkerIds \ {w} : workers'[v] = workers[v]
  BY <1>1, <1>3 DEF IInv, TypeOK
<1>9. row.spec = tx[c].arg.spec /\ row.state = "online"
  OBVIOUS
<1> HIDE DEF row, w
<1>10. Ended(c) /\ pg_sequence' = pg_sequence
  BY <1>1, <1>2, CommitFacts
<1>11. FrameJobs(c) /\ \A v : RunningJobs(v)' = RunningJobs(v)
  BY <1>1, <1>10, SameJobsFrame
<1>12. FrameWorkers(c)
  <2>1. ASSUME NEW d \in Connections \ {c}, NEW v \in WorkerIds, WorkerRow(v) \in tx[d].locks
        PROVE  workers'[v] = workers[v]
    <3>1. Registered(v)
      BY <2>1 DEF PgInv, TxInv, HeldRows
    <3>2. v # w
      BY <1>2, <1>3, <2>1, <3>1 DEF Exclusive
    <3> QED
      BY <1>8, <3>2
  <2>2. ASSUME NEW d \in Connections \ {c}, NEW v \in WorkerIds, Identity(v) \in tx[d].locks
        PROVE  workers'[v] = workers[v]
    BY <1>2, <1>3, <1>8, <2>2 DEF Exclusive
  <2>3. \A v \in WorkerIds : Registered(v) => Registered(v)'
    BY <1>8, <1>9 DEF Registered
  <2>4. ASSUME NEW v \in WorkerIds, owns_resources(v)'
        PROVE  \/ owns_resources(v) /\ workers'[v].spec = workers[v].spec
               \/ \A g \in workers'[v].spec.gpu_uuids : Gpu(GpuLockKey[g]) \in tx[c].locks
    BY <1>3, <1>8, <1>9, <2>4 DEF owns_resources, Registered
  <2> QED
    BY <1>1, <1>11, <2>1, <2>2, <2>3, <2>4 DEF FrameWorkers
<1> QED
  BY <1>6, <1>7, <1>10, <1>11, <1>12, EndedKeeps

\* The commit of set_worker_state is set_worker_state of the contract.
LEMMA CommitStateKeeps ==
    ASSUME MaxTime <= MaxLag, IInv, PgInv, NEW c \in Connections, CommitState(c)
    PROVE  PgInv' /\ Next
<1> DEFINE w == tx[c].w
<1>1. /\ tx[c].step = "write" /\ tx[c].op = "set_state"
      /\ workers' = [workers EXCEPT ![w].state = tx[c].arg, ![w].last_seen_at = tx[c].now]
      /\ Commit(c)
      /\ UNCHANGED <<jobs, leases_issued, clock>>
  BY DEF CommitState
<1>2. TxInv(c) /\ Exclusive /\ DOMAIN tx = Connections
  BY DEF PgInv
<1>3. /\ w \in WorkerIds /\ tx[c].arg \in RequestedStates
      /\ Identity(w) \in tx[c].locks
      /\ \A g \in workers[w].spec.gpu_uuids : Gpu(GpuLockKey[g]) \in tx[c].locks
      /\ Registered(w) /\ WorkerRow(w) \in tx[c].locks
      /\ tx[c].arg # "offline" => gpu_ownership_available(w, workers[w].spec)
  BY <1>1, <1>2 DEF TxInv, OwnerTx, OwnGpus
<1>4. tx[c].now \in Timestamps
  BY NowIsTimestamp
<1>5. set_worker_state(w, tx[c].arg, tx[c].now)
  BY <1>1, <1>3 DEF set_worker_state
<1>6. Next
  BY <1>3, <1>4, <1>5 DEF Next, WorkerCall
<1>7. IInv'
  BY <1>6, NextIInv
<1>8. /\ workers'[w].spec = workers[w].spec /\ workers'[w].state = tx[c].arg
      /\ \A v \in WorkerIds \ {w} : workers'[v] = workers[v]
  BY <1>1, <1>3 DEF IInv, TypeOK, WorkerRecords
<1> HIDE DEF w
<1>10. Ended(c) /\ pg_sequence' = pg_sequence
  BY <1>1, <1>2, CommitFacts
<1>11. FrameJobs(c) /\ \A v : RunningJobs(v)' = RunningJobs(v)
  BY <1>1, <1>10, SameJobsFrame
<1>12. FrameWorkers(c)
  <2>1. ASSUME NEW d \in Connections \ {c}, NEW v \in WorkerIds,
               WorkerRow(v) \in tx[d].locks \/ Identity(v) \in tx[d].locks
        PROVE  workers'[v] = workers[v]
    BY <1>2, <1>3, <1>8, <2>1 DEF Exclusive
  <2>2. \A v \in WorkerIds : Registered(v) => Registered(v)'
    BY <1>3, <1>8, ContractAssumption DEF Registered, WorkerStates, LiveStates
  <2>3. ASSUME NEW v \in WorkerIds, owns_resources(v)'
        PROVE  \/ owns_resources(v) /\ workers'[v].spec = workers[v].spec
               \/ \A g \in workers'[v].spec.gpu_uuids : Gpu(GpuLockKey[g]) \in tx[c].locks
    BY <1>3, <1>8, <2>3 DEF owns_resources, Registered
  <2> QED
    BY <1>1, <1>11, <2>1, <2>2, <2>3 DEF FrameWorkers
<1> QED
  BY <1>6, <1>7, <1>10, <1>11, <1>12, EndedKeeps

-----------------------------------------------------------------------------
(* heartbeat_worker, and the count of the running jobs                     *)

\* A heartbeat that goes on and knows what it has to know.
LEMMA BeatGoesOn ==
    ASSUME IInv, PgInv, NEW c \in Connections, tx[c].op \in {"heartbeat", "renew"},
           NEW s \in {"count", "write"}, NEW lock, NEW seen, Proceed(c, s, lock, seen),
           BeatTx(c)', \A l \in lock : ~ Held(c, l),
           \A w \in WorkerIds : WorkerRow(w) \in lock => Registered(w),
           \A j \in JobIds : JobRow(j) \notin lock
    PROVE  PgInv' /\ UNCHANGED vars
<1>1. TxInv(c) /\ DOMAIN tx = Connections
  BY DEF PgInv
<1>2. /\ Only(c) /\ UNCHANGED <<workers, jobs, leases_issued, clock, pg_sequence>>
      /\ DOMAIN tx'[c] = DOMAIN tx[c]
      /\ tx'[c].op = tx[c].op /\ tx'[c].now = tx[c].now
      /\ tx'[c].step = s /\ tx'[c].locks = tx[c].locks \cup lock
  BY <1>1, ProceedFacts DEF TxInv
<1>3. Shaped(c)'
  BY <1>1, <1>2, Steps DEF Shaped, TxInv
<1>4. HeldRows(c)'
  BY <1>1, <1>2 DEF HeldRows, TxInv, Registered, Exists
<1>5. TxInv(c)' /\ ~ Inserting(c)'
  BY <1>2, <1>3, <1>4 DEF TxInv, OwnerTx, ClaimTx, EndTx, SweepTx, SubmitTx, Inserting
<1> QED
  BY <1>2, <1>5, GoesOn

\* The locked worker row is counted for a registration or a heartbeat.
LEMMA CountActiveKeeps ==
    ASSUME IInv, PgInv, NEW c \in Connections, CountActive(c)
    PROVE  PgInv' /\ UNCHANGED vars
<1> DEFINE n == Cardinality(RunningJobs(tx[c].w))
<1>1. tx[c].step = "count" /\ Proceed(c, "write", {}, n)
  BY DEF CountActive
<1>2. TxInv(c) /\ DOMAIN tx = Connections
  BY DEF PgInv
<1>3. tx[c].op \in {"register", "heartbeat", "renew"}
  BY <1>1, <1>2, Steps DEF TxInv, Shaped, Opers
<1> HIDE DEF n
<1>4. /\ UNCHANGED <<workers, jobs, leases_issued, clock, pg_sequence>>
      /\ tx'[c].op = tx[c].op /\ tx'[c].w = tx[c].w /\ tx'[c].arg = tx[c].arg
      /\ tx'[c].j = tx[c].j /\ tx'[c].now = tx[c].now
      /\ tx'[c].step = "write" /\ tx'[c].locks = tx[c].locks /\ tx'[c].seen = n
  BY <1>1, <1>2, ProceedFacts DEF TxInv
<1>5. n = Cardinality(RunningJobs(tx[c].w))'
  BY <1>4 DEF n, RunningJobs
<1>6. CASE tx[c].op = "register"
  <2>1. OwnGpus(c)' = OwnGpus(c)
    BY <1>4 DEF OwnGpus, RequestedGpus
  <2>2. (TopologyKept(c) /\ gpu_ownership_available(tx[c].w, tx[c].arg.spec))'
    BY <1>1, <1>2, <1>4, <1>6
       DEF TxInv, OwnerTx, TopologyKept, gpu_ownership_available, owns_resources, Registered
  <2>3. OwnerTx(c)'
    BY <1>1, <1>2, <1>4, <1>5, <1>6, <2>1, <2>2 DEF TxInv, OwnerTx, Registered
  <2>4. "write" \in StepsOf(tx[c].op) \ {"idle"}
    BY <1>6, Steps
  <2> QED
    BY <1>1, <1>6, <2>3, <2>4, OwnerGoesOn
<1>7. CASE tx[c].op \in {"heartbeat", "renew"}
  <2>1. BeatTx(c)'
    BY <1>1, <1>2, <1>4, <1>5, <1>7
       DEF TxInv, BeatTx, HeartbeatAllowed, Registered, assert_running
  <2> QED
    BY <1>1, <1>7, <2>1, BeatGoesOn
<1> QED
  BY <1>3, <1>6, <1>7

\* The worker row of a heartbeat is locked and checked.
LEMMA LockHeartbeatRowKeeps ==
    ASSUME IInv, PgInv, NEW c \in Connections, LockHeartbeatRow(c)
    PROVE  PgInv' /\ UNCHANGED vars
<1> DEFINE lock == {WorkerRow(tx[c].w)}
<1>1. /\ tx[c].step = "worker" /\ tx[c].op \in {"heartbeat", "renew"}
      /\ \A l \in lock : ~ Held(c, l)
  BY DEF LockHeartbeatRow, MayTake
<1>2. TxInv(c) /\ DOMAIN tx = Connections
  BY DEF PgInv
<1>3. CASE ~ HeartbeatAllowed(tx[c].w, tx[c].arg.state)
  BY <1>3, ReturnKeeps DEF LockHeartbeatRow
<1>4. CASE HeartbeatAllowed(tx[c].w, tx[c].arg.state)
  <2>1. Proceed(c, "count", lock, {})
    BY <1>4 DEF LockHeartbeatRow
  <2>2. /\ UNCHANGED <<workers, jobs, leases_issued, clock, pg_sequence>>
        /\ tx'[c].op = tx[c].op /\ tx'[c].w = tx[c].w /\ tx'[c].arg = tx[c].arg
        /\ tx'[c].j = tx[c].j /\ tx'[c].now = tx[c].now
        /\ tx'[c].step = "count" /\ tx'[c].locks = tx[c].locks \cup lock
    BY <2>1, <1>2, ProceedFacts DEF TxInv
  <2>3. BeatTx(c)'
    BY <1>1, <1>2, <1>4, <2>2 DEF TxInv, BeatTx, HeartbeatAllowed, Registered, assert_running
  <2>4. /\ \A w \in WorkerIds : WorkerRow(w) \in lock => Registered(w)
        /\ \A j \in JobIds : JobRow(j) \notin lock
    BY <1>4, LockKinds DEF HeartbeatAllowed
  <2> HIDE DEF lock
  <2> QED
    BY <1>1, <2>1, <2>3, <2>4, BeatGoesOn
<1> QED
  BY <1>3, <1>4

\* The commit of a heartbeat, with or without a renewal, is the contract's call.
LEMMA CommitHeartbeatKeeps ==
    ASSUME MaxTime <= MaxLag, IInv, PgInv, NEW c \in Connections, CommitHeartbeat(c)
    PROVE  PgInv' /\ Next
<1> DEFINE w == tx[c].w
           j == tx[c].j
           state == tx[c].arg.state
           t == tx[c].now
<1>1. /\ tx[c].step = "write" /\ tx[c].op \in {"heartbeat", "renew"}
      /\ workers' = [workers EXCEPT ![w] =
             [workers[w] EXCEPT !.state = HeartbeatState(w, state),
                                !.active_jobs = tx[c].seen, !.last_seen_at = t]]
      /\ jobs' = IF tx[c].op = "heartbeat" THEN jobs
                 ELSE [jobs EXCEPT ![j].lease_expires_at = t + LeaseSeconds]
      /\ Commit(c)
      /\ UNCHANGED <<leases_issued, clock>>
  BY DEF CommitHeartbeat
<1>2. TxInv(c) /\ Exclusive /\ DOMAIN tx = Connections
  BY DEF PgInv
<1>3. /\ w \in WorkerIds /\ state \in RequestedStates \cup {"unchanged"}
      /\ WorkerRow(w) \in tx[c].locks /\ HeartbeatAllowed(w, state)
      /\ tx[c].seen = Cardinality(RunningJobs(w))
      /\ tx[c].op = "renew" =>
            /\ j \in JobIds /\ JobRow(j) \in tx[c].locks
            /\ assert_running(j, w, tx[c].arg.token, t)
  BY <1>1, <1>2 DEF TxInv, BeatTx
<1>4. t \in Timestamps
  BY NowIsTimestamp
<1>5. workers' = [workers EXCEPT ![w] = HeartbeatRow(w, state, t)]
  BY <1>1, <1>3 DEF HeartbeatRow
<1>6. /\ workers[w] \in WorkerRecords /\ workers \in [WorkerIds -> WorkerRecords]
      /\ jobs \in [JobIds -> JobRecords] /\ leases_issued \in Nat
  BY <1>3 DEF IInv, TypeOK
<1>7. /\ workers'[w].spec = workers[w].spec
      /\ workers'[w].state = HeartbeatState(w, state)
      /\ workers'[w].active_jobs = Cardinality(RunningJobs(w))
      /\ \A v \in WorkerIds \ {w} : workers'[v] = workers[v]
  BY <1>1, <1>3, <1>6 DEF WorkerRecords
<1>8. ASSUME tx[c].op = "heartbeat"
      PROVE  Next /\ FrameJobs(c) /\ \A v : RunningJobs(v)' = RunningJobs(v)
  <2>1. jobs' = jobs
    BY <1>1, <1>8
  <2>2. heartbeat_worker(w, state, t)
    BY <1>1, <1>3, <1>5, <2>1 DEF heartbeat_worker
  <2>3. Next
    BY <1>3, <1>4, <2>2 DEF Next, WorkerCall
  <2>4. /\ \A v : RunningJobs(v)' = RunningJobs(v)
        /\ FrameJobs(c)
    BY <1>1, <2>1, SameJobsFrame DEF Commit
  <2> QED
    BY <2>3, <2>4
<1>9. ASSUME tx[c].op = "renew"
      PROVE  Next /\ FrameJobs(c) /\ \A v : RunningJobs(v)' = RunningJobs(v)
  <2> DEFINE token == tx[c].arg.token
  <2>1. jobs' = [jobs EXCEPT ![j].lease_expires_at = t + LeaseSeconds]
    BY <1>1, <1>9
  <2>2. assert_running(j, w, token, t) /\ j \in JobIds /\ JobRow(j) \in tx[c].locks
    BY <1>3, <1>9
  <2>3. heartbeat_lease(w, state, j, token, t)
    BY <1>1, <1>3, <1>5, <2>1, <2>2 DEF heartbeat_lease
  <2>4. token \in 1 .. leases_issued
    <3>1. token = jobs[j].lease_token /\ jobs[j].status = "running"
      BY <2>2 DEF assert_running
    <3>2. jobs[j].lease_token \in Nat /\ jobs[j].lease_token <= leases_issued
          /\ jobs[j].lease_token # NoToken
      BY <1>6, <2>2, <3>1 DEF IInv, LeaseConsistent, JobRecords
    <3> QED
      BY <1>6, <3>1, <3>2 DEF NoToken
  <2>5. Next
    BY <1>3, <1>4, <2>2, <2>3, <2>4 DEF Next, LeaseCall
  <2>6. /\ jobs'[j].status = jobs[j].status /\ jobs'[j].request = jobs[j].request
        /\ jobs'[j].assigned_worker_id = jobs[j].assigned_worker_id
        /\ \A k \in JobIds \ {j} : jobs'[k] = jobs[k]
    BY <1>6, <2>1, <2>2 DEF JobRecords
  <2>7. \A v : RunningJobs(v)' = RunningJobs(v)
    BY <2>6 DEF RunningJobs
  <2>8. \A k \in JobIds : (Exists(k)' <=> Exists(k)) /\ jobs'[k].request = jobs[k].request
    BY <2>6 DEF Exists
  <2>9. \A d \in Connections \ {c}, k \in JobIds : JobRow(k) \in tx[d].locks => jobs'[k] = jobs[k]
    BY <1>2, <2>2, <2>6 DEF Exclusive
  <2>10. FrameJobs(c)
    BY <1>1, <2>8, <2>9, ContractAssumption DEF FrameJobs, Commit, PgInv, SequenceAhead
  <2> QED
    BY <2>5, <2>7, <2>10
<1>10. Next /\ FrameJobs(c) /\ \A v : RunningJobs(v)' = RunningJobs(v)
  BY <1>1, <1>8, <1>9
<1>11. IInv'
  BY <1>10, NextIInv
<1>12. FrameWorkers(c)
  <2> HIDE DEF w, state
  <2>1. ASSUME NEW d \in Connections \ {c}, NEW v \in WorkerIds, WorkerRow(v) \in tx[d].locks
        PROVE  workers'[v] = workers[v]
    BY <1>2, <1>3, <1>7, <2>1 DEF Exclusive
  <2>2. Registered(w) /\ workers'[w].state # "unregistered"
    BY <1>3, <1>7, ContractAssumption
       DEF HeartbeatAllowed, HeartbeatState, Registered, WorkerStates, LiveStates
  <2>3. \A v \in WorkerIds : /\ workers'[v].spec = workers[v].spec
                             /\ ~ Registered(v) => workers'[v] = workers[v]
                             /\ Registered(v) => Registered(v)'
    BY <1>7, <2>2 DEF Registered
  <2>4. workers[w].active_jobs = Cardinality(RunningJobs(w))
    BY <1>3 DEF IInv, ActiveJobsAccurate
  <2>5. workers'[w].state # "offline" => workers[w].state # "offline"
    BY <1>3, <1>7, ContractAssumption
       DEF HeartbeatAllowed, HeartbeatState, WorkerStates, LiveStates
  <2>6. \A v \in WorkerIds : owns_resources(v)' => owns_resources(v)
    BY <1>7, <2>2, <2>4, <2>5 DEF owns_resources, Registered
  <2> QED
    BY <1>1, <1>10, <2>1, <2>3, <2>6 DEF FrameWorkers
<1>13. Ended(c) /\ pg_sequence' = pg_sequence
  BY <1>1, <1>2, CommitFacts
<1> QED
  BY <1>10, <1>11, <1>12, <1>13, EndedKeeps

-----------------------------------------------------------------------------
(* expire_stale_workers, and the claim that retires its caller             *)

\* Taking registered workers whose rows nobody else has locked OFFLINE disturbs no one.
LEMMA OfflineFrame ==
    ASSUME IInv, PgInv, NEW c \in Connections, NEW S \in SUBSET WorkerIds,
           \A w \in S : Registered(w) /\ ~ Held(c, WorkerRow(w)),
           \A w \in S : workers'[w] = [workers[w] EXCEPT !.state = "offline"],
           \A w \in WorkerIds \ S : workers'[w] = workers[w],
           UNCHANGED <<jobs, clock, pg_sequence>>
    PROVE  FrameWorkers(c) /\ FrameJobs(c)
<1>1. FrameJobs(c) /\ \A w : RunningJobs(w)' = RunningJobs(w)
  BY SameJobsFrame
<1>2. \A w \in WorkerIds : workers[w] \in WorkerRecords
  BY DEF IInv, TypeOK
<1>3. \A w \in S : /\ workers'[w].spec = workers[w].spec /\ workers'[w].state = "offline"
                   /\ workers'[w].active_jobs = workers[w].active_jobs
  BY <1>2 DEF WorkerRecords
<1>4. \A d \in Connections \ {c}, w \in WorkerIds : WorkerRow(w) \in tx[d].locks =>
         workers'[w] = workers[w]
  BY DEF Held
<1>5. \A w \in WorkerIds : /\ workers'[w].spec = workers[w].spec
                           /\ ~ Registered(w) => workers'[w] = workers[w]
                           /\ Registered(w) => Registered(w)'
  BY <1>3 DEF Registered
<1>6. \A w \in WorkerIds : owns_resources(w)' => owns_resources(w)
  BY <1>3 DEF owns_resources, Registered
<1> QED
  BY <1>1, <1>4, <1>5, <1>6 DEF FrameWorkers

\* A sweep that goes on and knows what it has to know.
LEMMA SweepGoesOn ==
    ASSUME IInv, PgInv, NEW c \in Connections, tx[c].op = "expire",
           NEW s \in {"rows", "write"}, NEW lock, NEW seen, Proceed(c, s, lock, seen),
           s = "rows" => seen \subseteq WorkerIds, \A l \in lock : ~ Held(c, l),
           \A w \in WorkerIds : WorkerRow(w) \in lock => Due(w, tx[c].now),
           \A j \in JobIds : JobRow(j) \notin lock
    PROVE  PgInv' /\ UNCHANGED vars
<1>1. TxInv(c) /\ DOMAIN tx = Connections
  BY DEF PgInv
<1>2. /\ Only(c) /\ UNCHANGED <<workers, jobs, leases_issued, clock, pg_sequence>>
      /\ DOMAIN tx'[c] = DOMAIN tx[c]
      /\ tx'[c].op = tx[c].op /\ tx'[c].now = tx[c].now
      /\ tx'[c].step = s /\ tx'[c].locks = tx[c].locks \cup lock /\ tx'[c].seen = seen
  BY <1>1, ProceedFacts DEF TxInv
<1>3. Shaped(c)'
  BY <1>1, <1>2, Steps DEF Shaped, TxInv
<1>4. HeldRows(c)'
  BY <1>1, <1>2 DEF HeldRows, TxInv, Registered, Exists, Due, LiveStates
<1>5. SweepTx(c)'
  BY <1>1, <1>2 DEF TxInv, SweepTx, Due, Stale
<1>6. TxInv(c)' /\ ~ Inserting(c)'
  BY <1>2, <1>3, <1>4, <1>5 DEF TxInv, OwnerTx, ClaimTx, BeatTx, EndTx, SubmitTx, Inserting
<1> QED
  BY <1>2, <1>6, GoesOn

\* The snapshot of the sweep's UPDATE.
LEMMA ScanWorkersKeeps ==
    ASSUME IInv, PgInv, NEW c \in Connections, ScanWorkers(c)
    PROVE  PgInv' /\ UNCHANGED vars
<1> DEFINE due == {w \in WorkerIds : Due(w, tx[c].now)}
<1>1. tx[c].step = "scan"
  BY DEF ScanWorkers
<1>2. tx[c].op = "expire"
  BY <1>1, Steps DEF PgInv, TxInv, Shaped, Opers
<1>3. CASE Return(c)
  BY <1>3, ReturnKeeps
<1>4. CASE Proceed(c, "rows", {}, due)
  <2>1. due \subseteq WorkerIds
    OBVIOUS
  <2> HIDE DEF due
  <2> QED
    BY <1>2, <1>4, <2>1, SweepGoesOn
<1> QED
  BY <1>3, <1>4 DEF ScanWorkers

\* A row of the sweep is locked, and checked again.
LEMMA LockDueRowKeeps ==
    ASSUME IInv, PgInv, NEW c \in Connections, LockDueRow(c)
    PROVE  PgInv' /\ UNCHANGED vars
<1>1. tx[c].step = "rows"
  BY DEF LockDueRow
<1>2. tx[c].op = "expire" /\ SweepTx(c)
  BY <1>1, Steps DEF PgInv, TxInv, Shaped, Opers
<1>3. PICK w \in tx[c].seen :
         /\ MayTake(c, WorkerRow(w))
         /\ Proceed(c, IF tx[c].seen = {w} THEN "write" ELSE "rows",
                    IF Due(w, tx[c].now) THEN {WorkerRow(w)} ELSE {}, tx[c].seen \ {w})
  BY DEF LockDueRow
<1> DEFINE s == IF tx[c].seen = {w} THEN "write" ELSE "rows"
           lock == IF Due(w, tx[c].now) THEN {WorkerRow(w)} ELSE {}
           seen == tx[c].seen \ {w}
<1>4. s \in {"rows", "write"} /\ seen \subseteq WorkerIds
  BY <1>1, <1>2 DEF SweepTx
<1>5. /\ \A l \in lock : ~ Held(c, l)
      /\ \A v \in WorkerIds : WorkerRow(v) \in lock => Due(v, tx[c].now)
      /\ \A j \in JobIds : JobRow(j) \notin lock
  BY <1>3, LockKinds DEF MayTake
<1>6. Proceed(c, s, lock, seen)
  BY <1>3
<1> HIDE DEF s, lock, seen
<1> QED
  BY <1>2, <1>4, <1>5, <1>6, SweepGoesOn

\* The commit of a sweep takes the rows it has locked, all of them due.
LEMMA CommitExpireKeeps ==
    ASSUME MaxTime <= MaxLag, IInv, PgInv, NEW c \in Connections, CommitExpire(c)
    PROVE  PgInv' /\ (UNCHANGED vars \/ Next)
<1> DEFINE S == {w \in WorkerIds : WorkerRow(w) \in tx[c].locks}
<1>1. /\ tx[c].step = "write" /\ tx[c].op = "expire" /\ Commit(c)
      /\ UNCHANGED <<jobs, leases_issued, clock>>
      /\ workers' = [w \in WorkerIds |-> IF w \in S
                                         THEN [workers[w] EXCEPT !.state = "offline"]
                                         ELSE workers[w]]
  BY DEF CommitExpire
<1>2. TxInv(c) /\ Exclusive /\ DOMAIN tx = Connections
  BY DEF PgInv
<1>3. \A w \in S : Due(w, tx[c].now) /\ ~ Held(c, WorkerRow(w))
  BY <1>1, <1>2 DEF TxInv, SweepTx, Exclusive, Held
<1>4. \A w \in S : workers[w].state \in LiveStates /\ Stale(workers[w], tx[c].now)
  BY <1>3 DEF Due
<1>5. tx[c].now \in Timestamps /\ S \in SUBSET WorkerIds
  BY NowIsTimestamp
<1>6. UNCHANGED vars \/ Next
  <2>1. CASE S = {}
    <3>1. workers' = workers
      BY <1>1, <2>1 DEF IInv, TypeOK
    <3> QED
      BY <1>1, <3>1 DEF vars
  <2>2. CASE S # {}
    <3>1. expire_stale_workers(S, tx[c].now)
      BY <1>1, <1>4, <2>2 DEF expire_stale_workers
    <3> QED
      BY <1>5, <3>1 DEF Next
  <2> QED
    BY <2>1, <2>2
<1>7. IInv'
  BY <1>6, NextIInv
<1>8. /\ \A w \in S : workers'[w] = [workers[w] EXCEPT !.state = "offline"]
      /\ \A w \in WorkerIds \ S : workers'[w] = workers[w]
  BY <1>1
<1>9. Ended(c) /\ pg_sequence' = pg_sequence
  BY <1>1, <1>2, CommitFacts
<1>10. \A w \in S : Registered(w)
  BY <1>4 DEF Registered, LiveStates
<1> HIDE DEF S
<1>11. FrameWorkers(c) /\ FrameJobs(c)
  BY <1>1, <1>3, <1>5, <1>8, <1>9, <1>10, OfflineFrame
<1> QED
  BY <1>6, <1>7, <1>9, <1>11, EndedKeeps

\* A claim takes its caller OFFLINE: a step of the contract, or none when another
\* transaction has done so already.
LEMMA RetireClaimerKeeps ==
    ASSUME IInv, PgInv, NEW c \in Connections, RetireClaimer(c)
    PROVE  PgInv' /\ (UNCHANGED vars \/ Next)
<1> DEFINE w == tx[c].w
<1>1. /\ tx[c].step = "retire" /\ ~ Held(c, WorkerRow(w)) /\ Commit(c)
      /\ UNCHANGED <<jobs, leases_issued, clock>>
      /\ workers' = [workers EXCEPT ![w] = [workers[w] EXCEPT !.state = "offline"]]
  BY DEF RetireClaimer, MayTake
<1>2. TxInv(c) /\ DOMAIN tx = Connections
  BY DEF PgInv
<1>3. tx[c].op = "claim"
  BY <1>1, <1>2, Steps DEF TxInv, Shaped, Opers
<1>4. w \in WorkerIds /\ Registered(w)
  BY <1>1, <1>2, <1>3 DEF TxInv, ClaimTx
<1>5. workers[w] \in WorkerRecords /\ workers \in [WorkerIds -> WorkerRecords]
  BY <1>4 DEF IInv, TypeOK
<1>6. UNCHANGED vars \/ Next
  <2>1. CASE workers[w].state \in LiveStates
    <3>1. retire_claimer(w)
      BY <1>1, <2>1 DEF retire_claimer
    <3> QED
      BY <1>4, <3>1 DEF Next
  <2>2. CASE workers[w].state = "offline"
    <3>1. [workers[w] EXCEPT !.state = "offline"] = workers[w]
      BY <1>5, <2>2 DEF WorkerRecords
    <3>2. workers' = workers
      BY <1>1, <1>5, <3>1
    <3> QED
      BY <1>1, <3>2 DEF vars
  <2> QED
    BY <1>4, <1>5, <2>1, <2>2 DEF WorkerRecords, WorkerStates, Registered
<1>7. IInv'
  BY <1>6, NextIInv
<1>8. /\ workers'[w] = [workers[w] EXCEPT !.state = "offline"]
      /\ \A v \in WorkerIds \ {w} : workers'[v] = workers[v]
  BY <1>1, <1>4, <1>5
<1>9. Ended(c) /\ pg_sequence' = pg_sequence
  BY <1>1, <1>2, CommitFacts
<1> DEFINE S == {w}
<1>10. /\ S \in SUBSET WorkerIds /\ \A v \in S : Registered(v) /\ ~ Held(c, WorkerRow(v))
       /\ \A v \in S : workers'[v] = [workers[v] EXCEPT !.state = "offline"]
       /\ \A v \in WorkerIds \ S : workers'[v] = workers[v]
  BY <1>1, <1>4, <1>8
<1> HIDE DEF S
<1>11. FrameWorkers(c) /\ FrameJobs(c)
  BY <1>1, <1>9, <1>10, OfflineFrame
<1> QED
  BY <1>6, <1>7, <1>9, <1>11, EndedKeeps

-----------------------------------------------------------------------------
(* claim_next_job                                                          *)

\* A step that writes one job and the active_jobs of one worker, both locked or free,
\* disturbs no one.
LEMMA OneJobFrame ==
    ASSUME IInv, PgInv, NEW c \in Connections, NEW j \in JobIds, NEW w \in WorkerIds,
           ~ Held(c, JobRow(j)), ~ Held(c, WorkerRow(w)),
           Exists(j), jobs'[j].status # "none", jobs'[j].request = jobs[j].request,
           \A k \in JobIds \ {j} : jobs'[k] = jobs[k],
           \A v \in WorkerIds \ {w} : /\ workers'[v] = workers[v]
                                      /\ (j \in RunningJobs(v)') <=> (j \in RunningJobs(v)),
           workers'[w].spec = workers[w].spec, workers'[w].state = workers[w].state,
           Registered(w), owns_resources(w)' => owns_resources(w),
           UNCHANGED <<clock, pg_sequence>>
    PROVE  FrameWorkers(c) /\ FrameJobs(c)
<1>1. \A v \in WorkerIds \ {w} : RunningJobs(v)' = RunningJobs(v)
  BY DEF RunningJobs
<1>2. \A d \in Connections \ {c} : WorkerRow(w) \notin tx[d].locks /\ JobRow(j) \notin tx[d].locks
  BY DEF Held
<1>3. \A d \in Connections \ {c}, v \in WorkerIds : WorkerRow(v) \in tx[d].locks =>
         workers'[v] = workers[v] /\ RunningJobs(v)' = RunningJobs(v)
  BY <1>1, <1>2
<1>4. \A v \in WorkerIds : /\ workers'[v].spec = workers[v].spec
                           /\ ~ Registered(v) => workers'[v] = workers[v]
                           /\ Registered(v) => Registered(v)'
  BY DEF Registered
<1>5. \A v \in WorkerIds : owns_resources(v)' => owns_resources(v)
  BY DEF owns_resources, Registered
<1>6. FrameWorkers(c)
  BY <1>3, <1>4, <1>5 DEF FrameWorkers
<1>7. \A k \in JobIds : (Exists(k)' <=> Exists(k)) /\ jobs'[k].request = jobs[k].request
  BY DEF Exists
<1>8. pg_sequence \in Nat
  BY ContractAssumption DEF PgInv, SequenceAhead
<1> QED
  BY <1>2, <1>6, <1>7, <1>8 DEF FrameJobs

\* A claim that goes on, with the job it has locked, if any.
LEMMA ClaimGoesOn ==
    ASSUME IInv, PgInv, NEW c \in Connections, tx[c].op = "claim", Only(c),
           UNCHANGED <<workers, jobs, leases_issued, clock, pg_sequence>>,
           DOMAIN tx'[c] = DOMAIN tx[c], tx'[c].op = "claim", tx'[c].now = tx[c].now,
           tx'[c].step \in {"retire", "select", "worker"}, ClaimTx(c)',
           NEW lock, tx'[c].locks = tx[c].locks \cup lock, \A l \in lock : ~ Held(c, l),
           \A w \in WorkerIds : WorkerRow(w) \notin lock,
           \A j \in JobIds : JobRow(j) \in lock => Exists(j)
    PROVE  PgInv' /\ UNCHANGED vars
<1>1. TxInv(c)
  BY DEF PgInv
<1>2. Shaped(c)'
  BY <1>1, Steps DEF Shaped, TxInv
<1>3. HeldRows(c)'
  BY <1>1 DEF HeldRows, TxInv, Registered, Exists
<1>4. TxInv(c)' /\ ~ Inserting(c)'
  BY <1>2, <1>3 DEF TxInv, OwnerTx, BeatTx, EndTx, SweepTx, SubmitTx, Inserting
<1> QED
  BY <1>4, GoesOn

\* The first SELECT of a claim.
LEMMA ReadClaimerKeeps ==
    ASSUME IInv, PgInv, NEW c \in Connections, ReadClaimer(c)
    PROVE  PgInv' /\ UNCHANGED vars
<1>1. tx[c].step = "read"
  BY DEF ReadClaimer
<1>2. TxInv(c) /\ DOMAIN tx = Connections
  BY DEF PgInv
<1>3. tx[c].op = "claim"
  BY <1>1, <1>2, Steps DEF TxInv, Shaped, Opers
<1>4. ASSUME NEW s \in {"retire", "select"}, NEW seen, Proceed(c, s, {}, seen),
             s = "retire" => Registered(tx[c].w)
      PROVE  PgInv' /\ UNCHANGED vars
  <2>1. /\ Only(c) /\ UNCHANGED <<workers, jobs, leases_issued, clock, pg_sequence>>
        /\ DOMAIN tx'[c] = DOMAIN tx[c]
        /\ tx'[c].op = tx[c].op /\ tx'[c].now = tx[c].now /\ tx'[c].w = tx[c].w
        /\ tx'[c].step = s /\ tx'[c].locks = tx[c].locks \cup {}
    BY <1>2, <1>4, ProceedFacts DEF TxInv
  <2>2. ClaimTx(c)'
    BY <1>2, <1>3, <1>4, <2>1 DEF TxInv, ClaimTx, Registered
  <2> QED
    BY <1>3, <1>4, <2>1, <2>2, ClaimGoesOn
<1>5. CASE Return(c)
  BY <1>5, ReturnKeeps
<1>6. CASE Proceed(c, "retire", {}, {}) /\ workers[tx[c].w].state # "unregistered"
  BY <1>4, <1>6 DEF Registered
<1>7. CASE Proceed(c, "select", {}, workers[tx[c].w].spec)
  BY <1>4, <1>7
<1> QED
  BY <1>5, <1>6, <1>7 DEF ReadClaimer

\* The claim query locks a job that can be claimed.
LEMMA SelectJobKeeps ==
    ASSUME IInv, PgInv, NEW c \in Connections, SelectJob(c)
    PROVE  PgInv' /\ UNCHANGED vars
<1>1. tx[c].step = "select"
  BY DEF SelectJob
<1>2. TxInv(c) /\ DOMAIN tx = Connections
  BY DEF PgInv
<1>3. tx[c].op = "claim"
  BY <1>1, <1>2, Steps DEF TxInv, Shaped, Opers
<1>4. CASE Return(c)
  BY <1>4, ReturnKeeps
<1>5. ASSUME NEW j \in Claimable(c),
             tx' = [tx EXCEPT ![c].step = "worker", ![c].locks = @ \cup {JobRow(j)}, ![c].j = j],
             UNCHANGED <<workers, jobs, leases_issued, clock, pg_sequence>>
      PROVE  PgInv' /\ UNCHANGED vars
  <2>1. /\ Only(c) /\ DOMAIN tx'[c] = DOMAIN tx[c]
        /\ tx'[c].op = tx[c].op /\ tx'[c].now = tx[c].now /\ tx'[c].w = tx[c].w
        /\ tx'[c].step = "worker" /\ tx'[c].locks = tx[c].locks \cup {JobRow(j)} /\ tx'[c].j = j
    BY <1>2, <1>5 DEF TxInv, Shaped, Only
  <2>2. /\ j \in JobIds /\ jobs[j].status = "queued" /\ jobs[j].available_at <= tx[c].now
        /\ jobs[j].attempts < jobs[j].request.max_attempts /\ ~ Held(c, JobRow(j))
    BY <1>5 DEF Claimable
  <2>3. ClaimTx(c)'
    BY <1>2, <1>3, <1>5, <2>1, <2>2 DEF TxInv, ClaimTx
  <2> DEFINE lock == {JobRow(j)}
  <2>4. /\ \A w \in WorkerIds : WorkerRow(w) \notin lock
        /\ \A k \in JobIds : JobRow(k) \in lock => Exists(k)
        /\ \A l \in lock : ~ Held(c, l)
    BY <2>2, LockKinds DEF Exists
  <2>5. tx'[c].locks = tx[c].locks \cup lock
    BY <2>1
  <2> HIDE DEF lock
  <2> QED
    BY <1>3, <1>5, <2>1, <2>3, <2>4, <2>5, ClaimGoesOn
<1> QED
  BY <1>4, <1>5 DEF SelectJob

\* The commit of a claim is the contract's claim, of the worker row it has locked.
LEMMA CommitClaimKeeps ==
    ASSUME MaxTime <= MaxLag, IInv, PgInv, NEW c \in Connections, CommitClaim(c)
    PROVE  PgInv' /\ (UNCHANGED vars \/ Next)
<1>1. CASE ~ StillClaiming(c)
  BY <1>1, ReturnKeeps DEF CommitClaim
<1>2. CASE StillClaiming(c)
  <2> DEFINE w == tx[c].w
             j == tx[c].j
             t == tx[c].now
             new == [jobs[j] EXCEPT !.status = "running", !.attempts = @ + 1,
                        !.assigned_worker_id = w, !.lease_token = leases_issued + 1,
                        !.lease_expires_at = t + LeaseSeconds, !.error = "none"]
  <2>1. /\ tx[c].step = "worker" /\ tx[c].op = "claim" /\ ~ Held(c, WorkerRow(w))
        /\ jobs' = [jobs EXCEPT ![j] = new]
        /\ workers' = [workers EXCEPT ![w].active_jobs = @ + 1]
        /\ leases_issued' = leases_issued + 1
        /\ Commit(c) /\ UNCHANGED clock
    BY <1>2 DEF CommitClaim, MayTake
  <2>2. TxInv(c) /\ Exclusive /\ DOMAIN tx = Connections
    BY DEF PgInv
  <2>3. /\ w \in WorkerIds /\ j \in JobIds /\ JobRow(j) \in tx[c].locks
        /\ jobs[j].status = "queued" /\ jobs[j].available_at <= t
        /\ jobs[j].attempts < jobs[j].request.max_attempts
    BY <2>1, <2>2 DEF TxInv, ClaimTx
  <2>4. Claiming(w, t) /\ eligible(j, w, t)
    BY <1>2, <2>3 DEF StillClaiming, eligible
  <2>5. t \in Timestamps
    BY NowIsTimestamp
  <2>6. claim_next_job(j, w, t)
    BY <2>1, <2>4 DEF claim_next_job
  <2>7. Next
    BY <2>3, <2>5, <2>6 DEF Next
  <2>8. IInv'
    BY <2>7, NextIInv
  <2>9. /\ workers \in [WorkerIds -> WorkerRecords] /\ jobs \in [JobIds -> JobRecords]
        /\ workers[w] \in WorkerRecords /\ jobs[j] \in JobRecords
    BY <2>3 DEF IInv, TypeOK
  <2>10. /\ new.status = "running" /\ new.request = jobs[j].request
         /\ new.assigned_worker_id = w
    BY <2>9 DEF JobRecords
  <2>11. /\ workers'[w].spec = workers[w].spec /\ workers'[w].state = workers[w].state
         /\ \A v \in WorkerIds \ {w} : workers'[v] = workers[v]
    BY <2>1, <2>3, <2>9 DEF WorkerRecords
  <2> HIDE DEF new
  <2>12. jobs'[j] = new /\ \A k \in JobIds \ {j} : jobs'[k] = jobs[k]
    BY <2>1, <2>3, <2>9
  <2>13. \A v \in WorkerIds \ {w} : j \notin RunningJobs(v) /\ ~ (jobs'[j].assigned_worker_id = v)
    BY <2>3, <2>10, <2>12 DEF RunningJobs
  <2>14. owns_resources(w)
    BY <2>4 DEF Claiming, owns_resources, Registered
  <2>15. Ended(c) /\ pg_sequence' = pg_sequence
    BY <2>1, <2>2, CommitFacts
  <2> HIDE DEF w, j, t
  <2>16. ASSUME NEW k, k = j, NEW u, u = w PROVE FrameWorkers(c) /\ FrameJobs(c)
    <3>1. ~ Held(c, JobRow(k)) /\ ~ Held(c, WorkerRow(u))
      BY <2>1, <2>2, <2>3, <2>16 DEF Exclusive, Held
    <3>2. Exists(k) /\ jobs'[k].status # "none" /\ jobs'[k].request = jobs[k].request
      BY <2>3, <2>10, <2>12, <2>16 DEF Exists
    <3>3. \A v \in WorkerIds \ {u} : (k \in RunningJobs(v)') <=> (k \in RunningJobs(v))
      BY <2>13, <2>16 DEF RunningJobs
    <3> QED
      BY <2>1, <2>3, <2>11, <2>12, <2>14, <2>15, <2>16, <3>1, <3>2, <3>3, OneJobFrame
         DEF owns_resources
  <2> QED
    BY <2>7, <2>8, <2>15, <2>16, EndedKeeps
<1> QED
  BY <1>1, <1>2

-----------------------------------------------------------------------------
(* Least elements                                                          *)

\* A set of integers with a lower bound has a least element, and LeastOf is it.
LEMMA LeastOfBounded ==
    ASSUME NEW low \in Int, NEW S, S \subseteq Int, \A k \in S : low <= k, S # {}
    PROVE  LeastOf(S) \in S /\ \A y \in S : LeastOf(S) <= y
<1> DEFINE T == {k - low : k \in S}
           R == OpToRel(<, Nat)
<1>0. \A k \in S : k \in Int /\ low <= k /\ k - low \in Nat
  OBVIOUS
<1>1. T \subseteq Nat /\ T # {}
  BY <1>0
<1>2. IsWellFoundedOn(R, Nat)
  BY NatLessThanWellFounded
<1>3. PICK x \in T : \A y \in T : ~ (<<y, x>> \in R)
  <2> HIDE DEF R, T
  <2> QED
    BY <1>1, <1>2, WFMin
<1>4. \A y \in T : x <= y
  <2> SUFFICES ASSUME NEW y \in T PROVE x <= y
    OBVIOUS
  <2>1. <<y, x>> \notin R
    BY <1>3
  <2>2. x \in Nat /\ y \in Nat
    BY <1>1
  <2>3. ~ (y < x)
    BY <2>1, <2>2 DEF OpToRel
  <2> QED
    BY <2>2, <2>3
<1>5. PICK k \in S : x = k - low
  BY <1>3
<1>6. \A y \in S : k <= y
  <2> SUFFICES ASSUME NEW y \in S PROVE k <= y
    OBVIOUS
  <2>1. y - low \in T
    OBVIOUS
  <2>2. k - low <= y - low
    BY <1>4, <1>5, <2>1
  <2>3. k \in Int /\ y \in Int
    BY <1>0
  <2> HIDE DEF T
  <2> QED
    BY <2>2, <2>3
<1>7. \E z \in S : \A y \in S : z <= y
  BY <1>6
<1> QED
  BY <1>7 DEF LeastOf

\* The least of some jobs is one of them.
LEMMA LeastIsMember ==
    ASSUME NEW S, S \subseteq JobIds, S # {}
    PROVE  LeastOf(S) \in S
<1>1. S \subseteq Int /\ (\A k \in S : 1 <= k) /\ 1 \in Int
  BY DEF JobIds
<1> QED
  BY <1>1, LeastOfBounded

-----------------------------------------------------------------------------
(* The end of an attempt                                                   *)

\* The end of a job that does not run gives no capacity back.
LEMMA ReleaseNone ==
    ASSUME TypeOK, NEW j \in JobIds, jobs[j].status # "running", workers' = workers
    PROVE  release_worker_capacity({j})
<1> DEFINE n(w) == Cardinality({j} \cap RunningJobs(w))
           new(w) == [workers[w] EXCEPT !.active_jobs = IF @ > n(w) THEN @ - n(w) ELSE 0]
<1>1. workers \in [WorkerIds -> WorkerRecords]
  BY DEF TypeOK
<1>2. ASSUME NEW w \in WorkerIds PROVE new(w) = workers[w]
  <2>1. {j} \cap RunningJobs(w) = {}
    BY DEF RunningJobs
  <2>2. n(w) = 0
    BY <2>1, FS_EmptySet
  <2> HIDE DEF n
  <2>3. workers[w] \in WorkerRecords /\ workers[w].active_jobs \in Nat
    BY <1>1 DEF WorkerRecords
  <2>4. (IF workers[w].active_jobs > n(w) THEN workers[w].active_jobs - n(w) ELSE 0)
           = workers[w].active_jobs
    BY <2>2, <2>3
  <2>5. new(w) = [workers[w] EXCEPT !.active_jobs = workers[w].active_jobs]
    BY <2>4
  <2> QED
    BY <2>3, <2>5 DEF WorkerRecords
<1> HIDE DEF n, new
<1>3. workers' = [w \in WorkerIds |-> new(w)]
  BY <1>1, <1>2
<1> QED
  BY <1>3 DEF release_worker_capacity, n, new

\* The decrement of one worker is what the contract gives back for its job.
LEMMA ReleaseOne ==
    ASSUME TypeOK, NEW j \in JobIds, NEW w \in WorkerIds, jobs[j].status = "running",
           jobs[j].assigned_worker_id = w, decrement_worker(w)
    PROVE  release_worker_capacity({j})
<1> DEFINE n(v) == Cardinality({j} \cap RunningJobs(v))
           new(v) == [workers[v] EXCEPT !.active_jobs = IF @ > n(v) THEN @ - n(v) ELSE 0]
<1>1. workers \in [WorkerIds -> WorkerRecords]
  BY DEF TypeOK
<1>2. /\ workers' \in [WorkerIds -> WorkerRecords]
      /\ workers'[w] = [workers[w] EXCEPT !.active_jobs = IF @ > 1 THEN @ - 1 ELSE 0]
      /\ \A v \in WorkerIds \ {w} : workers'[v] = workers[v]
  BY <1>1 DEF decrement_worker, WorkerRecords
<1>3. new(w) = workers'[w]
  <2>1. {j} \cap RunningJobs(w) = {j}
    BY DEF RunningJobs
  <2>2. n(w) = 1
    BY <2>1, FS_Singleton
  <2> HIDE DEF n
  <2> QED
    BY <1>2, <2>2
<1>4. ASSUME NEW v \in WorkerIds \ {w} PROVE new(v) = workers'[v]
  <2>1. {j} \cap RunningJobs(v) = {}
    BY <1>4 DEF RunningJobs
  <2>2. n(v) = 0
    BY <2>1, FS_EmptySet
  <2> HIDE DEF n
  <2>3. workers[v] \in WorkerRecords /\ workers[v].active_jobs \in Nat
    BY <1>1 DEF WorkerRecords
  <2>4. (IF workers[v].active_jobs > n(v) THEN workers[v].active_jobs - n(v) ELSE 0)
           = workers[v].active_jobs
    BY <2>2, <2>3
  <2>5. new(v) = [workers[v] EXCEPT !.active_jobs = workers[v].active_jobs]
    BY <2>4
  <2> QED
    BY <1>2, <2>3, <2>5 DEF WorkerRecords
<1> HIDE DEF n, new
<1>5. workers' = [v \in WorkerIds |-> new(v)]
  BY <1>2, <1>3, <1>4
<1> QED
  BY <1>5 DEF release_worker_capacity, n, new

\* A call on a job or a recovery that has locked a running job and waits for its worker.
LEMMA WaitsForWorker ==
    ASSUME IInv, PgInv, NEW c \in Connections, Only(c),
           UNCHANGED <<workers, jobs, leases_issued, clock, pg_sequence>>,
           DOMAIN tx'[c] = DOMAIN tx[c], tx'[c].op = tx[c].op, tx'[c].now = tx[c].now,
           tx'[c].arg = tx[c].arg, tx'[c].step = "worker",
           tx[c].op \in {"renew", "complete", "fail", "cancel", "recover"},
           NEW j \in JobIds, tx'[c].j = j, ~ Held(c, JobRow(j)), jobs[j].status = "running",
           JobRow(j) \in tx'[c].locks, tx'[c].locks \subseteq tx[c].locks \cup {JobRow(j)},
           tx'[c].w = jobs[j].assigned_worker_id,
           tx[c].op \in {"renew", "complete", "fail"} =>
              assert_running(j, tx[c].w, tx[c].arg.token, tx[c].now),
           tx[c].op = "recover" => LeaseExpired(j, tx[c].now)
    PROVE  PgInv' /\ UNCHANGED vars
<1>1. TxInv(c)
  BY DEF PgInv
<1>2. Shaped(c)'
  BY <1>1, Steps DEF Shaped, TxInv
<1>3. HeldRows(c)'
  BY <1>1, LockKinds DEF HeldRows, TxInv, Registered, Exists
<1>4. tx[c].op \in {"renew", "complete", "fail"} => tx'[c].w = tx[c].w
  BY DEF assert_running
<1>5. BeatTx(c)'
  BY <1>1, <1>4 DEF TxInv, BeatTx, assert_running
<1>6. EndTx(c)'
  BY <1>1, <1>4 DEF TxInv, EndTx, assert_running, LeaseExpired
<1>7. TxInv(c)' /\ ~ Inserting(c)'
  BY <1>2, <1>3, <1>5, <1>6 DEF TxInv, OwnerTx, ClaimTx, SweepTx, SubmitTx, Inserting
<1> QED
  BY <1>7, GoesOn

\* The job of a call is locked and checked; a queued job is cancelled at once.
LEMMA LockJobKeeps ==
    ASSUME IInv, PgInv, NEW c \in Connections, LockJob(c)
    PROVE  PgInv' /\ (UNCHANGED vars \/ Next)
<1>1. tx[c].step = "job" /\ ~ Held(c, JobRow(tx[c].j))
  BY DEF LockJob, MayTake
<1>2. TxInv(c) /\ DOMAIN tx = Connections
  BY DEF PgInv
<1>3. tx[c].op \in {"renew", "complete", "fail", "cancel"}
  BY <1>1, <1>2, Steps DEF TxInv, Shaped, Opers
<1>4. tx[c].j \in JobIds
  BY <1>2, <1>3 DEF TxInv, BeatTx, EndTx
<1>5. PICK j \in JobIds : j = tx[c].j
  BY <1>4
<1>6. CASE Return(c)
  BY <1>6, ReturnKeeps
<1>7. CASE /\ JobAllows(c) /\ jobs[j].status = "queued" /\ Commit(c)
           /\ jobs' = [jobs EXCEPT ![j] = Cancelled(j)]
           /\ UNCHANGED <<workers, leases_issued, clock>>
  <2>1. TypeOK /\ jobs[j] \in JobRecords /\ jobs \in [JobIds -> JobRecords]
    BY DEF IInv, TypeOK
  <2>2. release_worker_capacity({j})
    BY <1>7, <2>1, ReleaseNone
  <2>3. cancel_job(j)
    BY <1>7, <2>2 DEF cancel_job, Cancelled
  <2>4. Next
    BY <2>3 DEF Next
  <2>5. IInv'
    BY <2>4, NextIInv
  <2>6. Cancelled(j).status = "cancelled" /\ Cancelled(j).request = jobs[j].request
    BY <2>1 DEF Cancelled, Unleased, JobRecords
  <2>7. jobs'[j] = Cancelled(j) /\ \A k \in JobIds \ {j} : jobs'[k] = jobs[k]
    BY <1>7, <2>1
  <2>8. \A w : RunningJobs(w)' = RunningJobs(w)
    BY <1>7, <2>6, <2>7 DEF RunningJobs
  <2>9. FrameWorkers(c)
    BY <1>7, <2>8 DEF FrameWorkers, Registered, owns_resources
  <2>10. Ended(c) /\ pg_sequence' = pg_sequence
    BY <1>2, <1>7, CommitFacts
  <2>11. \A k \in JobIds : (Exists(k)' <=> Exists(k)) /\ jobs'[k].request = jobs[k].request
    BY <1>7, <2>6, <2>7 DEF Exists
  <2>12. FrameJobs(c)
    BY <1>1, <1>5, <1>7, <2>7, <2>10, <2>11, ContractAssumption
       DEF FrameJobs, Held, PgInv, SequenceAhead
  <2> QED
    BY <2>4, <2>5, <2>9, <2>10, <2>12, EndedKeeps
<1>8. CASE /\ JobAllows(c) /\ jobs[j].status = "running"
           /\ tx' = [tx EXCEPT ![c].step = "worker", ![c].locks = @ \cup {JobRow(j)},
                               ![c].w = jobs[j].assigned_worker_id]
           /\ UNCHANGED <<workers, jobs, leases_issued, clock, pg_sequence>>
  <2>1. /\ Only(c) /\ DOMAIN tx'[c] = DOMAIN tx[c]
        /\ tx'[c].op = tx[c].op /\ tx'[c].now = tx[c].now /\ tx'[c].arg = tx[c].arg
        /\ tx'[c].j = j /\ tx'[c].w = jobs[j].assigned_worker_id
        /\ tx'[c].step = "worker" /\ tx'[c].locks = tx[c].locks \cup {JobRow(j)}
    BY <1>2, <1>5, <1>8 DEF TxInv, Shaped, Only
  <2>2. tx[c].op # "cancel" => assert_running(j, tx[c].w, tx[c].arg.token, tx[c].now)
    BY <1>5, <1>8 DEF JobAllows
  <2>3. ~ Held(c, JobRow(j)) /\ tx[c].op # "recover"
    BY <1>1, <1>3, <1>5
  <2>4. /\ JobRow(j) \in tx'[c].locks /\ tx'[c].locks \subseteq tx[c].locks \cup {JobRow(j)}
        /\ jobs[j].status = "running"
    BY <1>8, <2>1
  <2> QED
    BY <1>3, <1>8, <2>1, <2>2, <2>3, <2>4, WaitsForWorker
<1> QED
  BY <1>5, <1>6, <1>7, <1>8 DEF LockJob

\* recover_expired_jobs locks an expired job.
LEMMA PickExpiredKeeps ==
    ASSUME IInv, PgInv, NEW c \in Connections, PickExpired(c)
    PROVE  PgInv' /\ UNCHANGED vars
<1> DEFINE expired == {j \in JobIds : LeaseExpired(j, tx[c].now) /\ ~ Held(c, JobRow(j))}
<1>1. tx[c].step = "pick"
  BY DEF PickExpired
<1>2. TxInv(c) /\ DOMAIN tx = Connections
  BY DEF PgInv
<1>3. tx[c].op = "recover"
  BY <1>1, <1>2, Steps DEF TxInv, Shaped, Opers
<1>4. CASE expired = {}
  BY <1>4, ReturnKeeps DEF PickExpired
<1>5. CASE expired # {}
  <2>1. LeastOf(expired) \in expired
    BY <1>5, LeastIsMember
  <2>2. PICK j \in expired : j = LeastOf(expired)
    BY <2>1
  <2>3. /\ tx' = [tx EXCEPT ![c].step = "worker", ![c].j = j, ![c].locks = {JobRow(j)},
                            ![c].w = jobs[j].assigned_worker_id]
        /\ UNCHANGED <<workers, jobs, leases_issued, clock, pg_sequence>>
    BY <1>5, <2>2 DEF PickExpired
  <2>4. j \in JobIds /\ LeaseExpired(j, tx[c].now) /\ ~ Held(c, JobRow(j))
    OBVIOUS
  <2>5. jobs[j].status = "running"
    BY <2>4 DEF LeaseExpired
  <2>6. /\ Only(c) /\ DOMAIN tx'[c] = DOMAIN tx[c]
        /\ tx'[c].op = tx[c].op /\ tx'[c].now = tx[c].now /\ tx'[c].arg = tx[c].arg
        /\ tx'[c].j = j /\ tx'[c].w = jobs[j].assigned_worker_id
        /\ tx'[c].step = "worker" /\ tx'[c].locks = {JobRow(j)}
    BY <1>2, <2>3 DEF TxInv, Shaped, Only
  <2>7. JobRow(j) \in tx'[c].locks /\ tx'[c].locks \subseteq tx[c].locks \cup {JobRow(j)}
    BY <2>6
  <2> QED
    BY <1>3, <2>3, <2>4, <2>5, <2>6, <2>7, WaitsForWorker
<1> QED
  BY <1>4, <1>5

\* What a call writes to its job is a step of the contract, with the capacity given back.
LEMMA EndIsContract ==
    ASSUME MaxTime <= MaxLag, IInv, PgInv, NEW c \in Connections, CommitEnd(c),
           NEW j \in JobIds, NEW w \in WorkerIds, tx[c].j = j, tx[c].w = w, EndTx(c)
    PROVE  /\ Next
           /\ EndedJob(c).status \notin {"none", "running"}
           /\ EndedJob(c).request = jobs[j].request
<1> DEFINE t == tx[c].now
           token == tx[c].arg.token
<1>1. /\ tx[c].step = "worker" /\ tx[c].op \in {"complete", "fail", "cancel", "recover"}
      /\ jobs' = [jobs EXCEPT ![j] = EndedJob(c)] /\ decrement_worker(w)
      /\ UNCHANGED <<leases_issued, clock>>
  BY DEF CommitEnd
<1>2. /\ jobs[j].status = "running" /\ w = jobs[j].assigned_worker_id
      /\ tx[c].op \in {"complete", "fail"} => assert_running(j, w, token, t)
      /\ tx[c].op = "fail" => tx[c].arg.retryable \in BOOLEAN
      /\ tx[c].op = "recover" => LeaseExpired(j, t)
  BY <1>1 DEF EndTx
<1>3. TypeOK /\ jobs[j] \in JobRecords /\ jobs \in [JobIds -> JobRecords] /\ leases_issued \in Nat
  BY DEF IInv, TypeOK
<1>4. release_worker_capacity({j})
  BY <1>1, <1>2, <1>3, ReleaseOne
<1>5. t \in Timestamps /\ t \in Nat
  BY NowIsTimestamp
<1>6. tx[c].op \in {"complete", "fail"} => token \in 1 .. leases_issued
  <2>1. jobs[j].lease_token \in Nat /\ jobs[j].lease_token <= leases_issued
        /\ jobs[j].lease_token # NoToken
    BY <1>2, <1>3 DEF IInv, LeaseConsistent, JobRecords
  <2>2. jobs[j].lease_token \in 1 .. leases_issued
    BY <1>3, <2>1 DEF NoToken
  <2> QED
    BY <1>2, <2>2 DEF assert_running
<1>7. CASE tx[c].op = "complete"
  <2>1. EndedJob(c) = [Unleased(jobs[j]) EXCEPT !.status = "succeeded", !.result = token,
                                                !.error = "none"]
    BY <1>7 DEF EndedJob
  <2>2. complete_job(j, w, token, t)
    BY <1>1, <1>2, <1>4, <1>7, <2>1 DEF complete_job
  <2>3. Next
    BY <1>5, <1>6, <1>7, <2>2 DEF Next, LeaseCall
  <2> QED
    BY <1>3, <2>1, <2>3 DEF Unleased, JobRecords
<1>8. CASE tx[c].op = "fail"
  <2> DEFINE retryable == tx[c].arg.retryable
  <2>1. EndedJob(c) = EndAttempt(jobs[j], retryable, t)
    BY <1>8 DEF EndedJob
  <2>2. fail_job(j, w, token, retryable, t)
    BY <1>1, <1>2, <1>4, <1>8, <2>1 DEF fail_job
  <2>3. Next
    BY <1>2, <1>5, <1>6, <1>8, <2>2 DEF Next, LeaseCall
  <2>4. retryable \in BOOLEAN
    BY <1>2, <1>8
  <2> QED
    BY <1>3, <1>5, <2>1, <2>3, <2>4, EndAttemptFacts
<1>9. CASE tx[c].op = "cancel"
  <2>1. EndedJob(c) = [Unleased(jobs[j]) EXCEPT !.status = "cancelled"]
    BY <1>9 DEF EndedJob, Cancelled
  <2>2. cancel_job(j)
    BY <1>1, <1>2, <1>4, <2>1 DEF cancel_job
  <2>3. Next
    BY <2>2 DEF Next
  <2> QED
    BY <1>3, <2>1, <2>3 DEF Unleased, JobRecords
<1>10. CASE tx[c].op = "recover"
  <2>1. EndedJob(c) = EndAttempt(jobs[j], TRUE, t)
    BY <1>10 DEF EndedJob
  <2>2. LeaseExpired(j, t)
    BY <1>2, <1>10
  <2> HIDE DEF t
  <2>3. jobs' = [k \in JobIds |-> IF k \in {j} THEN EndAttempt(jobs[k], TRUE, t) ELSE jobs[k]]
    BY <1>1, <1>3, <2>1
  <2>4. recover_expired_jobs({j}, t)
    BY <1>1, <1>4, <2>2, <2>3 DEF recover_expired_jobs
  <2>5. {j} \in SUBSET JobIds
    OBVIOUS
  <2>6. Next
    BY <1>5, <2>4, <2>5 DEF Next
  <2> QED
    BY <1>3, <2>1, <2>6 DEF EndAttempt, Unleased, JobRecords
<1> QED
  BY <1>1, <1>7, <1>8, <1>9, <1>10

\* The next round of recover_expired_jobs holds and knows nothing.
LEMMA NextRound ==
    ASSUME IInv, PgInv, NEW c \in Connections, clock' = clock,
           tx'[c] = [Idle EXCEPT !.op = "recover", !.step = "pick", !.now = tx[c].now]
    PROVE  TxInv(c)' /\ tx'[c].locks = {} /\ ~ Inserting(c)'
<1>1. tx[c].now \in Nat /\ tx[c].now <= clock
  BY DEF PgInv, TxInv, Shaped
<1>2. /\ DOMAIN tx'[c] = {"op", "w", "j", "arg", "step", "now", "locks", "seen"}
      /\ tx'[c].op = "recover" /\ tx'[c].step = "pick" /\ tx'[c].locks = {}
      /\ tx'[c].now = tx[c].now
  BY DEF Idle
<1>3. Shaped(c)'
  BY <1>1, <1>2, Steps DEF Shaped, Opers
<1>4. HeldRows(c)'
  BY <1>2 DEF HeldRows
<1>5. OwnerTx(c)' /\ ClaimTx(c)' /\ BeatTx(c)' /\ EndTx(c)' /\ SweepTx(c)' /\ SubmitTx(c)'
  BY <1>2 DEF OwnerTx, ClaimTx, BeatTx, EndTx, SweepTx, SubmitTx
<1> QED
  BY <1>2, <1>3, <1>4, <1>5 DEF TxInv, Inserting

\* The commit of the end of an attempt.
LEMMA CommitEndKeeps ==
    ASSUME MaxTime <= MaxLag, IInv, PgInv, NEW c \in Connections, CommitEnd(c)
    PROVE  PgInv' /\ Next
<1>1. /\ tx[c].step = "worker" /\ tx[c].op \in {"complete", "fail", "cancel", "recover"}
      /\ ~ Held(c, WorkerRow(tx[c].w))
      /\ jobs' = [jobs EXCEPT ![tx[c].j] = EndedJob(c)] /\ decrement_worker(tx[c].w)
      /\ tx' = [tx EXCEPT ![c] = IF tx[c].op = "recover"
                                 THEN [Idle EXCEPT !.op = "recover", !.step = "pick",
                                                   !.now = tx[c].now]
                                 ELSE Idle]
      /\ UNCHANGED <<leases_issued, clock, pg_sequence>>
  BY DEF CommitEnd, MayTake
<1>2. TxInv(c) /\ Exclusive /\ DOMAIN tx = Connections
  BY DEF PgInv
<1>3. /\ tx[c].j \in JobIds /\ JobRow(tx[c].j) \in tx[c].locks
      /\ jobs[tx[c].j].status = "running" /\ tx[c].w = jobs[tx[c].j].assigned_worker_id
  BY <1>1, <1>2 DEF TxInv, EndTx
<1>4. tx[c].w \in WorkerIds /\ Registered(tx[c].w)
  BY <1>3 DEF IInv, LeaseConsistent
<1>5. PICK j \in JobIds : j = tx[c].j
  BY <1>3
<1>6. PICK w \in WorkerIds : w = tx[c].w
  BY <1>4
<1>7. /\ Next
      /\ EndedJob(c).status \notin {"none", "running"}
      /\ EndedJob(c).request = jobs[j].request
  BY <1>2, <1>5, <1>6, EndIsContract DEF TxInv
<1>8. IInv'
  BY <1>7, NextIInv
<1>9. /\ workers \in [WorkerIds -> WorkerRecords] /\ jobs \in [JobIds -> JobRecords]
      /\ workers[w] \in WorkerRecords
  BY DEF IInv, TypeOK
<1>10. jobs'[j] = EndedJob(c) /\ \A k \in JobIds \ {j} : jobs'[k] = jobs[k]
  BY <1>1, <1>5, <1>9
<1>11. /\ workers'[w].spec = workers[w].spec /\ workers'[w].state = workers[w].state
       /\ workers'[w].active_jobs > 0 => workers[w].active_jobs > 0
       /\ \A v \in WorkerIds \ {w} : workers'[v] = workers[v]
  BY <1>1, <1>6, <1>9 DEF decrement_worker, WorkerRecords
<1>12. \A v \in WorkerIds \ {w} : (j \in RunningJobs(v)') <=> (j \in RunningJobs(v))
  BY <1>3, <1>5, <1>6, <1>7, <1>10 DEF RunningJobs
<1>13. owns_resources(w)' => owns_resources(w)
  BY <1>11 DEF owns_resources, Registered
<1>14. /\ ~ Held(c, JobRow(j)) /\ ~ Held(c, WorkerRow(w)) /\ Registered(w) /\ Exists(j)
       /\ jobs'[j].status # "none" /\ jobs'[j].request = jobs[j].request
  BY <1>1, <1>2, <1>3, <1>4, <1>5, <1>6, <1>7, <1>10 DEF Exclusive, Held, Exists
<1>15. FrameWorkers(c) /\ FrameJobs(c)
  BY <1>1, <1>10, <1>11, <1>12, <1>13, <1>14, OneJobFrame
<1>16. Only(c)
  BY <1>1, <1>2 DEF Only
<1>17. CASE tx[c].op # "recover"
  <2>1. Ended(c)
    BY <1>1, <1>2, <1>16, <1>17 DEF Ended
  <2> QED
    BY <1>1, <1>7, <1>8, <1>15, <2>1, EndedKeeps
<1>18. CASE tx[c].op = "recover"
  <2>1. tx'[c] = [Idle EXCEPT !.op = "recover", !.step = "pick", !.now = tx[c].now]
    BY <1>1, <1>2, <1>18
  <2>2. TxInv(c)' /\ tx'[c].locks = {} /\ ~ Inserting(c)'
    BY <1>1, <2>1, NextRound
  <2>3. SequenceAhead'
    BY <1>1, <1>15, <1>16, <2>2, SequenceKept
  <2> QED
    BY <1>7, <1>8, <1>15, <1>16, <2>2, <2>3, StepKeeps
<1> QED
  BY <1>17, <1>18

-----------------------------------------------------------------------------
(* submit_job                                                              *)

\* A submission that has read or inserted nothing yet.
LEMMA LookupKeyKeeps ==
    ASSUME IInv, PgInv, NEW c \in Connections, LookupKey(c)
    PROVE  PgInv' /\ UNCHANGED vars
<1>1. tx[c].step \in {"lookup", "reselect"}
  BY DEF LookupKey
<1>2. TxInv(c) /\ DOMAIN tx = Connections
  BY DEF PgInv
<1>3. tx[c].op = "submit"
  BY <1>1, <1>2, Steps DEF TxInv, Shaped, Opers
<1>4. CASE Return(c)
  BY <1>4, ReturnKeeps
<1>5. CASE Proceed(c, "insert", {}, {})
  <2>1. /\ Only(c) /\ UNCHANGED <<workers, jobs, leases_issued, clock, pg_sequence>>
        /\ DOMAIN tx'[c] = DOMAIN tx[c]
        /\ tx'[c].op = tx[c].op /\ tx'[c].now = tx[c].now /\ tx'[c].arg = tx[c].arg
        /\ tx'[c].step = "insert" /\ tx'[c].locks = tx[c].locks
    BY <1>2, <1>5, ProceedFacts DEF TxInv
  <2>2. Shaped(c)'
    BY <1>2, <1>3, <2>1, Steps DEF Shaped, TxInv
  <2>3. HeldRows(c)'
    BY <1>2, <2>1 DEF HeldRows, TxInv, Registered, Exists
  <2>4. SubmitTx(c)'
    BY <1>2, <1>3, <2>1 DEF TxInv, SubmitTx
  <2>5. TxInv(c)' /\ ~ Inserting(c)'
    BY <1>3, <2>1, <2>2, <2>3, <2>4
       DEF TxInv, OwnerTx, ClaimTx, BeatTx, EndTx, SweepTx, Inserting
  <2> QED
    BY <2>1, <2>5, GoesOn
<1> QED
  BY <1>4, <1>5 DEF LookupKey

\* The insert draws a number; it finds the key taken or holds it.
LEMMA InsertJobKeeps ==
    ASSUME IInv, PgInv, NEW c \in Connections, InsertJob(c)
    PROVE  PgInv' /\ UNCHANGED vars
<1> DEFINE key == tx[c].arg.idempotency_key
           found == JobsWithKey(key) # {}
<1>1. /\ tx[c].step = "insert" /\ pg_sequence < MaxJobs /\ pg_sequence' = pg_sequence + 1
      /\ \A lock \in NextLocks(c) : ~ Held(c, lock)
      /\ tx' = IF found THEN [tx EXCEPT ![c].step = "reselect"]
               ELSE [tx EXCEPT ![c].step = "write", ![c].j = pg_sequence + 1,
                               ![c].locks = NextLocks(c)]
      /\ UNCHANGED <<workers, jobs, leases_issued, clock>>
  BY DEF InsertJob, tables
<1>2. TxInv(c) /\ DOMAIN tx = Connections /\ SequenceAhead
  BY DEF PgInv
<1>3. tx[c].op = "submit"
  BY <1>1, <1>2, Steps DEF TxInv, Shaped, Opers
<1>4. NextLocks(c) = {Key(key)} \ {Key(NoKey)}
  BY <1>1 DEF NextLocks
<1>5. /\ pg_sequence \in Nat /\ MaxJobs \in Nat /\ pg_sequence + 1 \in JobIds
      /\ pg_sequence' \in 0 .. MaxJobs
  BY <1>1, <1>2, ContractAssumption DEF SequenceAhead, JobIds
<1>6. ~ Exists(pg_sequence + 1)
  BY <1>2, <1>5 DEF SequenceAhead
<1>7. IInv' /\ FrameWorkers(c) /\ FrameJobs(c)
  BY <1>1, <1>5, Quiet
<1>8. /\ Only(c) /\ DOMAIN tx'[c] = DOMAIN tx[c]
      /\ tx'[c].op = tx[c].op /\ tx'[c].now = tx[c].now /\ tx'[c].arg = tx[c].arg
      /\ found => tx'[c].step = "reselect" /\ tx'[c].locks = tx[c].locks
      /\ ~ found => /\ tx'[c].step = "write" /\ tx'[c].j = pg_sequence + 1
                    /\ tx'[c].locks = NextLocks(c)
  BY <1>1, <1>2 DEF TxInv, Shaped, Only
<1>9. Shaped(c)'
  BY <1>1, <1>2, <1>3, <1>8, Steps DEF Shaped, TxInv
<1>10. HeldRows(c)'
  <2>1. \A x : WorkerRow(x) \notin NextLocks(c) /\ JobRow(x) \notin NextLocks(c)
    BY <1>4, LockKinds
  <2> QED
    BY <1>1, <1>2, <1>8, <2>1 DEF HeldRows, TxInv, Registered, Exists
<1>11. SubmitTx(c)'
  <2>1. tx[c].arg \in Submissions
    BY <1>2, <1>3 DEF TxInv, SubmitTx
  <2>2. CASE found
    BY <1>1, <1>3, <1>8, <2>1, <2>2 DEF SubmitTx, JobsWithKey, Exists
  <2>3. CASE ~ found
    <3>0. PICK k : k = key
      OBVIOUS
    <3>1. k # NoKey => ~ KeyTaken(k) /\ Key(k) \in NextLocks(c)
      BY <1>4, <2>3, <3>0, LockKinds DEF KeyTaken, JobsWithKey
    <3>2. tx'[c].arg.idempotency_key = k
      BY <1>8, <3>0
    <3>3. KeyTaken(k)' => KeyTaken(k)
      BY <1>1 DEF KeyTaken, Exists
    <3>4. tx'[c].op = "submit" /\ tx'[c].step = "write" /\ tx'[c].arg \in Submissions
      BY <1>3, <1>8, <2>1, <2>3
    <3>5. PICK n \in JobIds : n = pg_sequence + 1
      BY <1>5
    <3>6. tx'[c].j = n /\ n <= pg_sequence'
      BY <1>1, <1>5, <1>8, <2>3, <3>5
    <3>7. ~ Exists(n)'
      BY <1>1, <1>6, <3>5 DEF Exists
    <3>8. k # NoKey => Key(k) \in tx'[c].locks /\ ~ KeyTaken(k)'
      BY <1>8, <2>3, <3>1, <3>3
    <3> QED
      BY <3>2, <3>4, <3>6, <3>7, <3>8 DEF SubmitTx
  <2> QED
    BY <2>2, <2>3
<1>12. TxInv(c)'
  BY <1>3, <1>8, <1>9, <1>10, <1>11 DEF TxInv, OwnerTx, ClaimTx, BeatTx, EndTx, SweepTx
<1>13. SequenceAhead'
  <2>1. \A d \in Connections \ {c} : Inserting(d) => tx[d].j \in Int /\ tx[d].j <= pg_sequence
    BY DEF PgInv, TxInv, SubmitTx, Inserting, JobIds
  <2>2. Inserting(c)' => tx'[c].j = pg_sequence + 1
    BY <1>8 DEF Inserting
  <2>3. \A d \in Connections \ {c} : Inserting(d)' => Inserting(d) /\ tx'[d].j = tx[d].j
    BY <1>8 DEF Inserting, Only
  <2>4. \A d \in Connections \ {c} : Inserting(d)' /\ Inserting(c)' => tx'[d].j # tx'[c].j
    BY <1>5, <2>1, <2>2, <2>3
  <2>5. \A d, e \in Connections \ {c} : d # e /\ Inserting(d)' /\ Inserting(e)' =>
           tx'[d].j # tx'[e].j
    BY <1>2, <2>3 DEF SequenceAhead
  <2>6. \A j \in JobIds : j > pg_sequence' => ~ Exists(j)'
    <3>1. \A j \in JobIds : j \in Int
      BY DEF JobIds
    <3> QED
      BY <1>1, <1>2, <1>5, <3>1 DEF SequenceAhead, Exists
  <2> QED
    BY <1>5, <2>4, <2>5, <2>6 DEF SequenceAhead
<1>14. \A lock \in tx'[c].locks \ tx[c].locks : ~ Held(c, lock)
  BY <1>1, <1>8
<1> QED
  BY <1>1, <1>7, <1>8, <1>12, <1>13, <1>14, StepKeeps DEF vars

\* The commit of a submission creates the job the contract would create.
LEMMA CommitSubmitKeeps ==
    ASSUME MaxTime <= MaxLag, IInv, PgInv, NEW c \in Connections, CommitSubmit(c)
    PROVE  PgInv' /\ Next
<1>1. /\ tx[c].step = "write" /\ tx[c].op = "submit" /\ Commit(c)
      /\ jobs' = [jobs EXCEPT ![tx[c].j] = NewJob(tx[c].arg, tx[c].now)]
      /\ UNCHANGED <<workers, leases_issued, clock>>
  BY DEF CommitSubmit
<1>2. TxInv(c) /\ Exclusive /\ DOMAIN tx = Connections
  BY DEF PgInv
<1>3. /\ tx[c].arg \in Submissions /\ tx[c].j \in JobIds /\ ~ Exists(tx[c].j)
      /\ tx[c].arg.idempotency_key # NoKey => ~ KeyTaken(tx[c].arg.idempotency_key)
  BY <1>1, <1>2 DEF TxInv, SubmitTx
<1>4. tx[c].now \in Timestamps
  BY NowIsTimestamp
<1>5. submit_job(tx[c].arg, tx[c].j, tx[c].now)
  BY <1>1, <1>3 DEF submit_job
<1>6. Next
  BY <1>3, <1>4, <1>5 DEF Next
<1>7. IInv'
  BY <1>6, NextIInv
<1>8. PICK j \in JobIds : j = tx[c].j
  BY <1>3
<1>9. PICK new : new = NewJob(tx[c].arg, tx[c].now)
  OBVIOUS
<1>10. new.status = "queued" /\ new.request = tx[c].arg
  BY <1>9 DEF NewJob, NoJobRecord
<1>11. jobs'[j] = new /\ \A k \in JobIds \ {j} : jobs'[k] = jobs[k]
  BY <1>1, <1>8, <1>9 DEF IInv, TypeOK
<1>12. \A w : RunningJobs(w)' = RunningJobs(w)
  BY <1>3, <1>8, <1>10, <1>11 DEF RunningJobs, Exists
<1>13. FrameWorkers(c)
  BY <1>1, <1>12 DEF FrameWorkers, Registered, owns_resources
<1>14. Ended(c) /\ pg_sequence' = pg_sequence
  BY <1>1, <1>2, CommitFacts
<1>15. \A d \in Connections \ {c}, k \in JobIds : JobRow(k) \in tx[d].locks => jobs'[k] = jobs[k]
  BY <1>3, <1>8, <1>11 DEF PgInv, TxInv, HeldRows
<1>16. \A k \in JobIds : Exists(k) => Exists(k)' /\ jobs'[k].request = jobs[k].request
  BY <1>3, <1>8, <1>11 DEF Exists
<1>17. \A k \in JobIds : Exists(k)' /\ ~ Exists(k) =>
          Inserting(c) /\ k = tx[c].j /\ jobs'[k].request = tx[c].arg
  BY <1>1, <1>8, <1>10, <1>11 DEF Exists, Inserting
<1>18. FrameJobs(c)
  BY <1>1, <1>14, <1>15, <1>16, <1>17, ContractAssumption DEF FrameJobs, PgInv, SequenceAhead
<1> QED
  BY <1>6, <1>7, <1>13, <1>14, <1>18, EndedKeeps

-----------------------------------------------------------------------------
(* The whole specification                                                 *)

\* The arguments calls come with.
LEMMA CallFacts ==
    ASSUME NEW call \in Calls
    PROVE  /\ call.op \in Opers \ {"none"}
           /\ call.op \in {"register", "set_state", "claim", "heartbeat", "renew", "complete",
                           "fail"} => call.w \in WorkerIds
           /\ call.op \in {"renew", "complete", "fail", "cancel"} => call.j \in JobIds
           /\ call.op = "register" => /\ call.arg.spec \in Specs
                                      /\ call.arg.m \in MaxConcurrencies
           /\ call.op = "set_state" => call.arg \in RequestedStates
           /\ call.op \in {"heartbeat", "renew"} =>
                 call.arg.state \in RequestedStates \cup {"unchanged"}
           /\ call.op = "fail" => call.arg.retryable \in BOOLEAN
           /\ call.op = "submit" => call.arg \in Submissions
BY DEF Calls, Opers

\* A method starts at its first step and knows only its arguments.
LEMMA BeginKeeps ==
    ASSUME IInv, PgInv, NEW c \in Connections, NEW call \in Calls, Begin(c, call)
    PROVE  PgInv' /\ UNCHANGED vars
<1>1. /\ tx' = [tx EXCEPT ![c] = [op |-> call.op, w |-> call.w, j |-> call.j, arg |-> call.arg,
                                  step |-> FirstStep(call.op), now |-> clock,
                                  locks |-> {}, seen |-> {}]]
      /\ UNCHANGED <<workers, jobs, leases_issued, clock, pg_sequence>>
  BY DEF Begin
<1>2. DOMAIN tx = Connections /\ clock \in Nat
  BY DEF PgInv, IInv, TypeOK
<1>3. /\ Only(c)
      /\ DOMAIN tx'[c] = {"op", "w", "j", "arg", "step", "now", "locks", "seen"}
      /\ tx'[c].op = call.op /\ tx'[c].w = call.w /\ tx'[c].j = call.j /\ tx'[c].arg = call.arg
      /\ tx'[c].step = FirstStep(call.op) /\ tx'[c].now = clock /\ tx'[c].locks = {}
  BY <1>1, <1>2 DEF Only
<1>4. call.op \in Opers \ {"none"}
  BY CallFacts
<1>5. /\ FirstStep(call.op) \in StepsOf(call.op)
      /\ call.op \in {"register", "set_state"} => FirstStep(call.op) = "identity"
      /\ call.op = "claim" => FirstStep(call.op) = "read"
      /\ call.op = "heartbeat" => FirstStep(call.op) = "worker"
      /\ call.op \in {"renew", "complete", "fail", "cancel"} => FirstStep(call.op) = "job"
      /\ call.op = "expire" => FirstStep(call.op) = "scan"
      /\ call.op = "recover" => FirstStep(call.op) = "pick"
      /\ call.op = "submit" => FirstStep(call.op) = "lookup"
  BY <1>4, Steps DEF Opers, FirstStep
<1>6. Shaped(c)' /\ HeldRows(c)'
  BY <1>1, <1>2, <1>3, <1>4, <1>5 DEF Shaped, HeldRows
<1>7. OwnerTx(c)' /\ ClaimTx(c)'
  BY <1>3, <1>5, CallFacts DEF OwnerTx, ClaimTx
<1>8. BeatTx(c)' /\ EndTx(c)'
  BY <1>3, <1>5, CallFacts DEF BeatTx, EndTx
<1>9. SweepTx(c)' /\ SubmitTx(c)'
  BY <1>3, <1>5, CallFacts DEF SweepTx, SubmitTx
<1>10. TxInv(c)' /\ ~ Inserting(c)'
  BY <1>3, <1>5, <1>6, <1>7, <1>8, <1>9 DEF TxInv, Inserting
<1> QED
  BY <1>1, <1>3, <1>10, GoesOn

\* Time passes: what was read stays as it was, and timestamps stay in the past.
LEMMA TickKeeps ==
    ASSUME IInv, PgInv, Tick, UNCHANGED <<tx, pg_sequence>>
    PROVE  PgInv' /\ Next
<1>1. /\ clock < MaxTime /\ clock' = clock + 1 /\ UNCHANGED <<workers, jobs, leases_issued>>
      /\ clock \in Nat /\ MaxTime \in Nat
  BY ContractAssumption DEF Tick, IInv, TypeOK
<1>2. \A w : RunningJobs(w)' = RunningJobs(w)
  BY <1>1 DEF RunningJobs
<1>3. ASSUME NEW c \in Connections PROVE TxInv(c)'
  <2>1. TxInv(c)
    BY DEF PgInv
  <2>2. Shaped(c)'
    BY <1>1, <2>1 DEF TxInv, Shaped
  <2>3. HeldRows(c)' /\ ClaimTx(c)' /\ EndTx(c)' /\ SweepTx(c)'
    BY <1>1, <2>1 DEF TxInv, HeldRows, ClaimTx, EndTx, SweepTx, Registered, Exists,
                      assert_running, LeaseExpired, Due, Stale
  <2>4. BeatTx(c)'
    BY <1>1, <1>2, <2>1 DEF TxInv, BeatTx, HeartbeatAllowed, Registered, assert_running
  <2>5. OwnerTx(c)'
    <3>1. OwnGpus(c)' = OwnGpus(c) /\ (TopologyKept(c)' <=> TopologyKept(c))
      BY <1>1 DEF OwnGpus, RequestedGpus, TopologyKept
    <3>2. \A w, spec : gpu_ownership_available(w, spec) => gpu_ownership_available(w, spec)'
      BY <1>1 DEF gpu_ownership_available, owns_resources, Registered
    <3> QED
      BY <1>1, <1>2, <2>1, <3>1, <3>2 DEF TxInv, OwnerTx, Registered
  <2>6. SubmitTx(c)'
    BY <1>1, <2>1 DEF TxInv, SubmitTx, JobsWithKey, KeyTaken, Exists
  <2> QED
    BY <2>2, <2>3, <2>4, <2>5, <2>6 DEF TxInv
<1>4. Exclusive' /\ SequenceAhead'
  BY <1>1 DEF PgInv, Exclusive, SequenceAhead, Exists, Inserting
<1>5. clock' <= MaxTime
  BY <1>1
<1> QED
  BY <1>3, <1>4, <1>5 DEF PgInv, Next

\* At the start nothing is locked.
LEMMA PgInitInv == PgInit => IInv /\ PgInv
<1> SUFFICES ASSUME PgInit PROVE IInv /\ PgInv
  OBVIOUS
<1>1. Init /\ tx = [c \in Connections |-> Idle] /\ pg_sequence = 0
  BY DEF PgInit
<1>2. IInv
  BY <1>1, InitIInv
<1>3. clock = 0 /\ \A j \in JobIds : ~ Exists(j)
  BY <1>1 DEF Init, Exists, NoJobRecord
<1>4. /\ Idle.op = "none" /\ Idle.step = "idle" /\ Idle.locks = {} /\ Idle.now = 0
      /\ DOMAIN Idle = {"op", "w", "j", "arg", "step", "now", "locks", "seen"}
  BY DEF Idle
<1>5. DOMAIN tx = Connections /\ \A c \in Connections : tx[c] = Idle
  BY <1>1
<1>6. ASSUME NEW c \in Connections PROVE TxInv(c)
  <2>1. Shaped(c) /\ HeldRows(c)
    BY <1>3, <1>4, <1>5, Steps DEF Shaped, HeldRows, Opers
  <2>2. OwnerTx(c) /\ ClaimTx(c) /\ BeatTx(c) /\ EndTx(c) /\ SweepTx(c) /\ SubmitTx(c)
    BY <1>4, <1>5 DEF OwnerTx, ClaimTx, BeatTx, EndTx, SweepTx, SubmitTx
  <2> QED
    BY <2>1, <2>2 DEF TxInv
<1>7. Exclusive
  BY <1>4, <1>5 DEF Exclusive
<1>8. SequenceAhead
  BY <1>1, <1>3, <1>4, <1>5, ContractAssumption DEF SequenceAhead, Inserting
<1>9. clock <= MaxTime
  BY <1>3, ContractAssumption
<1> QED
  BY <1>2, <1>5, <1>6, <1>7, <1>8, <1>9 DEF PgInv

\* Every statement keeps the invariant, and writes what a call of the contract writes.
LEMMA StatementKeeps ==
    ASSUME MaxTime <= MaxLag, IInv, PgInv, NEW c \in Connections, Statement(c)
    PROVE  PgInv' /\ (UNCHANGED vars \/ Next)
<1>1. CASE LockIdentity(c) \/ ReadTopology(c) \/ LockGpu(c) \/ LockOwnRow(c) \/ CheckOverlap(c)
  BY <1>1, LockIdentityKeeps, ReadTopologyKeeps, LockGpuKeeps, LockOwnRowKeeps,
     CheckOverlapKeeps
<1>2. CASE CountActive(c) \/ CommitRegister(c) \/ CommitState(c)
  BY <1>2, CountActiveKeeps, CommitRegisterKeeps, CommitStateKeeps
<1>3. CASE ScanWorkers(c) \/ LockDueRow(c) \/ CommitExpire(c)
  BY <1>3, ScanWorkersKeeps, LockDueRowKeeps, CommitExpireKeeps
<1>4. CASE ReadClaimer(c) \/ RetireClaimer(c) \/ SelectJob(c) \/ CommitClaim(c)
  BY <1>4, ReadClaimerKeeps, RetireClaimerKeeps, SelectJobKeeps, CommitClaimKeeps
<1>5. CASE LockJob(c) \/ LockHeartbeatRow(c) \/ CommitHeartbeat(c) \/ CommitEnd(c)
  BY <1>5, LockJobKeeps, LockHeartbeatRowKeeps, CommitHeartbeatKeeps, CommitEndKeeps
<1>6. CASE PickExpired(c) \/ LookupKey(c) \/ InsertJob(c) \/ CommitSubmit(c)
  BY <1>6, PickExpiredKeeps, LookupKeyKeeps, InsertJobKeeps, CommitSubmitKeeps
<1> QED
  BY <1>1, <1>2, <1>3, <1>4, <1>5, <1>6 DEF Statement

\* So does every step.
LEMMA PgStep ==
    ASSUME MaxTime <= MaxLag, IInv, PgInv, [PgNext]_pgvars
    PROVE  IInv' /\ PgInv' /\ [Next]_vars
<1>1. CASE PgNext
  <2>1. ASSUME NEW c \in Connections, NEW call \in Calls, Begin(c, call)
        PROVE  PgInv' /\ [Next]_vars
    BY <2>1, BeginKeeps
  <2>2. ASSUME NEW c \in Connections, Statement(c) PROVE PgInv' /\ [Next]_vars
    BY <2>2, StatementKeeps
  <2>3. ASSUME NEW c \in Connections, Abort(c) PROVE PgInv' /\ [Next]_vars
    BY <2>3, ReturnKeeps DEF Abort
  <2>4. ASSUME Tick /\ UNCHANGED <<tx, pg_sequence>> PROVE PgInv' /\ [Next]_vars
    BY <2>4, TickKeeps
  <2>5. PgInv' /\ [Next]_vars
    BY <1>1, <2>1, <2>2, <2>3, <2>4 DEF PgNext
  <2> QED
    BY <2>5, NextIInv
<1>2. CASE UNCHANGED pgvars
  <2>1. UNCHANGED vars /\ UNCHANGED <<tx, pg_sequence>>
    BY <1>2 DEF pgvars, vars
  <2>2. IInv'
    BY <2>1, NextIInv
  <2>3. PgInv'
    <3>1. UNCHANGED <<workers, jobs, leases_issued, clock>>
      BY <2>1 DEF vars
    <3>2. pg_sequence \in Nat
      BY ContractAssumption DEF PgInv, SequenceAhead
    <3>3. \A c : FrameWorkers(c) /\ FrameJobs(c)
      BY <2>1, <3>1, <3>2, Quiet
    <3>4. CASE \E c, d \in Connections : c # d
      <4>1. \A c \in Connections : \E d \in Connections : d # c
        BY <3>4
      <4>2. \A c \in Connections : TxInv(c)'
        BY <2>1, <2>2, <3>3, <4>1, TxFrame
      <4> QED
        BY <2>1, <3>1, <4>2 DEF PgInv, Exclusive, SequenceAhead, Exists, Inserting
    <3>5. CASE ~ \E c, d \in Connections : c # d
      <4>1. SUFFICES ASSUME NEW c \in Connections PROVE TxInv(c)'
        BY <2>1, <3>1 DEF PgInv, Exclusive, SequenceAhead, Exists, Inserting
      <4>2. TxInv(c)
        BY DEF PgInv
      <4> QED
        BY <2>1, <3>1, <4>2, SMTT(60)
           DEF TxInv, Shaped, HeldRows, OwnerTx, ClaimTx, BeatTx, EndTx, SweepTx, SubmitTx,
               OwnGpus, RequestedGpus, TopologyKept, gpu_ownership_available, owns_resources,
               Registered, Exists, RunningJobs, HeartbeatAllowed, assert_running, LeaseExpired,
               Due, Stale, JobsWithKey, KeyTaken
    <3> QED
      BY <3>4, <3>5
  <2> QED
    BY <2>1, <2>2, <2>3
<1> QED
  BY <1>1, <1>2

\* The inductive invariant, together with the contract's.
LEMMA PgInductive ==
    ASSUME MaxTime <= MaxLag
    PROVE  PgSpec => [](IInv /\ PgInv) /\ [][Next]_vars
<1>1. PgInit => IInv /\ PgInv
  BY PgInitInv
<1>2. (IInv /\ PgInv) /\ [PgNext]_pgvars => (IInv /\ PgInv)' /\ [Next]_vars
  BY PgStep
<1> QED
  BY <1>1, <1>2, PTL DEF PgSpec

-----------------------------------------------------------------------------
(* Theorems                                                                *)

\* Every commit of a PostgreSQL transaction is one call of the contract, for any number
\* of connections, workers and jobs: what a statement has read and a later one relies on
\* is protected by the locks in between.  Lock waits have no limit in the code, so the
\* contract is taken with a MaxLag that covers them all.
THEOREM CommitsAreCalls ==
    ASSUME MaxTime <= MaxLag
    PROVE  PgSpec => PgContract
BY PgInductive, PTL DEF PgContract

\* No GPU has two users in the PostgreSQL backend, across registrations, changes of state
\* and sweeps that overlap in time.
THEOREM PostgresGpusExclusive ==
    ASSUME MaxTime <= MaxLag
    PROVE  PgSpec => []GpuExclusive
<1>1. IInv => GpuExclusive
  BY DEF IInv
<1> QED
  BY <1>1, PgInductive, PTL

\* The active_jobs column of the PostgreSQL backend is right whatever transactions
\* interleave, no worker runs more than its max_concurrency, and the running jobs suit it.
THEOREM PostgresAccounting ==
    ASSUME MaxTime <= MaxLag
    PROVE  PgSpec => []Accounting
<1>1. IInv => Accounting
  BY DEF IInv, Accounting
<1> QED
  BY <1>1, PgInductive, PTL

\* The SELECT after an insert that found its key taken finds the job.
THEOREM InsertFindsConflict ==
    ASSUME MaxTime <= MaxLag
    PROVE  PgSpec => []ConflictingInsertPersisted
<1>1. ASSUME PgInv, NEW c \in Connections, tx[c].step = "reselect"
      PROVE  JobsWithKey(tx[c].arg.idempotency_key) # {}
  <2>1. Shaped(c) /\ SubmitTx(c)
    BY <1>1 DEF PgInv, TxInv
  <2>2. tx[c].op = "submit"
    BY <1>1, <2>1, Steps DEF Shaped, Opers
  <2> QED
    BY <1>1, <2>1, <2>2 DEF SubmitTx
<1>2. PgInv => ConflictingInsertPersisted
  BY <1>1 DEF ConflictingInsertPersisted
<1> QED
  BY <1>2, PgInductive, PTL

-----------------------------------------------------------------------------
(* Who is taken OFFLINE                                                    *)

\* A step that takes a live worker OFFLINE finds it stale, or retires or obeys its caller.
Justified(w) ==
    workers[w].state \in LiveStates /\ workers'[w].state = "offline"
    => \/ Stale(workers[w], clock)
       \/ \E c \in Connections : /\ tx[c].step = "retire" \/ AsksOffline(c)
                                /\ tx[c].w = w /\ tx'[c].step = "idle"

\* A transaction that ends is idle.
LEMMA CommitIsIdle ==
    ASSUME PgInv, NEW c \in Connections, Commit(c)
    PROVE  tx'[c].step = "idle"
BY CommitFacts DEF PgInv, Ended, Idle

\* The commits of register_worker, set_worker_state and heartbeat_worker write the state
\* that was asked for.
LEMMA RequestsJustified ==
    ASSUME IInv, PgInv, NEW c \in Connections, NEW w \in WorkerIds,
           CommitRegister(c) \/ CommitState(c) \/ CommitHeartbeat(c)
    PROVE  Justified(w)
<1> DEFINE row == workers[tx[c].w]
<1>1. TxInv(c) /\ TypeOK
  BY DEF PgInv, IInv
<1>2. workers \in [WorkerIds -> WorkerRecords]
  BY <1>1 DEF TypeOK
<1>3. CASE w # tx[c].w
  <2>1. workers'[w] = workers[w]
    BY <1>2, <1>3 DEF CommitRegister, CommitState, CommitHeartbeat
  <2> QED
    BY <2>1 DEF Justified, LiveStates
<1>4. CASE w = tx[c].w
  <2>1. CASE CommitRegister(c)
    <3>1. workers'[w].state = "online"
      BY <1>2, <1>4, <2>1 DEF CommitRegister
    <3> QED
      BY <3>1 DEF Justified
  <2>2. CASE CommitState(c)
    <3>1. workers'[w].state = tx[c].arg
      BY <1>2, <1>4, <2>2 DEF CommitState, WorkerRecords
    <3>2. tx'[c].step = "idle" /\ tx[c].step = "write" /\ tx[c].op = "set_state"
      BY <2>2, CommitIsIdle DEF CommitState
    <3> QED
      BY <1>4, <3>1, <3>2 DEF Justified, AsksOffline
  <2>3. CASE CommitHeartbeat(c)
    <3>1. workers'[w].state = HeartbeatState(w, tx[c].arg.state)
      BY <1>2, <1>4, <2>3 DEF CommitHeartbeat, WorkerRecords
    <3>2. /\ tx'[c].step = "idle" /\ tx[c].step = "write"
          /\ tx[c].op \in {"heartbeat", "renew"}
      BY <2>3, CommitIsIdle DEF CommitHeartbeat
    <3>3. workers[w].state \in LiveStates => workers[w].state # "offline"
      BY DEF LiveStates
    <3> QED
      BY <1>4, <3>1, <3>2, <3>3 DEF Justified, AsksOffline, HeartbeatState
  <2> QED
    BY <2>1, <2>2, <2>3
<1> QED
  BY <1>3, <1>4

\* The sweep takes rows that were due when it locked them, and are due still.
LEMMA SweepJustified ==
    ASSUME IInv, PgInv, NEW c \in Connections, NEW w \in WorkerIds, CommitExpire(c)
    PROVE  Justified(w)
<1>1. SweepTx(c) /\ Shaped(c) /\ tx[c].op = "expire"
  BY DEF PgInv, TxInv, CommitExpire
<1>2. CASE WorkerRow(w) \in tx[c].locks
  <2>1. Stale(workers[w], tx[c].now)
    BY <1>1, <1>2 DEF SweepTx, Due
  <2>2. workers[w].last_seen_at \in Nat /\ clock \in Nat
    BY DEF IInv, TypeOK, WorkerRecords
  <2>3. Stale(workers[w], clock)
    BY <1>1, <2>1, <2>2, ContractAssumption DEF Stale, Shaped
  <2> QED
    BY <2>3 DEF Justified
<1>3. CASE WorkerRow(w) \notin tx[c].locks
  <2>1. workers'[w] = workers[w]
    BY <1>3 DEF CommitExpire
  <2> QED
    BY <2>1 DEF Justified, LiveStates
<1> QED
  BY <1>2, <1>3

\* The claim's UPDATE retires the worker it is about.
LEMMA RetireJustified ==
    ASSUME IInv, PgInv, NEW c \in Connections, NEW w \in WorkerIds, RetireClaimer(c)
    PROVE  Justified(w)
<1>1. tx'[c].step = "idle" /\ tx[c].step = "retire"
  BY CommitIsIdle DEF RetireClaimer
<1>2. w # tx[c].w => workers'[w] = workers[w]
  BY DEF RetireClaimer, IInv, TypeOK
<1> QED
  BY <1>1, <1>2 DEF Justified, LiveStates

\* Claims and the ends of attempts change capacity, never the state.
LEMMA CapacityKeepsState ==
    ASSUME IInv, PgInv, NEW c \in Connections, NEW w \in WorkerIds,
           CommitClaim(c) \/ CommitEnd(c)
    PROVE  workers'[w].state = workers[w].state
<1>1. workers \in [WorkerIds -> WorkerRecords]
  BY DEF IInv, TypeOK
<1>2. CASE CommitClaim(c)
  BY <1>1, <1>2 DEF CommitClaim, Return, WorkerRecords
<1>3. CASE CommitEnd(c)
  BY <1>1, <1>3 DEF CommitEnd, decrement_worker, WorkerRecords
<1> QED
  BY <1>2, <1>3

\* Every step of the backend.
LEMMA OfflineJustified ==
    ASSUME IInv, PgInv, [PgNext]_pgvars, NEW w \in WorkerIds
    PROVE  Justified(w)
<1>1. workers'[w].state = workers[w].state => Justified(w)
  BY DEF Justified, LiveStates
<1>2. ASSUME NEW c \in Connections, Statement(c) PROVE Justified(w)
  <2>1. CASE CommitRegister(c) \/ CommitState(c) \/ CommitHeartbeat(c)
    BY <2>1, RequestsJustified
  <2>2. CASE CommitExpire(c)
    BY <2>2, SweepJustified
  <2>3. CASE RetireClaimer(c)
    BY <2>3, RetireJustified
  <2>4. CASE CommitClaim(c) \/ CommitEnd(c)
    BY <1>1, <2>4, CapacityKeepsState
  <2>5. CASE \/ LockIdentity(c) \/ ReadTopology(c) \/ LockGpu(c) \/ LockOwnRow(c)
             \/ CheckOverlap(c) \/ CountActive(c) \/ ScanWorkers(c) \/ LockDueRow(c)
             \/ ReadClaimer(c) \/ SelectJob(c) \/ LockHeartbeatRow(c) \/ LookupKey(c)
    <3>1. workers' = workers
      BY <2>5 DEF LockIdentity, ReadTopology, LockGpu, LockOwnRow, CheckOverlap, CountActive,
                  ScanWorkers, LockDueRow, ReadClaimer, SelectJob, LockHeartbeatRow, LookupKey,
                  Proceed, Return
    <3> QED
      BY <1>1, <3>1
  <2>6. CASE LockJob(c) \/ PickExpired(c) \/ InsertJob(c) \/ CommitSubmit(c)
    <3>1. workers' = workers
      BY <2>6 DEF LockJob, PickExpired, InsertJob, CommitSubmit, Return, tables
    <3> QED
      BY <1>1, <3>1
  <2> QED
    BY <1>2, <2>1, <2>2, <2>3, <2>4, <2>5, <2>6 DEF Statement
<1>3. ASSUME NEW c \in Connections, Abort(c) \/ \E call \in Calls : Begin(c, call)
      PROVE  Justified(w)
  BY <1>1, <1>3 DEF Abort, Return, Begin
<1>4. ASSUME Tick \/ UNCHANGED pgvars PROVE Justified(w)
  BY <1>1, <1>4 DEF Tick, pgvars
<1> QED
  BY <1>2, <1>3, <1>4 DEF PgNext

\* A worker that was refreshed while the sweep waited for its row stays live: whoever is
\* taken OFFLINE unasked was silent for longer than the TTL, or is retired by its own claim.
THEOREM PostgresSweepsStaleOnly ==
    ASSUME MaxTime <= MaxLag
    PROVE  PgSpec => SweepTakesStaleOnly
<1> DEFINE All == \A w \in WorkerIds : Justified(w)
<1>1. (IInv /\ PgInv) /\ [PgNext]_pgvars => All
  BY OfflineJustified
<1>2. All => [\A w \in WorkerIds :
           workers[w].state \in LiveStates /\ workers'[w].state = "offline"
           => \/ Stale(workers[w], clock)
              \/ \E c \in Connections : /\ tx[c].step = "retire" \/ AsksOffline(c)
                                       /\ tx[c].w = w /\ tx'[c].step = "idle"]_pgvars
  BY DEF Justified
<1> QED
  BY <1>1, <1>2, PgInductive, PTL DEF PgSpec, SweepTakesStaleOnly

-----------------------------------------------------------------------------
(* The order of the locks                                                  *)

\* What a transaction holds before its last locks: nothing when it waits for its first
\* one; a job row when it waits for a worker; its identity and smaller GPU keys when it
\* waits for a GPU; worker rows only when it sweeps.
Orderly(c) ==
    /\ tx[c].step \in {"idle", "identity", "read", "retire", "select", "scan", "job", "pick",
                       "lookup", "insert", "reselect"} => tx[c].locks = {}
    /\ tx[c].step = "worker" => \A lock \in tx[c].locks : lock[1] = "job"
    /\ tx[c].step = "rows" => \A lock \in tx[c].locks : lock[1] = "worker"
    /\ tx[c].step = "topology" => tx[c].locks \subseteq {Identity(tx[c].w)}
    /\ tx[c].step \in {"gpus", "own_row"} =>
          \A lock \in tx[c].locks : lock[1] \in {"identity", "gpu"}
    /\ tx[c].step = "gpus" =>
          /\ tx[c].seen # {} /\ tx[c].seen \subseteq LockKeys
          /\ \A lock \in tx[c].locks : lock[1] = "gpu" =>
                lock[2] \in LockKeys /\ \A k \in tx[c].seen : lock[2] < k

\* A lock begins with its kind.
LEMMA KindOf ==
    \A x : /\ WorkerRow(x)[1] = "worker" /\ JobRow(x)[1] = "job" /\ Identity(x)[1] = "identity"
           /\ Gpu(x)[1] = "gpu" /\ Gpu(x)[2] = x /\ Key(x)[1] = "key"
BY DEF WorkerRow, JobRow, Identity, Gpu, Key

\* A transaction that begins or has ended holds nothing.
LEMMA IdleOrderly ==
    ASSUME NEW c, tx'[c].locks = {}, tx'[c].step # "gpus"
    PROVE  Orderly(c)'
BY DEF Orderly

\* A step that needs no lock later needs no order.
LEMMA LateOrderly ==
    ASSUME NEW c, tx'[c].step \in {"overlap", "count", "write"}
    PROVE  Orderly(c)'
BY DEF Orderly

\* Lock keys are bounded numbers.
LEMMA KeysBounded ==
    \E low, high \in Int : \A k \in LockKeys : k \in Int /\ low <= k /\ k <= high
<1>1. LeastLockKey \in Int
  BY SMT DEF LeastLockKey
<1>2. GreatestLockKey \in Int
  BY SMT DEF GreatestLockKey
<1>3. \A k \in LockKeys : k \in Int /\ LeastLockKey <= k /\ k <= GreatestLockKey
  BY <1>1, <1>2 DEF LockKeys
<1> QED
  BY <1>1, <1>2, <1>3

\* The least key a registration still needs.
LEMMA LeastKey ==
    ASSUME NEW S, S # {}, S \subseteq LockKeys
    PROVE  LeastOf(S) \in S /\ LeastOf(S) \in Int /\ \A y \in S : y \in Int /\ LeastOf(S) <= y
<1>1. PICK low \in Int : \A k \in LockKeys : k \in Int /\ low <= k
  BY KeysBounded
<1> QED
  BY <1>1, LeastOfBounded

\* register_worker and set_worker_state lock their identity, then GPU keys upwards.
LEMMA OwnerOrderly ==
    ASSUME IInv, PgInv, NEW c \in Connections, Orderly(c),
           LockIdentity(c) \/ ReadTopology(c) \/ LockGpu(c) \/ LockOwnRow(c)
    PROVE  Orderly(c)'
<1>0. DOMAIN tx = Connections /\ Shaped(c) /\ OwnerTx(c)
  BY DEF PgInv, TxInv
<1>1. CASE LockIdentity(c)
  <2>1. /\ tx'[c].step = "topology" /\ tx'[c].w = tx[c].w
        /\ tx'[c].locks = tx[c].locks \cup {Identity(tx[c].w)} /\ tx[c].step = "identity"
    BY <1>0, <1>1, ProceedFacts DEF LockIdentity
  <2> QED
    BY <2>1 DEF Orderly
<1>2. CASE ReadTopology(c)
  <2> DEFINE gpus == RequestedGpus(c) \cup workers[tx[c].w].spec.gpu_uuids
             keys == {GpuLockKey[g] : g \in gpus}
             s == IF keys = {} THEN "own_row" ELSE "gpus"
  <2>1. Proceed(c, s, {}, keys) /\ tx[c].step = "topology"
    BY <1>2 DEF ReadTopology
  <2>3. \A lock \in tx[c].locks : lock[1] = "identity"
    BY <2>1, KindOf DEF Orderly
  <2>4. tx[c].op \in {"register", "set_state"} /\ tx[c].w \in WorkerIds
    BY <1>0, <2>1, OwnerSteps DEF OwnerTx
  <2>5. \A g \in gpus : GpuLockKey[g] \in LockKeys
    <3>1. \A g \in RequestedGpus(c) : GpuLockKey[g] \in LockKeys
      BY <1>0, <2>4, LockKeyAssumption DEF RequestedGpus, OwnerTx
    <3>2. workers[tx[c].w].spec \in Specs \cup {NoWorkerRecord.spec}
      BY <2>4 DEF IInv, TypeOK, WorkerRecords
    <3>3. NoWorkerRecord.spec.gpu_uuids = {}
      BY DEF NoWorkerRecord
    <3> QED
      BY <3>1, <3>2, <3>3, LockKeyAssumption
  <2>6. keys \subseteq LockKeys
    BY <2>5
  <2>7. s = "gpus" => keys # {}
    OBVIOUS
  <2>8. s \in {"gpus", "own_row"}
    OBVIOUS
  <2> HIDE DEF keys, s
  <2>2. tx'[c].step = s /\ tx'[c].w = tx[c].w /\ tx'[c].locks = tx[c].locks /\ tx'[c].seen = keys
    BY <1>0, <2>1, ProceedFacts
  <2> QED
    BY <2>2, <2>3, <2>6, <2>7, <2>8 DEF Orderly
<1>3. CASE LockGpu(c)
  <2>1. tx[c].step = "gpus"
    BY <1>3 DEF LockGpu
  <2>2. PICK k \in tx[c].seen :
           /\ MayTake(c, Gpu(k))
           /\ Proceed(c, IF tx[c].seen = {k} THEN "own_row" ELSE "gpus", {Gpu(k)},
                      tx[c].seen \ {k})
    BY <1>3 DEF LockGpu
  <2>3. tx[c].seen # {} /\ tx[c].seen \subseteq LockKeys
    BY <2>1 DEF Orderly
  <2>4. k = LeastOf(tx[c].seen)
    BY <2>1, <2>2, KindOf DEF MayTake, NextLocks, NextGpuKeys
  <2>5. \A y \in tx[c].seen \ {k} : y \in Int /\ k \in Int /\ k < y
    BY <2>3, <2>4, LeastKey
  <2>6. /\ tx'[c].step = IF tx[c].seen = {k} THEN "own_row" ELSE "gpus"
        /\ tx'[c].locks = tx[c].locks \cup {Gpu(k)} /\ tx'[c].seen = tx[c].seen \ {k}
    BY <1>0, <2>2, ProceedFacts
  <2>7. \A lock \in tx'[c].locks : lock[1] \in {"identity", "gpu"}
    BY <2>1, <2>6, KindOf DEF Orderly
  <2>8. ASSUME tx'[c].step = "gpus"
        PROVE  \A lock \in tx'[c].locks : lock[1] = "gpu" =>
                  lock[2] \in LockKeys /\ \A y \in tx'[c].seen : lock[2] < y
    <3>1. \A lock \in tx[c].locks : lock[1] = "gpu" =>
             lock[2] \in LockKeys /\ \A y \in tx'[c].seen : lock[2] < y
      BY <2>1, <2>6 DEF Orderly
    <3>2. Gpu(k)[2] \in LockKeys /\ \A y \in tx'[c].seen : Gpu(k)[2] < y
      BY <2>2, <2>3, <2>5, <2>6, KindOf
    <3> QED
      BY <2>6, <3>1, <3>2
  <2>9. tx'[c].step = "gpus" => tx'[c].seen # {} /\ tx'[c].seen \subseteq LockKeys
    BY <2>2, <2>3, <2>6
  <2>10. tx'[c].step \in {"gpus", "own_row"}
    BY <2>6
  <2> QED
    BY <2>7, <2>8, <2>9, <2>10 DEF Orderly
<1>4. CASE LockOwnRow(c)
  <2>1. CASE Return(c)
    BY <1>0, <2>1, ReturnFacts, IdleOrderly DEF Ended, Idle
  <2>2. CASE ~ Return(c)
    <3>1. \E lock : Proceed(c, "overlap", lock, {})
      BY <1>4, <2>2 DEF LockOwnRow
    <3> QED
      BY <1>0, <3>1, ProceedFacts, LateOrderly
  <2> QED
    BY <2>1, <2>2
<1> QED
  BY <1>1, <1>2, <1>3, <1>4

\* The other methods lock nothing before a job, a job before a worker, or worker rows only.
LEMMA RestOrderly ==
    ASSUME IInv, PgInv, NEW c \in Connections, Orderly(c), Statement(c),
           ~ (LockIdentity(c) \/ ReadTopology(c) \/ LockGpu(c) \/ LockOwnRow(c))
    PROVE  Orderly(c)'
<1>0. DOMAIN tx = Connections /\ Shaped(c)
  BY DEF PgInv, TxInv
<1>1. ASSUME Return(c) \/ Commit(c) PROVE Orderly(c)'
  <2>1. tx'[c] = Idle
    BY <1>0, <1>1, ReturnFacts, CommitFacts DEF Ended
  <2> QED
    BY <2>1, IdleOrderly DEF Idle
<1>2. CASE CommitRegister(c) \/ CommitState(c) \/ CommitExpire(c) \/ RetireClaimer(c)
           \/ CommitClaim(c) \/ CommitHeartbeat(c) \/ CommitSubmit(c)
  BY <1>1, <1>2 DEF CommitRegister, CommitState, CommitExpire, RetireClaimer, CommitClaim,
                    CommitHeartbeat, CommitSubmit
<1>3. CASE CheckOverlap(c) \/ CountActive(c) \/ LockHeartbeatRow(c)
  <2>1. Return(c) \/ \E s \in {"count", "write"} : \E lock, seen : Proceed(c, s, lock, seen)
    BY <1>3 DEF CheckOverlap, CountActive, LockHeartbeatRow
  <2> QED
    BY <1>0, <1>1, <2>1, ProceedFacts, LateOrderly
<1>4. CASE ScanWorkers(c)
  <2>1. Return(c) \/ \E seen : tx[c].step = "scan" /\ Proceed(c, "rows", {}, seen)
    BY <1>4 DEF ScanWorkers
  <2>2. ASSUME NEW seen, tx[c].step = "scan", Proceed(c, "rows", {}, seen) PROVE Orderly(c)'
    <3>1. tx'[c].locks = {} /\ tx'[c].step = "rows"
      BY <1>0, <2>2, ProceedFacts DEF Orderly
    <3> QED
      BY <3>1, IdleOrderly
  <2> QED
    BY <1>1, <2>1, <2>2
<1>5. CASE LockDueRow(c)
  <2>1. PICK w \in tx[c].seen :
           Proceed(c, IF tx[c].seen = {w} THEN "write" ELSE "rows",
                   IF Due(w, tx[c].now) THEN {WorkerRow(w)} ELSE {}, tx[c].seen \ {w})
    BY <1>5 DEF LockDueRow
  <2>2. /\ tx'[c].step \in {"write", "rows"}
        /\ tx'[c].locks \subseteq tx[c].locks \cup {WorkerRow(w)}
    BY <1>0, <2>1, ProceedFacts
  <2>3. \A lock \in tx'[c].locks : lock[1] = "worker"
    BY <1>5, <2>2, KindOf DEF Orderly, LockDueRow
  <2> QED
    BY <2>2, <2>3 DEF Orderly
<1>6. CASE ReadClaimer(c)
  <2>1. Return(c) \/ \E s \in {"retire", "select"} : \E seen :
                        tx[c].step = "read" /\ Proceed(c, s, {}, seen)
    BY <1>6 DEF ReadClaimer
  <2>2. ASSUME NEW s \in {"retire", "select"}, NEW seen, tx[c].step = "read",
               Proceed(c, s, {}, seen)
        PROVE  Orderly(c)'
    <3>1. tx'[c].locks = {} /\ tx'[c].step = s
      BY <1>0, <2>2, ProceedFacts DEF Orderly
    <3> QED
      BY <3>1, IdleOrderly
  <2> QED
    BY <1>1, <2>1, <2>2
<1>7. CASE SelectJob(c) \/ LockJob(c) \/ PickExpired(c)
  <2>1. CASE tx'[c].step = "worker" /\ \E j : tx'[c].locks = {JobRow(j)}
    BY <2>1, KindOf DEF Orderly
  <2>2. CASE ~ (tx'[c].step = "worker" /\ \E j : tx'[c].locks = {JobRow(j)})
    <3>1. tx[c].step \in {"select", "job", "pick"} => tx[c].locks = {}
      BY DEF Orderly
    <3>2. CASE SelectJob(c)
      <4>1. ASSUME NEW j, tx[c].step = "select",
                   tx' = [tx EXCEPT ![c].step = "worker", ![c].locks = @ \cup {JobRow(j)},
                                    ![c].j = j]
            PROVE  FALSE
        <5>1. tx'[c].step = "worker" /\ tx'[c].locks = tx[c].locks \cup {JobRow(j)}
          BY <1>0, <4>1 DEF Shaped
        <5> QED
          BY <2>2, <3>1, <4>1, <5>1
      <4>2. Return(c)
        BY <3>2, <4>1 DEF SelectJob
      <4> QED
        BY <1>1, <4>2
    <3>3. CASE LockJob(c)
      <4>1. Return(c) \/ Commit(c)
        BY <1>0, <2>2, <3>1, <3>3 DEF LockJob, Shaped
      <4> QED
        BY <1>1, <4>1
    <3>4. CASE PickExpired(c)
      <4>1. ASSUME NEW j, NEW v,
                   tx' = [tx EXCEPT ![c].step = "worker", ![c].j = j, ![c].locks = {JobRow(j)},
                                    ![c].w = v]
            PROVE  FALSE
        <5>1. tx'[c].step = "worker" /\ tx'[c].locks = {JobRow(j)}
          BY <1>0, <4>1 DEF Shaped
        <5> QED
          BY <2>2, <5>1
      <4>2. Return(c)
        BY <3>4, <4>1 DEF PickExpired
      <4> QED
        BY <1>1, <4>2
    <3> QED
      BY <1>7, <3>2, <3>3, <3>4
  <2> QED
    BY <2>1, <2>2
<1>8. CASE CommitEnd(c)
  <2>1. tx'[c].locks = {} /\ tx'[c].step \in {"pick", "idle"}
    BY <1>0, <1>8 DEF CommitEnd, Idle
  <2> QED
    BY <2>1, IdleOrderly
<1>9. CASE LookupKey(c)
  <2>1. Return(c) \/ (tx[c].step = "lookup" /\ Proceed(c, "insert", {}, {}))
    BY <1>9 DEF LookupKey
  <2>2. ASSUME tx[c].step = "lookup", Proceed(c, "insert", {}, {}) PROVE Orderly(c)'
    <3>1. tx'[c].locks = {} /\ tx'[c].step = "insert"
      BY <1>0, <2>2, ProceedFacts DEF Orderly
    <3> QED
      BY <3>1, IdleOrderly
  <2> QED
    BY <1>1, <2>1, <2>2
<1>10. CASE InsertJob(c)
  <2>1. tx[c].locks = {}
    BY <1>10 DEF InsertJob, Orderly
  <2>2. \/ tx'[c].step = "reselect" /\ tx'[c].locks = {}
        \/ tx'[c].step = "write"
    BY <1>0, <1>10, <2>1 DEF InsertJob, Shaped
  <2> QED
    BY <2>2, IdleOrderly, LateOrderly
<1> QED
  BY <1>2, <1>3, <1>4, <1>5, <1>6, <1>7, <1>8, <1>9, <1>10 DEF Statement

\* A statement changes no other connection's transaction.
LEMMA StatementOnly ==
    ASSUME DOMAIN tx = Connections, NEW c \in Connections, Statement(c)
    PROVE  Only(c)
<1>1. CASE LockIdentity(c) \/ ReadTopology(c) \/ LockGpu(c) \/ LockOwnRow(c) \/ CheckOverlap(c)
           \/ CountActive(c)
  BY <1>1 DEF LockIdentity, ReadTopology, LockGpu, LockOwnRow, CheckOverlap, CountActive, Proceed,
              Return, Only
<1>2. CASE CommitRegister(c) \/ CommitState(c) \/ CommitExpire(c) \/ RetireClaimer(c)
           \/ CommitHeartbeat(c) \/ CommitSubmit(c)
  BY <1>2 DEF CommitRegister, CommitState, CommitExpire, RetireClaimer, CommitHeartbeat,
              CommitSubmit, Commit, Only
<1>3. CASE ScanWorkers(c) \/ LockDueRow(c) \/ ReadClaimer(c) \/ LockHeartbeatRow(c)
           \/ LookupKey(c)
  BY <1>3 DEF ScanWorkers, LockDueRow, ReadClaimer, LockHeartbeatRow, LookupKey, Proceed, Return,
              Only
<1>4. CASE SelectJob(c) \/ PickExpired(c) \/ InsertJob(c)
  BY <1>4 DEF SelectJob, PickExpired, InsertJob, Return, Only
<1>5. CASE CommitClaim(c) \/ LockJob(c) \/ CommitEnd(c)
  BY <1>5 DEF CommitClaim, LockJob, CommitEnd, Commit, Return, Only
<1> QED
  BY <1>1, <1>2, <1>3, <1>4, <1>5 DEF Statement

\* All connections await their locks in order.
OrderInv == \A c \in Connections : Orderly(c)

\* Every step of a connection keeps the order in which locks are awaited.
LEMMA OrderStep ==
    ASSUME IInv, PgInv, OrderInv, [PgNext]_pgvars
    PROVE  OrderInv'
<1>0. DOMAIN tx = Connections
  BY DEF PgInv
<1>1. ASSUME NEW c \in Connections, NEW d \in Connections, tx'[d] = tx[d] PROVE Orderly(d)'
  BY <1>1 DEF OrderInv, Orderly
<1>2. ASSUME NEW c \in Connections, Only(c), Orderly(c)' PROVE OrderInv'
  <2> SUFFICES ASSUME NEW d \in Connections PROVE Orderly(d)'
    BY DEF OrderInv
  <2> QED
    BY <1>1, <1>2 DEF Only
<1>3. ASSUME NEW c \in Connections, Statement(c) PROVE OrderInv'
  <2>1. Orderly(c)'
    BY <1>3, OwnerOrderly, RestOrderly DEF OrderInv
  <2>2. Only(c)
    BY <1>0, <1>3, StatementOnly
  <2> QED
    BY <1>2, <2>1, <2>2
<1>4. ASSUME NEW c \in Connections, Abort(c) PROVE OrderInv'
  <2>1. Only(c) /\ tx'[c] = Idle
    BY <1>0, <1>4, ReturnFacts DEF Abort, Ended
  <2>2. Orderly(c)'
    BY <2>1, IdleOrderly DEF Idle
  <2> QED
    BY <1>2, <2>1, <2>2
<1>5. ASSUME NEW c \in Connections, NEW call \in Calls, Begin(c, call) PROVE OrderInv'
  <2>1. Only(c) /\ tx'[c].locks = {} /\ tx'[c].step = FirstStep(call.op)
    BY <1>0, <1>5 DEF Begin, Only
  <2>2. FirstStep(call.op) # "gpus"
    BY <1>5 DEF FirstStep, Calls
  <2>3. Orderly(c)'
    BY <2>1, <2>2, IdleOrderly
  <2> QED
    BY <1>2, <2>1, <2>3
<1>6. ASSUME tx' = tx PROVE OrderInv'
  BY <1>6 DEF OrderInv, Orderly
<1> QED
  BY <1>3, <1>4, <1>5, <1>6 DEF PgNext, pgvars

-----------------------------------------------------------------------------
(* Who waits for whom                                                      *)

\* The kind of lock each step waits for.
LEMMA WaitsFor ==
    ASSUME NEW c, NEW lock \in NextLocks(c)
    PROVE  \/ tx[c].step = "identity" /\ lock[1] = "identity"
           \/ tx[c].step = "gpus" /\ lock = Gpu(LeastOf(tx[c].seen))
           \/ tx[c].step \in {"own_row", "worker", "retire", "rows"} /\ lock[1] = "worker"
           \/ tx[c].step \in {"job", "lookup", "reselect"} /\ lock[1] = "job"
           \/ tx[c].step = "insert" /\ lock[1] = "key"
BY KindOf DEF NextLocks, NextGpuKeys

\* What a transaction that waits can hold.
LEMMA WaiterHolds ==
    ASSUME NEW c, Orderly(c), NextLocks(c) # {}, NEW lock \in tx[c].locks
    PROVE  \/ tx[c].step = "worker" /\ lock[1] = "job"
           \/ tx[c].step = "rows" /\ lock[1] = "worker"
           \/ tx[c].step = "own_row" /\ lock[1] \in {"identity", "gpu"}
           \/ tx[c].step = "gpus" /\ lock[1] \in {"identity", "gpu"}
<1>1. PICK l : l \in NextLocks(c)
  OBVIOUS
<1>2. tx[c].step \in {"identity", "gpus", "own_row", "worker", "retire", "rows", "job", "lookup",
                      "reselect", "insert"}
  BY <1>1, WaitsFor
<1> QED
  BY <1>2 DEF Orderly

\* In a circle of waiting transactions, only a sweep holds a worker's row.
LEMMA RowHolderSweeps ==
    ASSUME PgInv, OrderInv, NEW S \in SUBSET Connections, Stuck(S),
           NEW d \in S, NEW lock \in tx[d].locks, lock[1] = "worker"
    PROVE  tx[d].step = "rows" /\ tx[d].op = "expire"
<1>1. NextLocks(d) # {} /\ Orderly(d) /\ Shaped(d)
  BY DEF Stuck, OrderInv, PgInv, TxInv
<1>2. tx[d].step = "rows"
  BY <1>1, WaiterHolds
<1>3. tx[d].op = "expire"
  BY <1>1, <1>2, Steps DEF Shaped, Opers
<1> QED
  BY <1>2, <1>3

\* The sweeps of such a circle wait for one another.
LEMMA SweepsStuck ==
    ASSUME PgInv, OrderInv, NEW S \in SUBSET Connections, Stuck(S)
    PROVE  Stuck({c \in S : tx[c].op = "expire"})
<1> DEFINE sweeps == {c \in S : tx[c].op = "expire"}
<1> SUFFICES ASSUME NEW c \in sweeps
             PROVE  \E lock \in NextLocks(c), d \in sweeps \ {c} : lock \in tx[d].locks
  BY DEF Stuck
<1>1. PICK lock \in NextLocks(c), d \in S \ {c} : lock \in tx[d].locks
  BY DEF Stuck
<1>2. tx[c].step \in {"scan", "rows", "write"}
  BY Steps DEF PgInv, TxInv, Shaped
<1>3. lock[1] = "worker"
  BY <1>1, <1>2, WaitsFor
<1>4. tx[d].op = "expire"
  BY <1>1, <1>3, RowHolderSweeps
<1> QED
  BY <1>1, <1>4

\* Without a sweep, a circle would consist of transactions that wait for GPU keys.
LEMMA OnlyGpusWait ==
    ASSUME PgInv, OrderInv, NEW S \in SUBSET Connections, Stuck(S), S # {},
           {c \in S : tx[c].op = "expire"} = {}
    PROVE  /\ \E c \in S : tx[c].step = "gpus"
           /\ \A c \in S : tx[c].step \in {"gpus", "identity"}
<1>1. ASSUME NEW c \in S, NEW lock \in NextLocks(c), NEW d \in S \ {c}, lock \in tx[d].locks
      PROVE  lock[1] # "worker"
  BY <1>1, RowHolderSweeps
<1>2. \A c \in S : NextLocks(c) # {} /\ Orderly(c)
  BY DEF Stuck, OrderInv
<1>3. \A c \in S : tx[c].step \notin {"own_row", "worker", "retire", "rows"}
  <2> SUFFICES ASSUME NEW c \in S, tx[c].step \in {"own_row", "worker", "retire", "rows"}
               PROVE  FALSE
    OBVIOUS
  <2>1. PICK lock \in NextLocks(c), d \in S \ {c} : lock \in tx[d].locks
    BY DEF Stuck
  <2>2. lock[1] = "worker"
    BY <2>1, WaitsFor
  <2> QED
    BY <1>1, <2>1, <2>2
<1>4. ASSUME NEW d \in S, NEW lock \in tx[d].locks
      PROVE  tx[d].step = "gpus" /\ lock[1] \in {"identity", "gpu"}
  BY <1>2, <1>3, <1>4, WaiterHolds
<1>5. \A c \in S : tx[c].step \in {"gpus", "identity"}
  <2> SUFFICES ASSUME NEW c \in S PROVE tx[c].step \in {"gpus", "identity"}
    OBVIOUS
  <2>1. PICK lock \in NextLocks(c), d \in S \ {c} : lock \in tx[d].locks
    BY DEF Stuck
  <2>2. lock[1] \in {"identity", "gpu"}
    BY <1>4, <2>1
  <2>3. \/ tx[c].step = "identity" \/ tx[c].step = "gpus"
        \/ lock[1] \in {"worker", "job", "key"}
    BY <2>1, WaitsFor
  <2> QED
    BY <2>2, <2>3
<1>6. \E c \in S : tx[c].step = "gpus"
  <2>1. PICK c \in S : TRUE
    OBVIOUS
  <2>2. PICK lock \in NextLocks(c), d \in S \ {c} : lock \in tx[d].locks
    BY DEF Stuck
  <2> QED
    BY <1>4, <2>2
<1> QED
  BY <1>5, <1>6

\* Among waiting registrations, one waits for the greatest key of all; whoever holds that
\* key waits for a greater one.
LEMMA GpusNotStuck ==
    ASSUME OrderInv, NEW S \in SUBSET Connections, Stuck(S),
           \E c \in S : tx[c].step = "gpus",
           \A c \in S : tx[c].step \in {"gpus", "identity"}
    PROVE  FALSE
<1> DEFINE waiting == {c \in S : tx[c].step = "gpus"}
           key(c) == LeastOf(tx[c].seen)
<1>1. PICK high \in Int : \A k \in LockKeys : k \in Int /\ k <= high
  BY KeysBounded
<1>2. \A c \in waiting : /\ key(c) \in tx[c].seen /\ tx[c].seen \subseteq LockKeys
                         /\ key(c) \in Int /\ key(c) <= high
  <2> SUFFICES ASSUME NEW c \in waiting
               PROVE  /\ key(c) \in tx[c].seen /\ tx[c].seen \subseteq LockKeys
                      /\ key(c) \in Int /\ key(c) <= high
    OBVIOUS
  <2>1. tx[c].seen # {} /\ tx[c].seen \subseteq LockKeys
    BY DEF OrderInv, Orderly
  <2> QED
    BY <1>1, <2>1, LeastKey
<1> DEFINE below == {high - key(c) : c \in waiting}
<1>3. below \subseteq Int /\ below # {} /\ \A n \in below : 0 <= n
  BY <1>2
<1>4. PICK least : least \in below /\ \A n \in below : least <= n
  <2>1. 0 \in Int
    OBVIOUS
  <2> HIDE DEF below
  <2> QED
    BY <1>3, <2>1, LeastOfBounded
<1>5. PICK c \in waiting : least = high - key(c)
  BY <1>4
<1>6. \A d \in waiting : key(d) <= key(c)
  <2> SUFFICES ASSUME NEW d \in waiting PROVE key(d) <= key(c)
    OBVIOUS
  <2>1. high - key(c) <= high - key(d)
    BY <1>4, <1>5
  <2>2. key(c) \in Int /\ key(d) \in Int
    BY <1>2
  <2> HIDE DEF key
  <2> QED
    BY <1>1, <2>1, <2>2
<1>7. PICK lock \in NextLocks(c), d \in S \ {c} : lock \in tx[d].locks
  BY DEF Stuck
<1>8. lock = Gpu(key(c))
  BY <1>7, WaitsFor
<1>9. d \in waiting
  <2>1. tx[d].step = "identity" => tx[d].locks = {}
    BY <1>7 DEF OrderInv, Orderly
  <2> QED
    BY <1>7, <2>1
<1>10. key(c) < key(d)
  <2>1. lock[1] = "gpu" /\ lock[2] = key(c)
    BY <1>8, KindOf
  <2>2. \A k \in tx[d].seen : lock[2] < k
    BY <1>7, <1>9, <2>1 DEF OrderInv, Orderly
  <2> QED
    BY <1>2, <1>9, <2>1, <2>2
<1> QED
  BY <1>2, <1>6, <1>9, <1>10

\* Transactions of the PostgreSQL backend never wait for each other in a circle, for any
\* number of connections, unless sweeps are stuck among themselves (PostgreSQL aborts one
\* of them): registrations take GPU keys upwards, everything else takes a job before a
\* worker.
THEOREM PostgresNoDeadlock ==
    ASSUME MaxTime <= MaxLag
    PROVE  PgSpec => []NoDeadlock
<1>1. PgInit => OrderInv
  BY DEF PgInit, OrderInv, Orderly, Idle
<1>2. (IInv /\ PgInv) /\ OrderInv /\ [PgNext]_pgvars => OrderInv'
  BY OrderStep
<1>3. (IInv /\ PgInv) /\ OrderInv => NoDeadlock
  <2> SUFFICES ASSUME PgInv, OrderInv, NEW S \in (SUBSET Connections) \ {{}}, Stuck(S)
               PROVE  /\ {c \in S : tx[c].op = "expire"} # {}
                      /\ Stuck({c \in S : tx[c].op = "expire"})
    BY DEF NoDeadlock
  <2>1. Stuck({c \in S : tx[c].op = "expire"})
    BY SweepsStuck
  <2>2. ASSUME {c \in S : tx[c].op = "expire"} = {} PROVE FALSE
    <3>1. S \in SUBSET Connections /\ S # {}
      OBVIOUS
    <3>2. /\ \E c \in S : tx[c].step = "gpus"
          /\ \A c \in S : tx[c].step \in {"gpus", "identity"}
      BY <2>2, <3>1, OnlyGpusWait
    <3> QED
      BY <3>1, <3>2, GpusNotStuck
  <2> QED
    BY <2>1, <2>2
<1> QED
  BY <1>1, <1>2, <1>3, PgInductive, PTL DEF PgSpec
=============================================================================
