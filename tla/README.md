# AstrumWeaver: TLA+ models, checks and proofs

AstrumWeaver runs inference jobs on GPU workers. A *Control* process keeps the
workers and the job queue; a *Worker* process on each machine enrols with the
GPUs it owns, claims jobs, executes them with a managed inference runtime and
reports results; *Setup* installs both on a machine. This directory models that
code (`src/astrumweaver` of the repository), checks it with TLC on small
instances and proves the most important results with TLAPS for every instance.

## The system

| Part | State it keeps | Operations | What is hard |
|---|---|---|---|
| Scheduling matcher (`scheduling.py`, `contracts.py`) | none | `match_worker`; the same test again as the WHERE clause of the claim query | two definitions of one predicate; 32-bit casts |
| Control repository (`control/repository.py`, `control/postgres.py`) | worker rows (topology, state, `active_jobs`, `last_seen_at`), job rows (status, attempts, lease) | register, set state, heartbeat, expire; submit, claim, complete, fail, cancel, recover | concurrent transactions, locks, stale reads, late calls, retries, idempotent replays |
| Control API and maintenance (`control/api.py`, `daemon.py`, `auth.py`) | one background task | one repository call per request; a round of the two sweeps | a sweep that fails |
| Schema migrations (`control/migrate.py`) | the ledger table | apply in order | interruption between SQL and ledger |
| Worker runtime (`worker/runtime.py`, `client.py`, `execution.py`) | acknowledged Control state and its validity, heartbeat deadline, active attempt, drain and stop intent | register, heartbeat, claim, execute, terminal write, drain, stop | answers that come late or not at all; drain and health loss during a call |
| Runtime health (`worker/supervision.py`) | latched failure, validity of the last good probe | probe loop, probe after an executor error, close | probes that overlap, time out or answer late |
| Worker daemon (`worker/daemon.py`) | tasks, signals | start, drain, grace period, forced end | order of the shutdown |
| Borrowable mode (`worker/mode.py`) | none of its own: it reads systemd and the GPU's process list | to development, to astrumweaver | a step that fails half way; a Worker that comes back by itself |
| Runtime lifecycle (`runtime/lifecycle.py`, `runtime/providers/*`) | the process, whether it was closed and released | ensure ready, generate, stop, release | time budgets, processes that do not stop, another server at the address |
| Runtime planner and deployment (`runtime/planner.py`, `deployment.py`, `contracts.py`) | the manifest on disk | evaluate, freeze in a manifest, build the runtime from it | the manifest is read back on a Worker that has changed |
| Runtime providers (`runtime/providers/*`) | none in this part | launch policy, compatibility, setup intent, command; once for each of five providers | one rule in two or three places per provider |
| GPU mapping (`gpu_mapping.py`) | none | resolve devices to identities | ambiguous and missing devices |
| Setup planner (`setup/planner.py`) | none | the actions of a plan and their order | what must precede what |
| Setup apply and systemd driver (`setup/apply.py`, `systemd.py`, `filesystem.py`, `migration.py`, `tui.py`, `first_run.py`) | Worker TOML, unit, rendered files, driver bridge, the service; receipts of what was done | review, approve, inspect, apply, roll back | an action that fails half way, a rollback that fails too, an operator who edits meanwhile, a reload that is missing |
| Validation (`validation/*`) | none | an acceptance test on real hardware | - |

Workers call Control over HTTP, one call at a time per worker; every call is
one method of the repository. The sweeps (`expire_stale_workers`,
`recover_expired_jobs`) run in Control's maintenance task beside those calls.
With PostgreSQL several Control processes may share the tables. Ownership of a
GPU is a fact of the worker table: a worker owns its GPUs while it is ONLINE or
DRAINING, or OFFLINE with a job still running.

What makes each part correct:

* *Repository*: a GPU has one user; `active_jobs` is right, although four
  methods write it in three ways; a job has one lease holder, and only that one
  completes it; retries are bounded; a key names one job; a terminal job stays
  as it is; only silent workers are taken OFFLINE; concurrent transactions
  leave nothing that serial calls could not; they do not deadlock.
* *Worker*: it works only under a confirmed lease and a healthy runtime; a drain
  is never undone by a late answer; OFFLINE is reported after the runtime let
  the GPU go.
* *Runtime*: what is started is what was reviewed, on the Worker's own GPUs; no
  process outlives a clean end; nobody else's model is unloaded; lending the GPU
  is an exclusive handover, after the job the Worker has.
* *Setup*: what was applied is rolled back, or said to be left; no Worker is
  started under a TOML, unit and manifest that do not fit; restoring a file does not
  overwrite what an operator made of it.
* *Control service*: ready means migrated; every round of maintenance is followed
  by another.

Where the code falls short of one of these, it is a finding with a run of its own or one of
the further divergences below, and the property of the passing run says what does hold.

## Modules

| Module | Models | State and actions |
|---|---|---|
| `Scheduling` | `scheduling.py`, validation in `contracts.py`, WHERE clause of `claim_next_job` in `postgres.py` | pure operators over worker specs and requirements |
| `ControlContract` | the `ControlRepository` protocol and what each method does to the two tables | `workers`, `jobs`, `leases_issued` (uuid4 tokens, numbered), `clock`; one action per method, named as in the code |
| `InMemoryRepository` | `InMemoryControlRepository` | adds the sequence counter and the key index; one step per call (the RLock) |
| `PostgresRepository` | `PostgresControlRepository` | adds one transaction per connection; one step per SQL statement that can wait or whose result is used later |
| `HealthGate` | what the Worker relies on in `RuntimeHealthSupervisor` | `gate`: starting, ready, failed, stopped |
| `RuntimeHealth` | `worker/supervision.py` | the gate's fields, the monitor task, the two callers of `check()` and their lock; one action per point where a coroutine goes on |
| `WorkerRuntime` | `worker/runtime.py`, the calls of `client.py`, the shutdown in `daemon.py`, the handlers of `control/api.py` | extends `ControlContract` and `HealthGate`; adds the worker's fields, the call under way, the abandoned requests and where each coroutine stands; one action per stretch between two awaits |
| `ControlService` | `control/migrate.py`, `check_storage` in `postgres.py`, lifespan and maintenance loop in `control/api.py` | the schema and its ledger, two migrators, the loop; one action per SQL statement and per sweep |
| `SetupPlan` | `setup/planner.py`, approval in `setup/apply.py` and `tui.py` | pure operators: a plan is the sequence of its actions |
| `SetupApply` | `setup/apply.py`, `systemd.py`, `filesystem.py`, `migration.py` | extends `SetupPlan`; the host, the place in `apply_plan` and in a handler of the driver, the receipts; one action per write and per `systemctl` call |
| `ExecutionAuthority` | what `setup` promises about the installed Worker | `authority`, `worker`, `alone` |
| `RuntimeProviders` | `runtime/providers/*`: validation, launch policy, compatibility, command | pure operators, five of each kind |
| `RuntimeDeployment` | `runtime/contracts.py`, `planner.py`, `deployment.py`, `create_runtime` of the providers, the start in `worker/daemon.py` | extends `RuntimeProviders`; the facts, the manifest, what was reviewed and what was launched |
| `ManagedRuntime` | the managed runtimes and process controllers of `runtime/providers/*`, `runtime/lifecycle.py`, `run_worker` around them | the process, the listener at the address, the place in the code; one action per request and per signal |
| `BorrowableMode` | `worker/mode.py`, and systemd as it uses it | extends `ManagedRuntime`; the service, the command and its place |
| `MCAgreement`, `MCInMemory`, `MCPostgres`, `MCRuntimeHealth`, `MCWorkerRuntime`, `MCSetup` | - | the instances TLC checks |
| `ControlContract_proofs`, `InMemoryRepository_proofs`, `PostgresRepository_proofs`, `WorkerRuntime_proofs`, `RuntimeHealth_proofs`, `SetupApply_proofs`, `BorrowableMode_proofs`, `Agreement_proofs` | - | theorems and proofs; `BorrowableMode_proofs` covers `ManagedRuntime` too, `Agreement_proofs` covers `Scheduling`, `RuntimeDeployment` and `ControlService` |

`ControlContract` is the abstract specification. It says what a call may do and
leaves open where the backends differ: which eligible job is claimed, which part
of what is due a sweep takes, when a claim retires its caller.
`InMemoryRepository` and `PostgresRepository` are shown to implement it
(`Contract`, `PgContract`).

`HealthGate` is the abstract specification of the supervisor: it opens once and a
failure is final. `RuntimeHealth` implements it (`GateRefined`). Its time is kept
as what is left of each deadline, so no clock has to be bounded; a deadline that
has passed stays at 0 until the event loop gets round to its coroutine, however
late. A proof that has expired but that nobody has looked at yet counts as failed
in the refinement mapping, because `available` latches the failure when it is read.

`WorkerRuntime` composes the parts: one worker process makes its calls on the
tables of `ControlContract`, behind the gate of `HealthGate`. `main` is where
`run_forever` stands, `drain` where the two callers of `drain()` stand, `daemon`
where `run_worker` stands. The worker awaits nothing but one call while it holds
`_control_lock`, so the lock needs no variable: it is held while `rpc` is a call.
Control executes the call (`Serve`) or not, the answer arrives or not
(`Unanswered`), and a call whose caller gave up or was cancelled may still be
executed at any later time (`ServeLate`); the effect is therefore at most once per
call, as the client never repeats one. `Others` are Control's sweeps, a client's
cancel, an operator and a second worker. The module has no running clock: a step
of time makes every timestamp one unit older until no comparison can tell the
difference, so runs are not bounded in time. Time does not pass while a step of the
event loop that matters for the lease is due (`Lagging`): the loop is responsive. The
reply to a call that Control has executed may take until the call's time limit.
The health server's failure, refused credentials and a restart of the process are
left out; a restart is a new registration, which `ControlContract` covers.

`SetupApply` follows `apply_plan` action by action: it is inspected, applied in the
steps of the driver's handler, and leaves a receipt; an error starts the rollback of
the receipts from the last to the first. Every write and every `systemctl` call
succeeds, raises before it took effect or after it, or the setup is killed around it.
The Worker may crash and be restarted by systemd, and an operator may edit the files,
at every moment. Restoring a rendered file is four steps, as in the code: the comparison
with what was installed, the identity that `write_text` takes of the file, its second
look at it (`remove_file` compares the content again), and the rename or unlink.
`reported` are the actions whose result is `ROLLBACK_FAILED`, and nothing else: a
rollback that changes nothing, and a clean-up inside `apply()` that fails, leave no such
result. `spoiled` and `edits` are history: what the action that raised had changed and
left so, where "authority" is a clean-up of TOML and unit that failed; and the rendered
files that were edited where the restoring still looks (not those in `Unnoticed`: read
and about to be written, compared and not yet identified, or about to be renamed over).
`ExecutionAuthority` is the
abstract specification: what a Worker started now would run changes only while the
Worker is stopped, and a Worker is started only when TOML, loaded unit and manifest
fit. `SetupApply` implements it (`AuthorityRefined`).

`ManagedRuntime` stands for five copies of one lifecycle: Ollama, llama.cpp, vLLM,
FreeToken and ExLlamaV3 repeat the same start, health, stop and release, so its
definitions are mapped to different copies. Only Ollama loads and unloads a model; the
model therefore tells "ollama" and "other" apart. Requests go to whoever listens at
the configured address. `BorrowableMode` puts the Worker daemon with that runtime
under a systemd unit with `Restart=on-failure`, and the two commands beside it. A command
is given a drain timeout or, by default, none (`patient`); without one it waits for the
Worker as long as the Worker has a job.

`RuntimeDeployment` keeps the rules of the five providers as they are and abstracts
what a launch takes over unread into one setting (`options`). A manifest goes through
JSON, which turns sequences and absent settings into what the reader makes of them;
between its writing and a start the Worker's GPUs, labels and memory may change.

In `ControlService` the unit has an `ExecStartPre` that migrates, or, by default
(`migrateOnStart` of the NixOS module), none. In that case the service starts on whatever
database it finds, and the same program is run by hand, at any time or never; the sweeps
then raise until the tables are there, and `check_storage` answers unavailable.

`MCAgreement` holds three parts that share no state and belong together only by their
question: does what is written down twice agree? `part` says which a behaviour is
about.

Conventions. A method that raises or returns the current record changes nothing,
so it is no action. A timestamp is read when the call starts and used when it
takes effect; the contract therefore lets every effect use any time up to
`MaxLag` before the clock. Names, payloads and labels are compared only, so they
are small sets. A job's result is represented by the token of the attempt that
produced it. In `PostgresRepository` `workers` and `jobs` are the committed
tables; a transaction's writes become visible in its last step, locks are held
until then, SELECTs see what is committed when they run (READ COMMITTED), an
UPDATE of many rows locks them one by one and checks its WHERE clause again on
each, `SKIP LOCKED` leaves locked rows out, the unique index makes an insert
wait for an uncommitted one, and the identity sequence is not rolled back. How
PostgreSQL locks is external to the repository and modelled from how the code
relies on it (`Held`, `MayTake`). `Abort` may end a transaction at any
statement: a lost connection, a killed process, a deadlock victim.

Operators named `Mut_...` stand before the definition they are a faulty variant
of. No specification uses them; putting one in place of its definition must make
TLC find the property it is listed with in `PROJECT.json` violated.

## Runs

`Contract` is checked and proved for the in-memory backend and `PgContract` for the
PostgreSQL one, so every invariant proved of the contract holds in both. Properties that
are several statements of one idea are checked as one conjunction of named parts:
`Accounting`, `JobsFenced`, `FitsWorkerNow`, `ReleasedWhenOver`.

| Run | Instance | What it shows |
|---|---|---|
| `agreement` | every valid small worker and job with amounts 0..3; 9 kinds of Worker, demands over all formats, topologies and residency policies and three sizes, every configuration that differs from the default in at most two settings; a new, a pre-ledger and an older database, with and without `migrateOnStart`, 3 failures | the claim query decides as the matcher does; what a Worker starts is what was reviewed and, after a change, confined to the GPUs of now (or to none, where it has none), with a split that fits them, no off-loading where the demand forbids it, and a vLLM group as large as the Worker it was derived for; ready means migrated, a migration before the start ends, sweeps are followed by sweeps |
| `in_memory` | 2 workers, 1 GPU, 2 jobs (one keyed and retried), clock 0..2 | every step is a contract step; leases, fencing of late calls, retries, expiry |
| `pg_calls` | 2 connections; either 2 workers with overlapping topologies and colliding lock keys over time, or 1 worker and 2 jobs with 2 submissions under one key | exclusive ownership, no deadlock but among sweeps, refreshed workers stay live; accounting under concurrency, the replay after a conflicting insert; contract steps only |
| `pg_leases` | 2 workers, 2 connections, 1 job with 2 attempts | contract steps only, the handover of a GPU included; lock order job - worker |
| `runtime_health` | interval 2, timeout 3, any runtime, any delay | the gate is open on fresh proof only and never reopens; faults are noticed, in time when the event loop is responsive; no false alarm |
| `worker_leases` | 2 workers, 1 job with 2 attempts, lease 6, TTL 2, interval and timeout 1, 1 abandoned request | nothing is executed without its lease; OFFLINE after the runtime's stop; no claim in a drain; no heartbeat on a finished lease |
| `worker_shutdown` | 1 worker, 1 job, lease 2, TTL 1, 1 SIGUSR1 | a SIGTERM ends the process |
| `setup_apply` | 4 kinds of plan, 2 sets of host facts, 2 applies, 2 failures, kills, crashes or edits | a failed apply without a `ROLLBACK_FAILED` has restored the host, but for what the failing action left and a Worker it may not start; a successful one runs what was reviewed; an edit survives wherever the restoring still looks at the file; the execution authority |
| `gpu_lending` | one Worker, both kinds of provider, with and without a drain timeout, any number of failures | OFFLINE means released; no process is left; only the own model is unloaded; the handover is exclusive as long as no daemon dies, and stops no job the Worker had when it was asked to drain; a dead runtime is noticed; a command ends or is in a wait for the drain that has no timeout |
| `gpu_restart` | the same | **violation**: a Worker that waits for its restart comes back on a lent GPU |
| `gpu_claim` | the same | **violation**: a job whose claim was on its way when the drain was requested is cut off |
| `pg_stale_claim` | 1 worker, 2 connections | **violation**: a claim takes a refreshed worker OFFLINE |

Bounds. Two workers are needed for a conflict over a GPU and two connections for
a race of transactions; the locks are pairwise and every lock order in the code
is a chain of at most identity, GPU keys, own row or job, worker, so a circle of
two shows a wrong order. Two jobs are needed to share a worker's capacity, two
attempts for a retry. `WorkerTtl = LeaseSeconds = 1` with a clock up to 2 lets
a worker go stale and a lease end, be recovered and end again. `MaxLag` is larger
than `MaxTime` in the PostgreSQL runs, where the lag arises from lock waits.
`pg_calls` checks two instances at once, which share no interesting interleaving: one has
two workers, time and no jobs, the other one worker, one instant and jobs, and starts with
an identity sequence whose first number a rolled-back submission has used up. Deadlock checking stays on where the system always has a next step. It is off in the
worker's runs (a process that has ended takes no more steps), in `setup_apply` (the
applies are over), in `agreement` (a database is migrated, the failures are used up)
and in the runs about lending.

In `worker_leases` a lease of 6 units, with an interval and a timeout of 1, is the least
that `LeaseOutlasts` allows, and the least for which `ExecutesOnlyLeased` holds: with 5
TLC finds an attempt that is executed after its recovery. A renewal may be one timeout
old when it is acknowledged; after the interval the daemon's drain comes first, fails at
its timeout and puts the owner's heartbeat off by another interval; that heartbeat takes
a timeout to fail. Every SIGUSR1 adds an interval and a timeout (the divergence below);
the run has none, `worker_shutdown` has one, and the theorem is about any number. The
defaults (heartbeat 5 s, request timeout 10 s, lease 300 s) satisfy `LeaseOutlasts` with
up to 17 SIGUSR1 during one process's life.
One abandoned request is enough for a call of an earlier attempt to meet a later
one.

An interval of 2 and a timeout of 3 in `runtime_health` let a probe start, wait
for the other one and answer in time, too late, or after the proof it renews.

In `setup_apply` two troubles are the least for a failure whose rollback fails too, and
two applies for a plan that meets what an earlier one left. The initial hosts are those
`MCInit` keeps: an older driver bridge is found where the Worker runs and none where it
is stopped, and for the plans without TabbyAPI the Worker is the current one; each value
still occurs. In `agreement` the amounts reach one beyond a Worker's, and three failures
allow a migrator to be killed, its successor to fail and the sweep to fail. Two changed
settings are the least for a pair of settings that exclude each other. Demands are thinned out by
`MCDemands`: minima of memory go together, and whether a model is local follows its
format. `IntMax` is the
largest amount, because above the integer range the two do not agree (below). In
`gpu_lending` nothing is counted and nothing is bounded.

Fairness is assumed in four passing runs. In `gpu_lending`
the daemon and the command are run, systemd ends the unit's processes and ends a stop
at its time limit (`TimeoutStopSec`); neither the runtime, the executor nor a foreign
server has to answer, as every request has a time limit, and the Worker's job need not
end. In `agreement` the service and, with `migrateOnStart`, its migrator are started again
by systemd, and the loop is run by asyncio; nobody has to migrate by hand. Each fairness
condition is about the part "service" and says nothing of the others, so all three parts
have behaviours that satisfy the specification. In
`worker_shutdown` the owner's coroutine and the
daemon's are run when they can go on (asyncio's lock is first come, first served),
the first probe and every request end (both have a time limit), and the grace period
ends (it is a deadline); neither Control, the executor nor the runtime has to do
anything. In `runtime_health` time passes, and a coroutine of the
supervisor that can go on is run at some time (weak fairness of `Tick`, `WakeUp`
and each prober's steps). That is what asyncio's loop does; nothing is assumed of
the runtime, which need not answer. All other properties are safety properties,
so nothing is assumed about which call comes next or whether a sweep ever runs.

## Findings

* `pg_stale_claim`: the claim reads the worker row without a lock and then writes
  OFFLINE with no condition; a heartbeat committed in between is overruled, and a
  heartbeat cannot bring the worker back.
* `gpu_restart`: `to_development` stops the Worker only when `systemctl is-active`
  says so, which it does not while the unit waits for its automatic restart. The GPU
  is found idle, the switch succeeds, and the Worker comes back on the lent GPU.
* `gpu_claim`: the Worker reports draining and no job while a claim sent before the drain
  is on its way (`worker/runtime.py:355`); it is stopped, and the job that the claim brings
  is cancelled when the grace period is over. `docs/borrowable-worker.md:34` says that no
  job is forced.

### Further divergences

Met while modelling; the code does the first, the text says the second. Each is part of a
model, and the properties say where they stay clear of it or describe what the code does.

* The minima of a job are cast to `::integer` in the claim query
  (`control/postgres.py:657`) and unbounded in `JobRequirements`; one job with a larger
  minimum makes the claim of every worker that evaluates the row fail, where the matcher
  says "no match" (`docs/control-plane.md:129`). `QueryAgreesWithMatcher` is about amounts
  in range; the theorem `ClaimQueryIsMatcher` is about all.
* On a Worker without GPUs the providers set neither `CUDA_VISIBLE_DEVICES` nor
  `--device-ids` (`ollama.py:204`, `llama_cpp.py:398`, `vllm.py:296`). A manifest that was
  reviewed for GPUs starts there all the same, and sees every GPU of the host
  (`docs/runtime-llama-cpp.md:108`, `docs/runtime-vllm.md:93`). `OwnGpusShown` says that
  the runtime has no mask there.
* A vLLM deployment with a persisted intent keeps the tensor-parallel size of its review,
  so GPUs that were added take no part (`docs/runtime-vllm.md:112`, `122`).
  `SplitsCoverGpus` says for which Worker the size is the right one.
* `RUNTIME_STOP` is declared reversible and its rollback only returns a receipt
  (`setup/systemd.py:1491`); a `WORKER_STOP` whose rollback refuses to start the Worker
  returns one too (`1446`). Both are recorded as `ROLLED_BACK`, and the Worker that ran
  before is stopped (`docs/runtime-setup.md:240`, `294`). `RollbackRestores` names these
  cases (`LeftStopped`).
* The rollback of a reconciliation writes `worker.toml` and the unit back without
  comparing what is there (`setup/systemd.py:1416`); `docs/setup-filesystem-safety.md:69`
  says that it refuses what was changed meanwhile. `EditsKept` is about rendered files
  only.
* As in `gpu_restart`, a Worker between a crash and its automatic restart counts as
  stopped for the setup (`setup/systemd.py:784`), and systemd may start it while TOML and
  unit are exchanged (`docs/getting-started.md:296`). `SuccessRunsReviewed` and
  `AuthorityRefined` leave out hosts whose Worker crashes during the apply (`disturbed`).
* A retry overwrites `available_at`, and the replay check compares the submitted
  `available_at` with that column (`control/repository.py:141`), so a replay after a
  retry is refused (`docs/control-plane.md:146`).
* A heartbeat that fails in `drain()`, also with a conflict, is suppressed by both
  callers (`worker/runtime.py:397`, `daemon.py:254`, `291`), and the attempt goes on
  until the next one; `docs/worker-liveness.md:112` says that a failed lease heartbeat
  cancels the execution. `LeaseOutlasts` says how long the lease has to be for that.
* A clean-up inside `apply()` that fails is swallowed (`setup/systemd.py:1275`), and the
  result says only that the apply failed. `RollbackRestores` counts what it leaves as
  `spoiled`.
* A Worker that starts from a manifest evaluates its provider's rules and not the
  generic ones (`runtime/deployment.py`, against `docs/runtime-providers.md:75`, `229`).
  That is how a Worker without GPUs comes to start what was reviewed for some.
* On NixOS no code writes TabbyAPI's `config.yml`, whose path the command names.
* An error in `expire_stale_workers` costs `recover_expired_jobs` its turn of that round
  (`control/api.py:84`); `MaintenanceKeepsUp` shows that a later round makes up for it.
* `start()` takes a foreign server at its address for its own until the next look at its
  process, and a failed start of Ollama sends its unload to whoever listens.
  `UnloadsOwnOnly` is about the release of a runtime that was started.

## Proofs

TLAPS proves every safety property that a passing run checks, invariants and action
properties, for all values of the constants under the assumptions named below.

| Module | Theorems (property) |
|---|---|
| `ControlContract_proofs` | `TypeCorrect` (`TypeOK`), `GpusExclusive` (`GpuExclusive`), `CapacityAccounting` (`Accounting`), `Leases` (`LeaseConsistent`), `JobsBounded` (`RetriesBounded`), `LateCallsFenced` (`JobsFenced`) |
| `InMemoryRepository_proofs` | `InMemoryImplementsContract` (`Contract`), `IndexAlwaysAccurate`, `InMemoryOfflineOnlyWhenStale` (`OfflineOnlyWhenStale`), `InMemoryFencesLateCalls` (`JobsFenced`) |
| `PostgresRepository_proofs` | `CommitsAreCalls` (`PgContract`), `PostgresGpusExclusive` (`GpuExclusive`), `PostgresAccounting` (`Accounting`), `InsertFindsConflict` (`ConflictingInsertPersisted`), `PostgresSweepsStaleOnly` (`SweepTakesStaleOnly`), `PostgresNoDeadlock` (`NoDeadlock`) |
| `WorkerRuntime_proofs` | `NoClaimOnceDraining` (`NoClaimWhileDraining`), `TerminalLeaseIsOver` (`TerminalLeaseNotReused`), `OfflineReportIsLast` (`OfflineAfterRelease`), `AttemptsAreLeased` (`ExecutesOnlyLeased`) |
| `RuntimeHealth_proofs` | `OpenOnFreshProofAlways` (`OpenOnFreshProof`), `SupervisorImplementsGate` (`GateRefined`), `FaultClosesGateInTime` (`FaultNoticedInTime`), `NeverFalselyAlarmed` (`NoFalseAlarm`) |
| `SetupApply_proofs` | `FailedApplyRestores` (`RollbackRestores`), `ActivationRunsReviewed` (`SuccessRunsReviewed`), `OperatorEditsKept` (`EditsKept`), `KeepsAuthority` (`AuthorityRefined`) |
| `BorrowableMode_proofs` | `ReleasedFirst` (`ReleasedWhenOver`), `ForeignModelsKept` (`UnloadsOwnOnly`), `HandoverExclusive` (`ExclusiveHandover`), `StoppedAfterJob` (`JobsFinish`) |
| `Agreement_proofs` | `ReadyOnlyWhenMigrated` (`ReadyMeansMigrated`), `ClaimQueryIsMatcher`, `QueryAgrees` (`QueryAgreesWithMatcher`), `StartsAsReviewed` (`LaunchedAsReviewed`), `StartsFittingRuntime` (`FitsWorkerNow`) |

### What is assumed

Named assumptions stand in the modules that declare the constants, and TLC evaluates
them in the runs.

* `ContractAssumption`: the constants have their types, specs and submissions are valid,
  TTL, lease and `max_attempts` are positive, as the constructors demand.
* `LockKeyAssumption`: an advisory lock key is a signed number of four bytes
  (`_ownership_lock_key`). The proof against deadlock needs an order on all keys.
* `HealthAssumption`: interval and timeout are positive, as the constructor demands.
* `FactsAssumption`, `DemandsAssumption`, `ConfigsAssumption`: a Worker without GPUs has
  no VRAM, a demand has passed `ExecutionDemand.__post_init__`, a configuration has passed
  its provider's constructor, JSON null is no array.

Some theorems have a hypothesis of their own.

* The theorems of `PostgresRepository_proofs` take `MaxTime <= MaxLag`: a transaction
  reads its timestamp before it waits for locks, and nothing in the code limits that
  wait, so the contract is taken with a lag that covers any wait.
* `AttemptsAreLeased` takes `LeaseOutlasts` (see Bounds); without it the property is false.
* `OfflineReportIsLast` takes `"offline" \notin RequestedStates`: an operator may take a
  worker OFFLINE at any time.
* `ActivationRunsReviewed`: every activation comes with a configuration, as the
  setup intent of each provider does; that is what makes the plan render one.
* `QueryAgrees`: all amounts fit a PostgreSQL integer. `ClaimQueryIsMatcher` says what
  happens otherwise: the query raises.

### The arguments

*Contract.* The inductive invariant `IInv` is the conjunction of the type invariant, the
safety invariants and `RequestKept` (a job that exists carries a submission that
was made). None of them is inductive alone. `GpuExclusive` speaks of running
jobs, but the ownership check reads the `active_jobs` column, so the two need
`ActiveJobsAccurate`; that needs `LeaseConsistent` (a job that stops running has
a worker to be counted off), and `WithinCapacity` needs both, because a
registration compares with the column. `RunningJobSuits` needs the accounting
too: a topology may only change when the column says that nothing runs.
`LeaseConsistent` needs that tokens do not exceed `leases_issued`, so that a new
one is fresh. There is one lemma per action; what actions share is proved once:
`WorkersOnly` (steps that leave jobs alone), `ReleasesOnly` (steps that take
workers OFFLINE), `EndsKeep` (steps that end a set of running jobs and give their
capacity back), `EnrolExclusive` (a worker takes what the ownership check allowed).

*In-memory backend.* Every action but `submit_job` is literally a contract
action with a narrower choice; `submit_job` needs `IndexAccurate`, because it
looks the key up in the index where the contract looks at the jobs.

*PostgreSQL backend.* `PgInv` adds to the contract's invariant what each transaction
knows at each of its statements (what it has read and still holds, because it locks the
row or the advisory key, or because no other transaction can change it), that two
transactions hold no lock together, and that no job is beyond the identity sequence. A
step of one connection changes the tables only in its commit, so the knowledge of the
others is kept by one frame argument: what they rely on is locked by them, or only grows.
With that, each commit is matched with the contract action it stands for. For deadlocks
`OrderInv` says what a transaction may hold while it waits: nothing before its first lock,
a job row before a worker row, its identity and smaller GPU keys before a GPU key, and
worker rows only in a sweep. Among stuck transactions nobody but a sweep can therefore hold
a worker row that a waiting one needs, and of those that wait for GPU keys the one that
waits for the greatest key waits for nobody among them.
The attempt to prove the earlier form of `NoDeadlock` (no circle unless all its members
are sweeps) failed for a reason: a transaction may wait for a sweep that is itself stuck
with another sweep, which takes three connections. The property now says that stuck
transactions include sweeps that are stuck without the others.

*Worker.* The parts of the invariant say: the tables have their rows (`TableInv`); the
place in the code fits what the worker holds (`PhaseInv`); the process is gone once
OFFLINE is reported (`ReleaseInv`); the call under way and the abandoned ones carry
leases that were handed out, and a claim's answer is a lease nobody else refers to
(`CallInv`, `LateInv`); timestamps are in order (`TimeInv`), also across drains that are
still to come (`DrainInv`). These are inductive without an assumption on the timings.
`LeaseInv` adds, for each place in which an attempt is executed, how much of its lease is
left at least: it is paid for by the interval, the calls that may still come and their
time limits, and `LeaseOutlasts` is what makes the sum positive. The
first attempt failed for two reasons that TLC confirmed: replies used to arrive in no time
(the model now lets them take the timeout), and the old bound of one interval and three
timeouts overlooked that a failed drain postpones the heartbeat.

*Supervisor.* `HInv`: what is left of the validity and the age of the probe it stands for
add up to at most interval + timeout, and a gate that failed or was closed has no validity
left which a step could extend. `NoticeInv` bounds how long a runtime may have been
unready by where the monitor is. `NoFalseAlarm` rests on `LockInv` (the lock is first come,
first served, so a prober waits for one probe that began before it) and
`ProofInv`: of every proof half a timeout more than the rest of the monitor's sleep is
left, enough for the other's probe and its own.

*Setup.* The receipts are in the order of the plan. Outside of what the receipts not yet
undone remember nothing on the host has changed, and they remember how the host was when
the apply began (`RollbackInv`); so a rollback from the last to the first leads back. `HandInv` ties the step of a handler to the
action at hand, `StartsInv` says that a Worker is started only when it was found stopped and
still is. `RemembersSafety` says that a Worker is unsafe to restart, outside of the
reconciliation itself, only when a clean-up of the authority has failed, which is what
`LeftStopped` needs for a Worker that the rollback refuses to start. `InstalledInv`: the file
that is being restored is the installed one unless others acted. For the edits `RestoreInv`
says that none of the noticed ones is in a file still to be written or in one between the
comparison and the identity or between the second look and the rename, and that the identity
of a file edited in between is no longer fresh. For the success `DoneInv` says that what was done stays done, and `ManifestInv`
under which manifest a Worker runs. The refinement mapping
of `AuthorityRefined` is the one the run checks.

*Lending.* One invariant per party: `RuntimeInv` (a live process is known to the daemon;
`stop()` forgets it only when it is gone; `release()` comes last), `ModeInv` (service,
command and developers), `LentInv` (as long as no daemon ended by itself, there is none on a
lent GPU), `JobInv` (the service is asked to stop only when its Worker is quiet, and it
stays so).

*Agreement.* `LedgerInv`: a row of the ledger stands for statements that are in the
database. `DeploymentInv`: there is a choice of the operator that was compatible with the
Worker of the review, the manifest holds it with that Worker's intent or with none, and the
last start was a start of it; the rest are lemmas about each provider's rules, launch
policy and command.

### Only model-checked

Liveness is out of the prover's reach: `MigrationCompletes`, `MaintenanceKeepsUp`,
`FaultNoticed`, `ShutdownCompletes`, `DeadRuntimeNoticed`, `CommandEnds`. So are what a
recursive definition computes for every input, and `ENABLED`. The violations are
counterexamples and need no proof.

Not stated so far and worth proving: that the tables of `WorkerRuntime` move by contract
steps only, which would carry `GpuExclusive` over to it.

## Not modelled

* GPU mapping: `nvidia-smi` is called, its text parsed and compared; no state.
* Serialisation, transport and the bearer check: conversions without state. Lost and
  late answers are modelled where they matter (`WorkerRuntime`).
* Executors and the payloads of a generation: one payload becomes one result; success
  or failure is a choice in the models of their callers.
* Automatic selection of a provider (`planner.py`): it ranks the reports that an
  explicit selection uses one of.
* `ensure_stopped` and `restart` of the lifecycle manager: no caller in the program.
* The grammars of Worker TOML and unit file: they are told apart by execution mode.
* Screens, prompts and wording of the terminal interface, and the Control installation
  of the first run, a fixed sequence of commands without rollback.
* Checks against symbolic links and foreign owners in `filesystem.py`: they refuse a
  path before anything is changed.
* Hardware and deployment validation: an acceptance test on real hardware.
