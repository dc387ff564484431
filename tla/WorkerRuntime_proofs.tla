------------------------ MODULE WorkerRuntime_proofs ------------------------
(***************************************************************************)
(* What the Worker process keeps, for all timings, signals and lost calls: *)
(* it executes an attempt only under its lease, reports OFFLINE only after *)
(* its runtime process is gone, claims nothing once it drains, and never   *)
(* uses the lease of a terminal write again.                               *)
(***************************************************************************)
EXTENDS WorkerRuntime, TLAPS

-----------------------------------------------------------------------------
(* The tables                                                              *)

WorkerFields == {"spec", "max_concurrency", "state", "active_jobs", "last_seen_at"}
JobFields == {"request", "status", "attempts", "available_at", "assigned_worker_id", "lease_token",
              "lease_expires_at", "result", "error"}

\* The rows of the tables.
WorkerRows ==
    /\ DOMAIN workers = WorkerIds
    /\ \A w \in WorkerIds : /\ DOMAIN workers[w] = WorkerFields
                            /\ workers[w].state \in WorkerStates \cup {"unregistered"}
JobRows ==
    /\ DOMAIN jobs = JobIds
    /\ \A j \in JobIds : DOMAIN jobs[j] = JobFields /\ jobs[j].lease_expires_at \in Int

TableInv == WorkerRows /\ JobRows /\ leases_issued \in Nat /\ clock = 0

-----------------------------------------------------------------------------
(* The process                                                             *)

\* Where run_forever has an attempt to end, and where the executor may still run.
Busy == {"exec", "exec_hb", "probe", "final", "final_hb", "writing", "inspect", "inspecting",
         "unavailable", "abandon", "abandon_missing", "return", "cancelled"}
Executing == {"exec", "exec_hb", "inspect", "inspecting", "unavailable", "abandon",
              "abandon_missing", "return", "cancelled"}

\* A lease that was handed out.
Lease == [job : JobIds, token : 1 .. leases_issued]

PhaseInv ==
    /\ exec \in {"none", "running"} \cup Outcomes
    /\ main \in Busy => active \in Lease
    /\ main \notin Busy => active = NoClaim
    /\ exec = "running" => main \in Executing

\* The runtime process is gone before OFFLINE is reported, and stays gone.
ReleaseInv ==
    /\ process = "stopped" => main \in {"offline", "offlining", "ended"}
    /\ main \in {"offline", "offlining"} => process = "stopped"
    /\ \A r \in late_requests : r.kind = "set_state" => process = "stopped"

-----------------------------------------------------------------------------
(* Calls                                                                   *)

\* The calls the owner waits for.
OwnerKinds(m) ==
    CASE m = "registering" -> {"register"}
      [] m \in {"register_hb", "loop_hb", "claim_hb", "exec_hb", "final_hb"} -> {"heartbeat"}
      [] m = "claiming" -> {"claim"}
      [] m = "writing" -> {"complete", "fail"}
      [] m = "inspecting" -> {"inspect"}
      [] m = "offlining" -> {"set_state"}
      [] OTHER -> {}

Fields == {"by", "kind", "state", "claim", "sent_at", "reply"}

\* What a request can say.
Request(r) ==
    /\ DOMAIN r = Fields
    /\ r.claim = NoClaim \/ r.claim \in Lease
    /\ r.kind = "heartbeat" => r.state \in {"draining", "unchanged"}
    /\ r.kind \in {"complete", "fail", "inspect"} => r.claim \in Lease

CallInv ==
    /\ Request(rpc)
    /\ rpc.by \in Drainers \cup {"owner", "nobody"}
    /\ rpc.by = "owner" => rpc.kind \in OwnerKinds(main)
    /\ OwnerKinds(main) # {} => rpc.by = "owner"
    /\ rpc.by \in Drainers => rpc.kind = "heartbeat" /\ drain[rpc.by] = "calling"
    /\ rpc.by = "nobody" => rpc = NoRpc
    /\ rpc.kind = "heartbeat" => rpc.reply \in WorkerStates \cup Errors \cup {"pending"}
    /\ exec = "running" /\ rpc.kind = "heartbeat" => rpc.claim = active
    /\ rpc.reply = "job" => rpc.kind = "claim" /\ rpc.claim \in Lease
    /\ main = "written" => rpc.claim = NoClaim
    /\ rpc.sent_at \in Int /\ -RequestTimeout <= rpc.sent_at /\ rpc.sent_at <= 0

LateInv ==
    \A r \in late_requests :
        /\ Request(r) /\ r.by = "nobody" /\ r.reply = "pending"
        /\ r.kind \in {"complete", "fail"} =>
              /\ exec = "running" => r.claim.token # active.token
              /\ rpc.reply = "job" => r.claim.token # rpc.claim.token

-----------------------------------------------------------------------------
(* Time                                                                    *)

TimeInv ==
    /\ clock = 0
    /\ valid_until \in Nat
    /\ next_heartbeat_at \in 0 .. HeartbeatInterval

\* The calls of drain() that may still come.
Bit(b) == IF b THEN 1 ELSE 0
Drains == (MaxSignals - signals) + Bit(usr1) + Bit(drain["signal"] = "waiting")
          + Bit(daemon = "running") + Bit(drain["daemon"] = "waiting")

DrainInv ==
    /\ usr1 \in BOOLEAN
    /\ DOMAIN drain = Drainers
    /\ signals \in 0 .. MaxSignals
    /\ Bit(usr1) + Bit(drain["signal"] = "waiting") <= signals
    /\ drain["daemon"] # "idle" => daemon = "draining"

\* What they can cost an attempt: a timeout each, and an interval when the owner's
\* heartbeat is put off.
Postponed(n) == n * (HeartbeatInterval + RequestTimeout)
Queued(n) == n * RequestTimeout

\* The time until the call under way is over.
Rest == RequestTimeout + rpc.sent_at

-----------------------------------------------------------------------------
(* The lease                                                               *)

\* Control leases the job to the attempt for more than t, or it was cancelled.
Lasts(lease, t) ==
    \/ jobs[lease.job].status = "cancelled"
    \/ /\ jobs[lease.job].status = "running"
       /\ jobs[lease.job].assigned_worker_id = Me
       /\ jobs[lease.job].lease_token = lease.token
       /\ jobs[lease.job].lease_expires_at > t

\* The last renewal that was acknowledged is not older than the call.
Renewed(lease) == Lasts(lease, LeaseSeconds + rpc.sent_at - 1)

LeaseInv ==
    /\ exec = "running" =>
        /\ Registered(Me)
        /\ Lasts(active, 0)
        /\ main = "exec" /\ LockFree =>
              /\ Lasts(active, next_heartbeat_at + RequestTimeout + Postponed(Drains))
              /\ valid_until > 0 =>
                    Lasts(active, next_heartbeat_at + 2 * RequestTimeout + Queued(Drains))
        /\ main = "exec" /\ ~ LockFree =>
              Lasts(active, Rest + HeartbeatInterval + RequestTimeout + Postponed(Drains))
        /\ main = "exec_hb" => Lasts(active, Rest)
        /\ main = "exec_hb" /\ rpc.state = "draining" =>
              Lasts(active, Rest + RequestTimeout + Queued(Drains))
        /\ main = "exec_hb" /\ rpc.state = "unchanged" /\ rpc.reply = "conflict" =>
              jobs[active.job].status = "cancelled"
        /\ main = "inspect" /\ LockFree => Lasts(active, RequestTimeout + Queued(Drains))
        /\ main = "inspect" /\ ~ LockFree =>
              Lasts(active, Rest + RequestTimeout + Queued(Drains))
        /\ main = "inspecting" => Lasts(active, Rest)
        /\ rpc.kind = "heartbeat" /\ rpc.reply \in WorkerStates => Renewed(active)
    /\ rpc.reply = "job" => Registered(Me) /\ Renewed(rpc.claim)

Core == TableInv /\ PhaseInv /\ ReleaseInv /\ CallInv /\ LateInv /\ TimeInv /\ DrainInv

-----------------------------------------------------------------------------
(* Arithmetic                                                              *)

\* A product with one more factor.
LEMMA Products ==
    ASSUME NEW n \in Nat, NEW k \in Nat
    PROVE  n * k \in Nat /\ (n + 1) * k = n * k + k
OBVIOUS

\* A product with fewer factors is not larger.
LEMMA ProductsGrow ==
    ASSUME NEW n \in Nat, NEW m \in Nat, n <= m, NEW k \in Nat
    PROVE  n * k <= m * k
<1>1. PICK d \in Nat : m = n + d
  <2>1. m - n \in Nat /\ m = n + (m - n)
    OBVIOUS
  <2> QED
    BY <2>1
<1>2. m * k = n * k + d * k
  BY <1>1
<1>3. d * k \in Nat /\ n * k \in Nat
  BY <1>1, Products
<1> QED
  BY <1>2, <1>3

\* Fewer drains cost less, the next one costs a timeout and an interval, and all of them
\* fit into a lease.
LEMMA DrainCosts ==
    ASSUME LeaseOutlasts, NEW n \in Nat
    PROVE  /\ Postponed(n) \in Nat /\ Queued(n) \in Nat
           /\ \A m \in Nat : m <= n => Postponed(m) <= Postponed(n) /\ Queued(m) <= Queued(n)
           /\ Postponed(n + 1) = Postponed(n) + HeartbeatInterval + RequestTimeout
           /\ Queued(n + 1) = Queued(n) + RequestTimeout
           /\ Queued(n) <= Postponed(n)
           /\ n <= MaxSignals + 1 =>
                 /\ HeartbeatInterval + 2 * RequestTimeout + Postponed(n) < LeaseSeconds
                 /\ HeartbeatInterval + 3 * RequestTimeout + Queued(n) < LeaseSeconds
<1> DEFINE H == HeartbeatInterval
           R == RequestTimeout
           G == H + R
<1>1. H \in Nat \ {0} /\ R \in Nat \ {0} /\ G \in Nat /\ MaxSignals \in Nat /\ LeaseSeconds \in Nat
  BY WorkerAssumption, ContractAssumption
<1>2. Postponed(n) = n * G /\ Queued(n) = n * R
  BY DEF Postponed, Queued
<1>3. n * G \in Nat /\ n * R \in Nat /\ (n + 1) * G = n * G + G /\ (n + 1) * R = n * R + R
  BY <1>1, Products
<1>4. \A m \in Nat : m <= n => m * G <= n * G /\ m * R <= n * R
  BY <1>1, ProductsGrow
<1>5. n * R <= n * G
  <2>1. n * G = n * H + n * R
    BY <1>1
  <2>2. n * H \in Nat /\ n * R \in Nat
    BY <1>1, Products
  <2> QED
    BY <2>1, <2>2
<1>6. ASSUME n <= MaxSignals + 1 PROVE H + 2 * R + n * G < LeaseSeconds /\ H + 3 * R + n * R < LeaseSeconds
  <2>1. n * G <= (MaxSignals + 1) * G /\ n * R <= (MaxSignals + 1) * R
    BY <1>1, <1>6, ProductsGrow
  <2>2. (MaxSignals + 1) * G = MaxSignals * G + G /\ (MaxSignals + 1) * R = MaxSignals * R + R
    BY <1>1, Products
  <2>3. MaxSignals * G \in Nat /\ MaxSignals * R \in Nat
    BY <1>1, Products
  <2>4. LeaseSeconds > 2 * H + 3 * R + MaxSignals * G /\ LeaseSeconds > H + 4 * R + MaxSignals * R
    BY DEF LeaseOutlasts
  <2> QED
    BY <1>1, <1>3, <2>1, <2>2, <2>3, <2>4
<1>7. (n + 1) * G = Postponed(n + 1) /\ (n + 1) * R = Queued(n + 1)
  BY DEF Postponed, Queued
<1>8. \A m \in Nat : Postponed(m) = m * G /\ Queued(m) = m * R
  BY DEF Postponed, Queued
<1> HIDE DEF G, H, R
<1>9. G = H + R
  BY DEF G
<1> QED
  BY <1>1, <1>2, <1>3, <1>4, <1>5, <1>6, <1>7, <1>8, <1>9 DEF H, R

-----------------------------------------------------------------------------
(* What Control's calls do to the tables                                   *)

\* The worker's state is kept.
StateStep(w) == workers'[w].state = workers[w].state

\* A step keeps what the lease lasts, or renews it; cancelled jobs stay so.
Kept(lease) ==
    /\ \A t \in Int : 0 <= t /\ t < LeaseSeconds /\ Lasts(lease, t) => Lasts(lease, t)'
    /\ jobs[lease.job].status = "cancelled" => jobs'[lease.job].status = "cancelled"

\* Calls that do not touch the jobs.
LEMMA SameJobsKept ==
    ASSUME UNCHANGED jobs
    PROVE  (JobRows => JobRows') /\ \A lease : Kept(lease)
BY DEF JobRows, Kept, Lasts

\* register_worker
LEMMA RegisterEffect ==
    ASSUME TableInv, register_worker(Me, MySpec, 1, clock)
    PROVE  TableInv' /\ workers'[Me].state = "online" /\ UNCHANGED <<jobs, leases_issued, clock>>
<1>1. Me \in WorkerIds
  BY WorkerAssumption
<1>2. UNCHANGED <<jobs, leases_issued, clock>>
  BY DEF register_worker
<1>3. WorkerRows' /\ workers'[Me].state = "online"
  BY <1>1 DEF register_worker, TableInv, WorkerRows, WorkerFields, WorkerStates, LiveStates
<1> QED
  BY <1>2, <1>3 DEF TableInv, JobRows

\* set_worker_state
LEMMA SetStateEffect ==
    ASSUME TableInv, NEW s \in WorkerStates, set_worker_state(Me, s, clock)
    PROVE  TableInv' /\ workers'[Me].state = s /\ UNCHANGED <<jobs, leases_issued, clock>>
<1>1. Me \in WorkerIds
  BY WorkerAssumption
<1>2. UNCHANGED <<jobs, leases_issued, clock>>
  BY DEF set_worker_state
<1>3. WorkerRows' /\ workers'[Me].state = s
  BY <1>1 DEF set_worker_state, TableInv, WorkerRows, WorkerFields
<1> QED
  BY <1>2, <1>3 DEF TableInv, JobRows

\* expire_stale_workers and the retirement of a claimer
LEMMA OfflineEffect ==
    ASSUME TableInv,
           \/ expire_stale_workers({Me}, clock)
           \/ retire_claimer(Me) /\ Stale(workers[Me], clock)
    PROVE  /\ TableInv' /\ workers'[Me].state = "offline" /\ Stale(workers[Me], clock)
           /\ UNCHANGED <<jobs, leases_issued, clock>>
<1>1. Me \in WorkerIds
  BY WorkerAssumption
<1>2. UNCHANGED <<jobs, leases_issued, clock>> /\ Stale(workers[Me], clock)
  BY DEF expire_stale_workers, retire_claimer
<1>3. WorkerRows' /\ workers'[Me].state = "offline"
  BY <1>1 DEF expire_stale_workers, retire_claimer, TableInv, WorkerRows, WorkerFields, WorkerStates
<1> QED
  BY <1>2, <1>3 DEF TableInv, JobRows

\* The row heartbeat_worker writes.
LEMMA HeartbeatEffect ==
    ASSUME TableInv, NEW s \in {"draining", "unchanged"}, HeartbeatAllowed(Me, s),
           workers' = [workers EXCEPT ![Me] = HeartbeatRow(Me, s, clock)]
    PROVE  /\ WorkerRows' /\ workers'[Me].state = HeartbeatState(Me, s)
           /\ HeartbeatState(Me, s) \in WorkerStates
           /\ workers[Me].state \in LiveStates => workers'[Me].state # "offline"
<1>1. Me \in WorkerIds
  BY WorkerAssumption
<1>2. HeartbeatState(Me, s) \in WorkerStates
  BY <1>1 DEF HeartbeatState, HeartbeatAllowed, Registered, TableInv, WorkerRows, WorkerStates,
              LiveStates
<1>3. WorkerRows' /\ workers'[Me].state = HeartbeatState(Me, s)
  BY <1>1, <1>2 DEF HeartbeatRow, TableInv, WorkerRows, WorkerFields
<1>4. workers[Me].state \in LiveStates => HeartbeatState(Me, s) # "offline"
  BY DEF HeartbeatState, LiveStates
<1> QED
  BY <1>2, <1>3, <1>4

\* A renewal.
LEMMA RenewEffect ==
    ASSUME TableInv, NEW l \in Lease, assert_running(l.job, Me, l.token, clock),
           jobs' = [jobs EXCEPT ![l.job].lease_expires_at = clock + LeaseSeconds]
    PROVE  /\ JobRows' /\ \A lease \in Lease : Kept(lease)
           /\ Lasts(l, LeaseSeconds - 1)'
<1>0. LeaseSeconds \in Nat /\ clock = 0 /\ l.job \in JobIds
  BY ContractAssumption DEF TableInv, Lease
<1>1. /\ DOMAIN jobs' = JobIds
      /\ \A j \in JobIds \ {l.job} : jobs'[j] = jobs[j]
      /\ jobs'[l.job] = [jobs[l.job] EXCEPT !.lease_expires_at = LeaseSeconds]
  BY <1>0 DEF TableInv, JobRows
<1>2. DOMAIN jobs[l.job] = JobFields
  BY <1>0 DEF TableInv, JobRows
<1>3. /\ DOMAIN jobs'[l.job] = JobFields /\ jobs'[l.job].lease_expires_at = LeaseSeconds
      /\ jobs'[l.job].status = jobs[l.job].status
      /\ jobs'[l.job].assigned_worker_id = jobs[l.job].assigned_worker_id
      /\ jobs'[l.job].lease_token = jobs[l.job].lease_token
  BY <1>1, <1>2 DEF JobFields
<1>4. JobRows'
  BY <1>0, <1>1, <1>3 DEF TableInv, JobRows
<1>5. Lasts(l, LeaseSeconds - 1)'
  BY <1>0, <1>3 DEF Lasts, assert_running
<1>6. ASSUME NEW lease \in Lease PROVE Kept(lease)
  BY <1>0, <1>1, <1>3 DEF Kept, Lasts, Lease
<1> QED
  BY <1>4, <1>5, <1>6

\* A claim, by this worker or another one.
LEMMA ClaimEffect ==
    ASSUME TableInv, NEW j \in JobIds, NEW w \in WorkerIds, claim_next_job(j, w, clock)
    PROVE  /\ TableInv' /\ StateStep(Me) /\ leases_issued' = leases_issued + 1
           /\ workers[w].state = "online"
           /\ \A lease \in Lease : Kept(lease)
           /\ \A l : w = Me /\ l.job = j /\ l.token = leases_issued + 1 =>
                 Lasts(l, LeaseSeconds - 1)'
<1>0. Me \in WorkerIds /\ LeaseSeconds \in Nat /\ clock = 0 /\ clock' = clock
  BY WorkerAssumption, ContractAssumption DEF TableInv, claim_next_job
<1>1. /\ DOMAIN jobs' = JobIds
      /\ \A i \in JobIds \ {j} : jobs'[i] = jobs[i]
      /\ jobs'[j] = [jobs[j] EXCEPT !.status = "running", !.attempts = @ + 1,
                           !.assigned_worker_id = w, !.lease_token = leases_issued + 1,
                           !.lease_expires_at = clock + LeaseSeconds, !.error = "none"]
      /\ leases_issued' = leases_issued + 1 /\ jobs[j].status = "queued"
      /\ workers[w].state = "online"
  BY DEF TableInv, JobRows, claim_next_job, eligible, Claiming
<1>2. DOMAIN jobs[j] = JobFields
  BY DEF TableInv, JobRows
<1>3. /\ DOMAIN jobs'[j] = JobFields /\ jobs'[j].lease_expires_at = LeaseSeconds
      /\ jobs'[j].status = "running" /\ jobs'[j].assigned_worker_id = w
      /\ jobs'[j].lease_token = leases_issued + 1
  BY <1>0, <1>1, <1>2 DEF JobFields
<1>4. JobRows'
  <2>1. jobs'[j].lease_expires_at \in Int
    BY <1>0, <1>3
  <2>2. \A i \in JobIds \ {j} : DOMAIN jobs'[i] = JobFields /\ jobs'[i].lease_expires_at \in Int
    BY <1>1 DEF TableInv, JobRows
  <2> QED
    BY <1>1, <1>3, <2>1, <2>2 DEF JobRows
<1>5. WorkerRows' /\ StateStep(Me)
  BY <1>0 DEF TableInv, WorkerRows, WorkerFields, StateStep, claim_next_job
<1>6. ASSUME NEW lease \in Lease PROVE Kept(lease)
  BY <1>1 DEF Kept, Lasts, Lease
<1>7. ASSUME NEW l, w = Me, l.job = j, l.token = leases_issued + 1
      PROVE  Lasts(l, LeaseSeconds - 1)'
  BY <1>0, <1>3, <1>7 DEF Lasts
<1> QED
  BY <1>0, <1>1, <1>4, <1>5, <1>6, <1>7 DEF TableInv

\* The capacity of a worker is not its state.
LEMMA ReleaseEffect ==
    ASSUME WorkerRows, NEW S, release_worker_capacity(S)
    PROVE  WorkerRows' /\ StateStep(Me)
<1>1. \A w \in WorkerIds : /\ DOMAIN workers'[w] = DOMAIN workers[w]
                           /\ workers'[w].state = workers[w].state
  BY DEF release_worker_capacity, WorkerRows, WorkerFields
<1>2. DOMAIN workers' = WorkerIds
  BY DEF release_worker_capacity
<1> QED
  BY <1>1, <1>2, WorkerAssumption DEF WorkerRows, StateStep

\* The columns of a job that has no lease any more.
LEMMA UnleasedFields ==
    ASSUME NEW job, DOMAIN job = JobFields, NEW s
    PROVE  /\ DOMAIN [Unleased(job) EXCEPT !.status = s] = JobFields
           /\ [Unleased(job) EXCEPT !.status = s].lease_expires_at \in Int
           /\ [Unleased(job) EXCEPT !.status = s].status = s
BY DEF Unleased, JobFields, Unset

\* A job whose attempt ends.  A lease is kept unless it was the one of the attempt, and
\* then the job was cancelled.
LEMMA EndEffect ==
    ASSUME TableInv, NEW j \in JobIds, NEW job, jobs' = [jobs EXCEPT ![j] = job],
           DOMAIN job = JobFields, job.lease_expires_at \in Int,
           release_worker_capacity({j}), UNCHANGED <<leases_issued, clock>>
    PROVE  /\ TableInv' /\ StateStep(Me)
           /\ \A lease \in Lease :
                 \/ job.status = "cancelled"
                 \/ jobs[j].status = "running" /\ ~ (lease.job = j /\ Lasts(lease, 0))
                 => Kept(lease)
<1>1. WorkerRows' /\ StateStep(Me)
  BY ReleaseEffect DEF TableInv
<1>2. /\ DOMAIN jobs' = JobIds /\ jobs'[j] = job
      /\ \A i \in JobIds \ {j} : jobs'[i] = jobs[i]
  BY DEF TableInv, JobRows
<1>3. JobRows'
  BY <1>2 DEF TableInv, JobRows
<1>4. ASSUME NEW lease \in Lease,
             \/ job.status = "cancelled"
             \/ jobs[j].status = "running" /\ ~ (lease.job = j /\ Lasts(lease, 0))
      PROVE  Kept(lease)
  <2>1. \A i \in JobIds : jobs[i].lease_expires_at \in Int
    BY DEF TableInv, JobRows
  <2> QED
    BY <1>2, <1>4, <2>1 DEF Kept, Lasts, Lease
<1> QED
  BY <1>1, <1>3, <1>4 DEF TableInv

\* complete_job and fail_job
LEMMA WriteEffect ==
    ASSUME TableInv, NEW j \in JobIds, NEW w, NEW token,
           \/ complete_job(j, w, token, clock)
           \/ \E b \in BOOLEAN : fail_job(j, w, token, b, clock)
    PROVE  /\ TableInv' /\ StateStep(Me) /\ UNCHANGED <<leases_issued, clock>>
           /\ \A lease \in Lease : w # Me \/ token # lease.token => Kept(lease)
<1>1. \E job : /\ jobs' = [jobs EXCEPT ![j] = job] /\ DOMAIN job = JobFields
               /\ job.lease_expires_at \in Int
  <2>1. DOMAIN jobs[j] = JobFields
    BY DEF TableInv, JobRows
  <2>2. CASE complete_job(j, w, token, clock)
    <3>1. PICK job : job = [Unleased(jobs[j]) EXCEPT !.status = "succeeded", !.result = token,
                                                     !.error = "none"]
      OBVIOUS
    <3>2. DOMAIN job = JobFields /\ job.lease_expires_at \in Int
      BY <2>1, <3>1 DEF Unleased, JobFields, Unset
    <3> QED
      BY <2>2, <3>1, <3>2 DEF complete_job
  <2>3. ASSUME NEW b \in BOOLEAN, fail_job(j, w, token, b, clock)
        PROVE  \E job : /\ jobs' = [jobs EXCEPT ![j] = job] /\ DOMAIN job = JobFields
                        /\ job.lease_expires_at \in Int
    <3>1. DOMAIN EndAttempt(jobs[j], b, clock) = JobFields
      BY <2>1 DEF EndAttempt, Unleased, JobFields, Unset
    <3>2. EndAttempt(jobs[j], b, clock).lease_expires_at \in Int
      BY <2>1 DEF EndAttempt, Unleased, JobFields, Unset
    <3> QED
      BY <3>1, <3>2, <2>3 DEF fail_job
  <2> QED
    BY <2>2, <2>3
<1>2. /\ assert_running(j, w, token, clock) /\ release_worker_capacity({j})
      /\ UNCHANGED <<leases_issued, clock>>
  BY DEF complete_job, fail_job
<1>3. ASSUME NEW lease \in Lease, w # Me \/ token # lease.token
      PROVE  jobs[j].status = "running" /\ ~ (lease.job = j /\ Lasts(lease, 0))
  BY <1>2, <1>3 DEF assert_running, Lasts
<1> QED
  BY <1>1, <1>2, <1>3, EndEffect

\* cancel_job
LEMMA CancelEffect ==
    ASSUME TableInv, NEW j \in JobIds, cancel_job(j)
    PROVE  /\ TableInv' /\ StateStep(Me) /\ UNCHANGED <<leases_issued, clock>>
           /\ \A lease \in Lease : Kept(lease)
<1>1. DOMAIN jobs[j] = JobFields
  BY DEF TableInv, JobRows
<1>2. PICK job : job = [Unleased(jobs[j]) EXCEPT !.status = "cancelled"]
  OBVIOUS
<1>3. DOMAIN job = JobFields /\ job.lease_expires_at \in Int /\ job.status = "cancelled"
  BY <1>1, <1>2, UnleasedFields
<1>4. /\ jobs' = [jobs EXCEPT ![j] = job] /\ release_worker_capacity({j})
      /\ UNCHANGED <<leases_issued, clock>>
  BY <1>2 DEF cancel_job
<1> QED
  BY <1>3, <1>4, EndEffect

\* recover_expired_jobs
LEMMA RecoverEffect ==
    ASSUME TableInv, NEW j \in JobIds, recover_expired_jobs({j}, clock)
    PROVE  /\ TableInv' /\ StateStep(Me) /\ UNCHANGED <<leases_issued, clock>>
           /\ \A lease \in Lease : Kept(lease)
<1>1. DOMAIN jobs[j] = JobFields /\ DOMAIN jobs = JobIds /\ clock = 0
  BY DEF TableInv, JobRows
<1>2. PICK job : job = EndAttempt(jobs[j], TRUE, clock)
  OBVIOUS
<1>3. DOMAIN job = JobFields /\ job.lease_expires_at \in Int
  BY <1>1, <1>2 DEF EndAttempt, Unleased, JobFields, Unset
<1>4. jobs' = [jobs EXCEPT ![j] = job]
  <2>1. jobs' = [i \in JobIds |-> IF i \in {j} THEN EndAttempt(jobs[i], TRUE, clock) ELSE jobs[i]]
    BY DEF recover_expired_jobs
  <2>2. \A i \in JobIds : jobs'[i] = IF i = j THEN job ELSE jobs[i]
    BY <2>1, <1>2
  <2>3. DOMAIN jobs' = JobIds /\ jobs' = [i \in JobIds |-> jobs'[i]]
    BY <2>1
  <2> QED
    BY <1>1, <2>2, <2>3
<1>5. /\ LeaseExpired(j, clock) /\ release_worker_capacity({j})
      /\ UNCHANGED <<leases_issued, clock>>
  BY DEF recover_expired_jobs
<1>6. ASSUME NEW lease \in Lease
      PROVE  jobs[j].status = "running" /\ ~ (lease.job = j /\ Lasts(lease, 0))
  <2>1. jobs[j].lease_expires_at \in Int
    BY DEF TableInv, JobRows
  <2> QED
    BY <1>1, <1>5, <2>1 DEF LeaseExpired, Lasts
<1> QED
  BY <1>3, <1>4, <1>5, <1>6, EndEffect

-----------------------------------------------------------------------------
(* Control's handlers                                                      *)

\* A token that was handed out is not the one of no claim.
LEMMA LeaseIsClaim ==
    ASSUME NEW l \in Lease, leases_issued \in Nat
    PROVE  l # NoClaim /\ l.job \in JobIds /\ l.token \in 1 .. leases_issued
BY DEF Lease, NoClaim, NoToken

\* What a handler does to the tables: no lease is lost but through a terminal write under
\* its token, and only set_worker_state or silence takes a live worker OFFLINE.
LEMMA HandleEffect ==
    ASSUME TableInv, NEW r, Request(r), Handle(r)
    PROVE  /\ TableInv' /\ leases_issued <= leases_issued'
           /\ Registered(Me) => Registered(Me)'
           /\ \A lease \in Lease :
                 (r.kind \in {"complete", "fail"} => r.claim.token # lease.token) => Kept(lease)
           /\ workers[Me].state \in LiveStates /\ workers'[Me].state = "offline" =>
                 r.kind = "set_state" \/ Stale(workers[Me], clock)
<1> DEFINE Goal ==
           /\ TableInv' /\ leases_issued <= leases_issued'
           /\ Registered(Me) => Registered(Me)'
           /\ \A lease \in Lease :
                 (r.kind \in {"complete", "fail"} => r.claim.token # lease.token) => Kept(lease)
           /\ workers[Me].state \in LiveStates /\ workers'[Me].state = "offline" =>
                 r.kind = "set_state" \/ Stale(workers[Me], clock)
<1>0. leases_issued \in Nat /\ Me \in WorkerIds
  BY WorkerAssumption DEF TableInv
<1>1. ASSUME UNCHANGED vars PROVE Goal
  <2>1. UNCHANGED <<workers, jobs, leases_issued, clock>>
    BY <1>1 DEF vars
  <2>2. TableInv'
    BY <2>1 DEF TableInv, WorkerRows, JobRows
  <2>3. \A lease : Kept(lease)
    BY <2>1, SameJobsKept
  <2> QED
    BY <1>0, <2>1, <2>2, <2>3 DEF Registered, LiveStates
<1>2. ASSUME StateStep(Me), TableInv', leases_issued <= leases_issued',
             \A lease \in Lease :
                (r.kind \in {"complete", "fail"} => r.claim.token # lease.token) => Kept(lease)
      PROVE  Goal
  BY <1>2 DEF StateStep, Registered, LiveStates
<1>3. ASSUME r.kind = "register", register_worker(Me, MySpec, 1, clock) PROVE Goal
  BY <1>0, <1>3, RegisterEffect, SameJobsKept DEF Registered
<1>4. ASSUME r.kind = "heartbeat", HeartbeatFits(r), heartbeat_worker(Me, r.state, clock)
      PROVE  Goal
  <2>1. /\ r.state \in {"draining", "unchanged"} /\ HeartbeatAllowed(Me, r.state)
        /\ workers' = [workers EXCEPT ![Me] = HeartbeatRow(Me, r.state, clock)]
        /\ UNCHANGED <<jobs, leases_issued, clock>>
    BY <1>4 DEF Request, heartbeat_worker
  <2>2. /\ WorkerRows' /\ workers'[Me].state \in WorkerStates
        /\ workers[Me].state \in LiveStates => workers'[Me].state # "offline"
    BY <2>1, HeartbeatEffect
  <2>3. TableInv' /\ \A lease : Kept(lease)
    BY <2>1, <2>2, SameJobsKept DEF TableInv
  <2> QED
    BY <1>0, <2>1, <2>2, <2>3 DEF Registered, WorkerStates, LiveStates
<1>5. ASSUME r.kind = "heartbeat", HeartbeatFits(r), r.claim # NoClaim,
             heartbeat_lease(Me, r.state, r.claim.job, r.claim.token, clock)
      PROVE  Goal
  <2>1. /\ r.state \in {"draining", "unchanged"} /\ HeartbeatAllowed(Me, r.state)
        /\ workers' = [workers EXCEPT ![Me] = HeartbeatRow(Me, r.state, clock)]
        /\ assert_running(r.claim.job, Me, r.claim.token, clock)
        /\ jobs' = [jobs EXCEPT ![r.claim.job].lease_expires_at = clock + LeaseSeconds]
        /\ UNCHANGED <<leases_issued, clock>> /\ r.claim \in Lease
    BY <1>5 DEF Request, heartbeat_lease
  <2>2. /\ WorkerRows' /\ workers'[Me].state \in WorkerStates
        /\ workers[Me].state \in LiveStates => workers'[Me].state # "offline"
    BY <2>1, HeartbeatEffect
  <2>3. JobRows' /\ \A lease \in Lease : Kept(lease)
    BY <2>1, RenewEffect
  <2>4. TableInv'
    BY <2>1, <2>2, <2>3 DEF TableInv
  <2> QED
    BY <1>0, <2>1, <2>2, <2>3, <2>4 DEF Registered, WorkerStates, LiveStates
<1>6. ASSUME r.kind = "claim", NEW j \in JobIds, claim_next_job(j, Me, clock) PROVE Goal
  BY <1>0, <1>2, <1>6, ClaimEffect
<1>7. ASSUME r.kind = "claim", Stale(workers[Me], clock), retire_claimer(Me) PROVE Goal
  <2>1. TableInv' /\ workers'[Me].state = "offline" /\ UNCHANGED <<jobs, leases_issued, clock>>
    BY <1>7, OfflineEffect
  <2> QED
    BY <1>0, <1>7, <2>1, SameJobsKept DEF Registered
<1>8. ASSUME r.kind \in {"complete", "fail"},
             \/ complete_job(r.claim.job, Me, r.claim.token, clock)
             \/ fail_job(r.claim.job, Me, r.claim.token, r.state = "error", clock)
      PROVE  Goal
  <2>1. r.claim.job \in JobIds
    BY <1>0, <1>8, LeaseIsClaim DEF Request
  <2>2. \/ complete_job(r.claim.job, Me, r.claim.token, clock)
        \/ \E b \in BOOLEAN : fail_job(r.claim.job, Me, r.claim.token, b, clock)
    BY <1>8
  <2>3. /\ TableInv' /\ StateStep(Me) /\ UNCHANGED <<leases_issued, clock>>
        /\ \A lease \in Lease : Me # Me \/ r.claim.token # lease.token => Kept(lease)
    BY <2>1, <2>2, WriteEffect
  <2> QED
    BY <1>0, <1>2, <1>8, <2>3
<1>9. ASSUME r.kind = "set_state", set_worker_state(Me, "offline", clock) PROVE Goal
  <2>1. TableInv' /\ workers'[Me].state = "offline" /\ UNCHANGED <<jobs, leases_issued, clock>>
    BY <1>9, SetStateEffect DEF WorkerStates
  <2> QED
    BY <1>0, <1>9, <2>1, SameJobsKept DEF Registered
<1> HIDE DEF Goal
<1>10. Goal
  BY <1>1, <1>3, <1>4, <1>5, <1>6, <1>7, <1>8, <1>9 DEF Handle
<1> QED
  BY <1>10 DEF Goal

\* What a handler answers.
LEMMA ReplyEffect ==
    ASSUME TableInv, Request(rpc), Handle(rpc)
    PROVE  /\ DOMAIN rpc' = Fields /\ rpc'.by = rpc.by /\ rpc'.kind = rpc.kind
           /\ rpc'.state = rpc.state /\ rpc'.sent_at = rpc.sent_at
           /\ rpc'.reply = "job" => /\ rpc.kind = "claim" /\ rpc'.claim \in Lease'
                                    /\ rpc'.claim.token > leases_issued
                                    /\ Registered(Me)' /\ Lasts(rpc.claim, LeaseSeconds - 1)'
           /\ rpc'.reply # "job" => rpc'.claim = rpc.claim
           /\ rpc.kind = "heartbeat" =>
                 /\ rpc'.reply \in WorkerStates \cup {"conflict"}
                 /\ rpc'.reply \in WorkerStates /\ rpc.claim # NoClaim =>
                       Lasts(rpc.claim, LeaseSeconds - 1)'
                 /\ rpc'.reply = "conflict" => ~ HeartbeatFits(rpc) /\ UNCHANGED vars
<1> DEFINE Goal ==
           /\ DOMAIN rpc' = Fields /\ rpc'.by = rpc.by /\ rpc'.kind = rpc.kind
           /\ rpc'.state = rpc.state /\ rpc'.sent_at = rpc.sent_at
           /\ rpc'.reply = "job" => /\ rpc.kind = "claim" /\ rpc'.claim \in Lease'
                                    /\ rpc'.claim.token > leases_issued
                                    /\ Registered(Me)' /\ Lasts(rpc.claim, LeaseSeconds - 1)'
           /\ rpc'.reply # "job" => rpc'.claim = rpc.claim
           /\ rpc.kind = "heartbeat" =>
                 /\ rpc'.reply \in WorkerStates \cup {"conflict"}
                 /\ rpc'.reply \in WorkerStates /\ rpc.claim # NoClaim =>
                       Lasts(rpc.claim, LeaseSeconds - 1)'
                 /\ rpc'.reply = "conflict" => ~ HeartbeatFits(rpc) /\ UNCHANGED vars
<1> SUFFICES Goal
  OBVIOUS
<1>0. DOMAIN rpc = Fields /\ leases_issued \in Nat /\ Me \in WorkerIds
  BY WorkerAssumption DEF Request, TableInv
<1>1. ASSUME NEW x, ReplyTo(rpc, x)
      PROVE  /\ DOMAIN rpc' = Fields /\ rpc'.by = rpc.by /\ rpc'.kind = rpc.kind
             /\ rpc'.state = rpc.state /\ rpc'.sent_at = rpc.sent_at
             /\ rpc'.claim = rpc.claim /\ rpc'.reply = x
  BY <1>0, <1>1 DEF ReplyTo, Fields
<1>2. ASSUME NEW x, ReplyTo(rpc, x), x # "job", rpc.kind # "heartbeat" PROVE Goal
  BY <1>1, <1>2
<1>3. CASE /\ rpc.kind = "heartbeat"
           /\ IF HeartbeatFits(rpc)
              THEN /\ IF rpc.claim = NoClaim THEN heartbeat_worker(Me, rpc.state, clock)
                      ELSE heartbeat_lease(Me, rpc.state, rpc.claim.job, rpc.claim.token, clock)
                   /\ ReplyTo(rpc, HeartbeatState(Me, rpc.state))
              ELSE UNCHANGED vars /\ ReplyTo(rpc, "conflict")
  <2>1. CASE ~ HeartbeatFits(rpc)
    <3>1. UNCHANGED vars /\ ReplyTo(rpc, "conflict")
      BY <1>3, <2>1
    <3>2. "conflict" \notin WorkerStates
      BY DEF WorkerStates, LiveStates
    <3> QED
      BY <1>1, <1>3, <2>1, <3>1, <3>2
  <2>2. CASE HeartbeatFits(rpc)
    <3>1. /\ ReplyTo(rpc, HeartbeatState(Me, rpc.state))
          /\ rpc.state \in {"draining", "unchanged"} /\ HeartbeatAllowed(Me, rpc.state)
          /\ workers' = [workers EXCEPT ![Me] = HeartbeatRow(Me, rpc.state, clock)]
      BY <1>3, <2>2 DEF HeartbeatFits, Request, heartbeat_worker, heartbeat_lease
    <3>2. HeartbeatState(Me, rpc.state) \in WorkerStates
      BY <3>1, HeartbeatEffect
    <3>3. ASSUME rpc.claim # NoClaim PROVE Lasts(rpc.claim, LeaseSeconds - 1)'
      <4>1. /\ rpc.claim \in Lease /\ assert_running(rpc.claim.job, Me, rpc.claim.token, clock)
            /\ jobs' = [jobs EXCEPT ![rpc.claim.job].lease_expires_at = clock + LeaseSeconds]
        BY <1>3, <2>2, <3>3 DEF Request, heartbeat_lease
      <4>2. PICK l \in Lease : l = rpc.claim
        BY <4>1
      <4>3. Lasts(l, LeaseSeconds - 1)'
        BY <4>1, <4>2, RenewEffect
      <4>4. rpc'.claim = rpc.claim
        BY <3>1, <1>1
      <4> QED
        BY <4>2, <4>3, <4>4 DEF Lasts
    <3>4. "conflict" \notin WorkerStates /\ "job" \notin WorkerStates
      BY DEF WorkerStates, LiveStates
    <3> QED
      BY <1>1, <1>3, <3>1, <3>2, <3>3, <3>4
  <2> QED
    BY <2>1, <2>2
<1>4. ASSUME rpc.kind = "claim", NEW j \in JobIds, claim_next_job(j, Me, clock),
             rpc' = [rpc EXCEPT !.reply = "job",
                                !.claim = [job |-> j, token |-> leases_issued']]
      PROVE  Goal
  <2>1. /\ DOMAIN rpc' = Fields /\ rpc'.by = rpc.by /\ rpc'.kind = rpc.kind
        /\ rpc'.state = rpc.state /\ rpc'.sent_at = rpc.sent_at
        /\ rpc'.claim = [job |-> j, token |-> leases_issued'] /\ rpc'.reply = "job"
    BY <1>0, <1>4 DEF Fields
  <2>2. leases_issued' = leases_issued + 1
    BY <1>0, <1>4, ClaimEffect
  <2>3. rpc'.claim \in Lease' /\ rpc'.claim.token > leases_issued
    BY <1>0, <2>1, <2>2 DEF Lease
  <2>4. \A l : l.job = j /\ l.token = leases_issued + 1 => Lasts(l, LeaseSeconds - 1)'
    BY <1>0, <1>4, ClaimEffect
  <2>5. PICK l : l = rpc'.claim
    OBVIOUS
  <2>6. Lasts(l, LeaseSeconds - 1)'
    BY <2>1, <2>2, <2>4, <2>5
  <2>7. Lasts(rpc.claim, LeaseSeconds - 1)'
    BY <2>5, <2>6 DEF Lasts
  <2>8. Registered(Me)'
    BY <1>0, <1>4, ClaimEffect DEF StateStep, Registered
  <2> QED
    BY <1>4, <2>1, <2>3, <2>7, <2>8
<1> HIDE DEF Goal
<1>5. ASSUME rpc.kind # "heartbeat",
             \E x \in {"online", "conflict", "empty", "ok", "missing", "cancelled", "other"} :
                ReplyTo(rpc, x)
      PROVE  Goal
  BY <1>2, <1>5
<1>6. CASE rpc.kind = "register"
  <2>1. ReplyTo(rpc, "online") \/ ReplyTo(rpc, "conflict")
    BY <1>6 DEF Handle
  <2> QED
    BY <1>5, <1>6, <2>1
<1>7. CASE rpc.kind = "claim"
  BY <1>4, <1>5, <1>7 DEF Handle
<1>8. CASE rpc.kind \in {"complete", "fail"}
  <2>1. ReplyTo(rpc, "ok") \/ ReplyTo(rpc, "conflict")
    BY <1>8 DEF Handle
  <2> QED
    BY <1>5, <1>8, <2>1
<1>9. CASE rpc.kind = "inspect"
  <2>1. ReplyTo(rpc, "missing") \/ ReplyTo(rpc, "cancelled") \/ ReplyTo(rpc, "other")
    BY <1>9 DEF Handle
  <2> QED
    BY <1>5, <1>9, <2>1
<1>10. CASE rpc.kind = "set_state"
  BY <1>5, <1>10 DEF Handle
<1>11. CASE rpc.kind = "heartbeat"
  BY <1>3, <1>11 DEF Handle
<1>12. rpc.kind \in {"register", "heartbeat", "claim", "complete", "fail", "inspect", "set_state"}
  BY DEF Handle
<1> QED
  BY <1>6, <1>7, <1>8, <1>9, <1>10, <1>11, <1>12

-----------------------------------------------------------------------------
(* Steps of the process                                                    *)

Waiting == {"registering", "register_hb", "loop_hb", "claim_hb", "exec_hb", "final_hb", "claiming",
            "writing", "inspecting", "offlining"}

\* The owner waits for one kind of call, or for none.
LEMMA Kinds ==
    /\ \A m : m \notin Waiting => OwnerKinds(m) = {}
    /\ OwnerKinds("registering") = {"register"}
    /\ \A m \in {"register_hb", "loop_hb", "claim_hb", "exec_hb", "final_hb"} :
          OwnerKinds(m) = {"heartbeat"}
    /\ OwnerKinds("claiming") = {"claim"}
    /\ OwnerKinds("writing") = {"complete", "fail"}
    /\ OwnerKinds("inspecting") = {"inspect"}
    /\ OwnerKinds("offlining") = {"set_state"}
BY DEF OwnerKinds, Waiting

\* Nobody else makes the calls of the owner.
LEMMA WhoCalls ==
    ASSUME CallInv
    PROVE  /\ main \in Waiting <=> rpc.by = "owner"
           /\ rpc.by = "owner" => rpc.kind \in OwnerKinds(main)
           /\ rpc.by # "owner" => rpc.kind \in {"heartbeat", "none"}
           /\ rpc = NoRpc <=> rpc.by = "nobody"
BY Kinds DEF CallInv, NoRpc, Drainers, Waiting

\* The tables and the drains are left alone.
LEMMA Frame ==
    ASSUME TableInv, DrainInv, UNCHANGED <<vars, drains, daemon>>
    PROVE  TableInv' /\ DrainInv' /\ Lease' = Lease /\ Drains' = Drains
<1>1. UNCHANGED <<workers, jobs, leases_issued, clock, drain, usr1, signals, daemon>>
  BY DEF vars, drains
<1>2. TableInv'
  BY <1>1 DEF TableInv, WorkerRows, JobRows
<1>3. DrainInv'
  BY <1>1 DEF DrainInv
<1> QED
  BY <1>1, <1>2, <1>3 DEF Lease, Drains

\* What the late requests say stays true when no attempt begins but the one of the call.
LEMMA LateFrame ==
    ASSUME LateInv, CallInv, leases_issued \in Nat, leases_issued' \in Nat,
           leases_issued <= leases_issued', late_requests' \subseteq late_requests,
           exec' = "running" => \/ exec = "running" /\ active' = active
                                \/ rpc.reply = "job" /\ active' = rpc.claim,
           rpc'.reply = "job" => \/ rpc.reply = "job" /\ rpc'.claim = rpc.claim
                                 \/ rpc'.claim.token > leases_issued
    PROVE  LateInv'
<1>1. Lease \subseteq Lease'
  BY DEF Lease
<1>2. ASSUME NEW r \in late_requests' PROVE /\ Request(r)' /\ r.by = "nobody" /\ r.reply = "pending"
  BY <1>1, <1>2 DEF LateInv, Request
<1>3. ASSUME NEW r \in late_requests', r.kind \in {"complete", "fail"}
      PROVE  /\ exec' = "running" => r.claim.token # active'.token
             /\ rpc'.reply = "job" => r.claim.token # rpc'.claim.token
  <2>1. /\ r.claim \in Lease
        /\ exec = "running" => r.claim.token # active.token
        /\ rpc.reply = "job" => r.claim.token # rpc.claim.token
    BY <1>3 DEF LateInv, Request
  <2>2. r.claim.token \in 1 .. leases_issued
    BY <2>1, LeaseIsClaim
  <2> QED
    BY <2>1, <2>2
<1> QED
  BY <1>2, <1>3 DEF LateInv

\* A call is made.
LEMMA CallMade ==
    ASSUME TableInv, Lease' = Lease, NEW by, NEW kind, NEW state, NEW claim,
           Call(by, kind, state, claim),
           \/ by = "owner" /\ main' \in Waiting /\ kind \in OwnerKinds(main')
           \/ by \in Drainers /\ kind = "heartbeat" /\ drain'[by] = "calling" /\ main' \notin Waiting,
           claim = NoClaim \/ claim \in Lease,
           kind = "heartbeat" => state \in {"draining", "unchanged"},
           kind \in {"complete", "fail", "inspect"} => claim \in Lease,
           exec' = "running" /\ kind = "heartbeat" => claim = active',
           main' = "written" => claim = NoClaim
    PROVE  /\ CallInv' /\ rpc' # NoRpc /\ rpc'.reply = "pending" /\ rpc'.sent_at = 0
           /\ rpc'.kind = kind /\ rpc'.state = state /\ rpc'.claim = claim /\ rpc'.by = by
<1>1. /\ DOMAIN rpc' = Fields
      /\ rpc'.by = by /\ rpc'.kind = kind /\ rpc'.state = state /\ rpc'.claim = claim
      /\ rpc'.sent_at = 0 /\ rpc'.reply = "pending"
  BY DEF Call, Fields, TableInv
<1>2. rpc' # NoRpc
  BY <1>1 DEF NoRpc
<1>3. RequestTimeout \in Nat
  BY WorkerAssumption
<1>4. Request(rpc)'
  BY <1>1 DEF Request
<1>5. /\ rpc'.by \in Drainers \cup {"owner", "nobody"}
      /\ rpc'.by = "owner" => rpc'.kind \in OwnerKinds(main')
      /\ OwnerKinds(main') # {} => rpc'.by = "owner"
      /\ rpc'.by \in Drainers => rpc'.kind = "heartbeat" /\ drain'[rpc'.by] = "calling"
      /\ rpc'.by # "nobody"
  BY <1>1, Kinds DEF Drainers
<1> QED
  BY <1>1, <1>2, <1>3, <1>4, <1>5 DEF CallInv, OwnerKinds

\* A call is over.
LEMMA CallOver ==
    ASSUME rpc' = NoRpc, main' \notin Waiting
    PROVE  CallInv' /\ rpc'.reply = "none" /\ rpc'.kind = "none"
<1>1. /\ rpc'.by = "nobody" /\ rpc'.kind = "none" /\ rpc'.claim = NoClaim /\ rpc'.sent_at = 0
      /\ rpc'.reply = "none" /\ DOMAIN rpc' = Fields
  BY DEF NoRpc, Fields
<1>2. RequestTimeout \in Nat /\ OwnerKinds(main') = {}
  BY WorkerAssumption, Kinds
<1>3. Request(rpc)'
  BY <1>1 DEF Request
<1> QED
  BY <1>1, <1>2, <1>3 DEF CallInv, Drainers, OwnerKinds

\* A call of somebody else goes on.
LEMMA CallKept ==
    ASSUME CallInv, rpc' = rpc, Lease \subseteq Lease', main \notin Waiting, main' \notin Waiting,
           rpc.by \in Drainers => drain'[rpc.by] = drain[rpc.by],
           main' = "written" => main = "written",
           exec' = "running" => exec = "running" /\ active' = active
    PROVE  CallInv'
<1>1. OwnerKinds(main) = {} /\ OwnerKinds(main') = {} /\ rpc.by # "owner"
  BY Kinds, WhoCalls
<1>2. Request(rpc)'
  BY DEF CallInv, Request
<1> QED
  BY <1>1, <1>2 DEF CallInv, OwnerKinds

\* A heartbeat is a call.
LEMMA HeartbeatCall ==
    ASSUME NEW by, NEW valid, NEW state, heartbeat(by, valid, state)
    PROVE  \E s \in {"draining", "unchanged"} :
              Call(by, "heartbeat", s, active) /\ (s = "draining" => clock < valid)
BY DEF heartbeat

\* What an answer or a failure does to the acknowledgement.
LEMMA AcknowledgeEffect ==
    ASSUME TimeInv, CallInv, clock' = clock,
           Acknowledge \/ (\E code : ControlFailed(code)) \/ UNCHANGED ack
    PROVE  /\ TimeInv'
           /\ Acknowledge => /\ next_heartbeat_at' = HeartbeatInterval
                             /\ rpc.reply \in Errors => valid_until' = 0
<1>1. /\ HeartbeatInterval \in Nat /\ RequestTimeout \in Nat /\ clock = 0
      /\ rpc.sent_at \in Int /\ -RequestTimeout <= rpc.sent_at
  BY WorkerAssumption DEF TimeInv, CallInv
<1>2. ASSUME NEW code, ControlFailed(code)
      PROVE  TimeInv' /\ next_heartbeat_at' = HeartbeatInterval /\ valid_until' = 0
  BY <1>1, <1>2 DEF ControlFailed, TimeInv
<1>3. ASSUME Acknowledge, ~ Refused
      PROVE  TimeInv' /\ next_heartbeat_at' = HeartbeatInterval
  BY <1>1, <1>3 DEF Acknowledge, AckValidUntil, TimeInv
<1>4. ASSUME Acknowledge, Refused
      PROVE  TimeInv' /\ next_heartbeat_at' = HeartbeatInterval /\ valid_until' = 0
  <2>1. ControlFailed(rpc.reply)
    BY <1>4 DEF Acknowledge
  <2> QED
    BY <1>2, <2>1
<1>5. ASSUME UNCHANGED ack PROVE TimeInv'
  BY <1>5 DEF ack, TimeInv
<1> QED
  BY <1>2, <1>3, <1>4, <1>5 DEF Refused

\* A step of the owner that neither begins an attempt nor ends the process: an attempt stays
\* or is over, and what the owner knows of Control comes from an answer.
Shape ==
    /\ main \notin {"offline", "offlining", "ended"} /\ main' \notin {"offline", "offlining"}
    /\ exec' \in {exec, "none"} /\ (exec' = "running" => main' \in Executing)
    /\ \/ main' \in Busy /\ main \in Busy /\ active' = active
       \/ main' \notin Busy /\ active' = NoClaim
    /\ Acknowledge \/ (\E code : ControlFailed(code)) \/ UNCHANGED ack
    /\ rpc'.reply = "job" => rpc' = rpc

\* Such a step keeps the invariant.
LEMMA ShapeCore ==
    ASSUME Core, UNCHANGED <<vars, late_requests, drains, daemon, process>>, Shape, CallInv'
    PROVE  Core'
<1>1. TableInv' /\ DrainInv' /\ Lease' = Lease /\ clock' = clock /\ leases_issued' = leases_issued
  BY Frame DEF Core, vars
<1>2. PhaseInv'
  BY <1>1 DEF Core, PhaseInv, Shape
<1>3. ReleaseInv'
  BY DEF Core, ReleaseInv, Shape
<1>4. LateInv'
  <2>1. leases_issued \in Nat /\ leases_issued <= leases_issued'
    BY <1>1 DEF Core, TableInv
  <2>2. exec' = "running" => exec = "running" /\ active' = active
    BY <1>1 DEF Core, PhaseInv, Shape, Busy, Executing, Outcomes
  <2> QED
    BY <1>1, <2>1, <2>2, LateFrame DEF Core, Shape
<1>5. TimeInv'
  BY <1>1, AcknowledgeEffect DEF Core, Shape
<1> QED
  BY <1>1, <1>2, <1>3, <1>4, <1>5 DEF Core

\* Steps of the owner without a call of its own.
LEMMA OwnerAlone ==
    ASSUME Core, UNCHANGED <<vars, drains>>,
           \/ Started \/ StopAwaited \/ Loop \/ Polled \/ RuntimeLost \/ Executed \/ Probed \/ Cleanup
    PROVE  Shape /\ CallInv'
<1>1. rpc' = rpc /\ drain' = drain /\ Lease' = Lease
  BY DEF Started, StopAwaited, Loop, Polled, RuntimeLost, Executed, Probed, Cleanup, drains, vars,
         Lease
<1>2. main \notin Waiting /\ main' \notin Waiting /\ main' # "written"
  BY DEF Started, StopAwaited, Loop, Polled, RuntimeLost, Executed, Probed, Cleanup, Waiting, Cleanups
<1>3. exec' = "running" => exec = "running" /\ active' = active
  BY DEF Started, StopAwaited, Loop, Polled, RuntimeLost, Executed, Probed, Cleanup
<1>4. CallInv'
  BY <1>1, <1>2, <1>3, CallKept DEF Core
<1>5. CASE Started
  BY <1>1, <1>4, <1>5 DEF Started, Shape, Core, PhaseInv, Busy, Executing, Outcomes
<1>6. CASE StopAwaited
  BY <1>1, <1>4, <1>6 DEF StopAwaited, Shape, Core, PhaseInv, Busy, Executing, Outcomes
<1>7. CASE Loop
  BY <1>1, <1>4, <1>7 DEF Loop, Shape, Core, PhaseInv, Busy, Executing, Outcomes
<1>8. CASE Polled
  BY <1>1, <1>4, <1>8 DEF Polled, Shape, Core, PhaseInv, Busy, Executing, Outcomes
<1>9. CASE RuntimeLost
  BY <1>1, <1>4, <1>9 DEF RuntimeLost, Shape, Core, PhaseInv, Busy, Executing, Outcomes
<1>10. CASE Executed
  BY <1>1, <1>4, <1>10 DEF Executed, Shape, Core, PhaseInv, Busy, Executing, Outcomes
<1>11. CASE Probed
  BY <1>1, <1>4, <1>11 DEF Probed, Shape, Core, PhaseInv, Busy, Executing, Outcomes
<1>12. CASE Cleanup
  BY <1>1, <1>4, <1>12 DEF Cleanup, Shape, Core, PhaseInv, Cleanups, Busy, Executing, Outcomes
<1> QED
  BY <1>5, <1>6, <1>7, <1>8, <1>9, <1>10, <1>11, <1>12

\* The owner makes a heartbeat.
LEMMA HeartbeatMade ==
    ASSUME Core, Lease' = Lease, NEW valid, NEW state, heartbeat("owner", valid, state),
           main' \in {"register_hb", "loop_hb", "claim_hb", "exec_hb", "final_hb"}, active' = active
    PROVE  CallInv' /\ rpc'.reply = "pending"
<1>1. PICK s \in {"draining", "unchanged"} : Call("owner", "heartbeat", s, active)
  BY HeartbeatCall
<1>2. active = NoClaim \/ active \in Lease
  BY DEF Core, PhaseInv
<1>3. main' \in Waiting /\ "heartbeat" \in OwnerKinds(main') /\ main' # "written"
  BY Kinds DEF Waiting
<1> QED
  BY <1>1, <1>2, <1>3, CallMade DEF Core

\* The owner makes another call.
LEMMA OwnerCalls ==
    ASSUME Core, Lease' = Lease, NEW kind, NEW state, NEW claim, Call("owner", kind, state, claim),
           \/ main' = "registering" /\ kind = "register" /\ claim = NoClaim
           \/ main' = "claiming" /\ kind = "claim" /\ claim = NoClaim
           \/ main' = "writing" /\ kind \in {"complete", "fail"} /\ claim \in Lease
           \/ main' = "inspecting" /\ kind = "inspect" /\ claim \in Lease
           \/ main' = "offlining" /\ kind = "set_state" /\ claim = NoClaim
    PROVE  CallInv' /\ rpc'.reply = "pending"
<1>1. main' \in Waiting /\ kind \in OwnerKinds(main') /\ main' # "written" /\ kind # "heartbeat"
  BY Kinds DEF Waiting
<1> QED
  BY <1>1, CallMade DEF Core

\* Steps of the owner before it has a job.
LEMMA OwnerIdle ==
    ASSUME Core, UNCHANGED <<vars, drains>>,
           \/ register \/ RegisterAnswered \/ RegisterHeartbeatAnswered \/ HeartbeatIfDue
           \/ LoopHeartbeatAnswered \/ Claim \/ ClaimHeartbeatAnswered
    PROVE  Shape /\ CallInv'
<1>0. Lease' = Lease /\ exec' = exec /\ active' = active /\ drain' = drain
  BY DEF register, RegisterAnswered, RegisterHeartbeatAnswered, HeartbeatIfDue,
         LoopHeartbeatAnswered, Claim, ClaimHeartbeatAnswered, vars, drains, Lease
<1>1. /\ main \in {"register", "registering", "register_hb", "beat", "loop_hb", "claim", "claim_hb"}
      /\ main' \in {"registering", "register_hb", "closing", "loop", "loop_hb", "claim", "poll",
                    "claim_hb", "claiming"}
  BY DEF register, RegisterAnswered, RegisterHeartbeatAnswered, HeartbeatIfDue,
         LoopHeartbeatAnswered, Claim, ClaimHeartbeatAnswered, SendClaim
<1>2. active = NoClaim /\ exec # "running"
  BY <1>1 DEF Core, PhaseInv, Busy, Executing
<1>3. Acknowledge \/ (\E code : ControlFailed(code)) \/ UNCHANGED ack
  BY DEF register, RegisterAnswered, RegisterHeartbeatAnswered, HeartbeatIfDue,
         LoopHeartbeatAnswered, Claim, ClaimHeartbeatAnswered
<1>4. ASSUME CallInv', rpc'.reply \in {"pending", "none"} \/ rpc' = rpc PROVE Shape /\ CallInv'
  BY <1>0, <1>1, <1>2, <1>3, <1>4 DEF Shape, Busy, Executing
<1>5. ASSUME Unlock, main' \in {"closing", "loop", "poll", "claim"} PROVE Shape /\ CallInv'
  BY <1>4, <1>5, CallOver DEF Unlock, Waiting
<1>6. ASSUME UNCHANGED rpc, main \in {"beat", "claim"}, main' \in {"claim", "poll"}
      PROVE  Shape /\ CallInv'
  <2>1. main \notin Waiting /\ main' \notin Waiting /\ main' # "written"
    BY <1>6 DEF Waiting
  <2> QED
    BY <1>0, <1>2, <1>4, <1>6, <2>1, CallKept DEF Core
<1>7. ASSUME NEW valid, NEW state, heartbeat("owner", valid, state),
             main' \in {"register_hb", "loop_hb", "claim_hb"}
      PROVE  Shape /\ CallInv'
  BY <1>0, <1>4, <1>7, HeartbeatMade
<1>8. ASSUME SendClaim PROVE Shape /\ CallInv'
  BY <1>0, <1>4, <1>8, OwnerCalls DEF SendClaim
<1>9. CASE register
  BY <1>0, <1>4, <1>9, OwnerCalls DEF register
<1>10. CASE RegisterAnswered
  BY <1>5, <1>7, <1>10 DEF RegisterAnswered
<1>11. CASE RegisterHeartbeatAnswered
  BY <1>5, <1>11 DEF RegisterHeartbeatAnswered
<1>12. CASE HeartbeatIfDue
  BY <1>6, <1>7, <1>12 DEF HeartbeatIfDue
<1>13. CASE LoopHeartbeatAnswered
  BY <1>5, <1>13 DEF LoopHeartbeatAnswered
<1>14. CASE Claim
  BY <1>6, <1>7, <1>8, <1>14 DEF Claim
<1>15. CASE ClaimHeartbeatAnswered
  BY <1>5, <1>8, <1>15 DEF ClaimHeartbeatAnswered
<1> QED
  BY <1>9, <1>10, <1>11, <1>12, <1>13, <1>14, <1>15

\* Steps of the owner in an attempt.
LEMMA OwnerAttempt ==
    ASSUME Core, UNCHANGED <<vars, drains>>,
           \/ ExecHeartbeat \/ ExecHeartbeatAnswered \/ Final \/ FinalHeartbeatAnswered
           \/ WriteAnswered \/ Inspect \/ InspectAnswered
    PROVE  Shape /\ CallInv'
<1>0. Lease' = Lease /\ exec' = exec /\ drain' = drain
  BY DEF ExecHeartbeat, ExecHeartbeatAnswered, Final, FinalHeartbeatAnswered, WriteAnswered, Inspect,
         InspectAnswered, vars, drains, Lease
<1>1. main \in {"exec", "exec_hb", "final", "final_hb", "writing", "inspect", "inspecting"}
  BY DEF ExecHeartbeat, ExecHeartbeatAnswered, Final, FinalHeartbeatAnswered, WriteAnswered, Inspect,
         InspectAnswered
<1>2. active \in Lease /\ main \in Busy /\ main \notin {"offline", "offlining", "ended"}
  BY <1>1 DEF Core, PhaseInv, Busy
<1>3. Acknowledge \/ (\E code : ControlFailed(code)) \/ UNCHANGED ack
  BY DEF ExecHeartbeat, ExecHeartbeatAnswered, Final, FinalHeartbeatAnswered, WriteAnswered, Inspect,
         InspectAnswered
<1>4. ASSUME CallInv', rpc'.reply \in {"pending", "none"}, active' = active,
             \/ main' \in Busy \cap Executing
             \/ main' \in Busy /\ main \in {"final", "final_hb", "writing"}
      PROVE  Shape /\ CallInv'
  <2>1. exec' = "running" => main' \in Executing
    BY <1>0, <1>4 DEF Core, PhaseInv, Executing
  <2>2. main' \notin {"offline", "offlining"}
    BY <1>4 DEF Busy
  <2> QED
    BY <1>0, <1>2, <1>3, <1>4, <2>1, <2>2 DEF Shape
<1>5. ASSUME Unlock, active' = active,
             main' \in {"exec", "inspect", "abandon", "abandon_missing", "unavailable", "return"}
      PROVE  Shape /\ CallInv'
  <2>1. main' \notin Waiting /\ main' \in Busy \cap Executing
    BY <1>5 DEF Waiting, Busy, Executing
  <2> QED
    BY <1>4, <1>5, <2>1, CallOver DEF Unlock
<1>6. AfterError => main' \in {"inspect", "abandon_missing", "abandon"}
  BY DEF AfterError
<1>7. CASE ExecHeartbeat
  <2>1. heartbeat("owner", valid_until, control_state) /\ main' = "exec_hb" /\ active' = active
    BY <1>7 DEF ExecHeartbeat
  <2>2. "exec_hb" \in Busy \cap Executing
    BY DEF Busy, Executing
  <2> QED
    BY <1>0, <1>4, <2>1, <2>2, HeartbeatMade
<1>8. CASE ExecHeartbeatAnswered
  BY <1>5, <1>6, <1>8 DEF ExecHeartbeatAnswered
<1>9. ASSUME NEW valid, Write(valid), active' = active, main \in {"final", "final_hb"}
      PROVE  Shape /\ CallInv'
  <2>1. CASE Unlock /\ main' \in {"unavailable", "abandon"}
    BY <1>5, <1>9, <2>1
  <2>2. CASE /\ main' = "writing"
             /\ Call("owner", IF exec = "result" THEN "complete" ELSE "fail", exec, active)
    <3>1. "writing" \in Busy
      BY DEF Busy
    <3> QED
      BY <1>0, <1>2, <1>4, <1>9, <2>2, <3>1, OwnerCalls
  <2> QED
    BY <1>9, <2>1, <2>2 DEF Write
<1>10. CASE Final
  <2>1. CASE heartbeat("owner", valid_until, control_state) /\ main' = "final_hb" /\ main = "final"
             /\ active' = active
    <3>1. "final_hb" \in Busy
      BY DEF Busy
    <3> QED
      BY <1>0, <1>4, <2>1, <3>1, HeartbeatMade
  <2> QED
    BY <1>9, <1>10, <2>1 DEF Final
<1>11. CASE FinalHeartbeatAnswered
  BY <1>5, <1>6, <1>9, <1>11 DEF FinalHeartbeatAnswered
<1>12. CASE WriteAnswered
  <2>1. CASE Refused
    BY <1>5, <1>6, <1>12, <2>1 DEF WriteAnswered
  <2>2. CASE ~ Refused
    <3>1. /\ main = "writing" /\ Unlock /\ active' = NoClaim /\ main' = "written"
      BY <1>12, <2>2 DEF WriteAnswered, Written
    <3>2. exec # "running" /\ main' \notin Busy /\ main' \notin Waiting
      BY <3>1 DEF Core, PhaseInv, Executing, Busy, Waiting
    <3>3. CallInv' /\ rpc'.reply = "none"
      BY <3>1, <3>2, CallOver DEF Unlock
    <3> QED
      BY <1>0, <1>2, <1>3, <3>1, <3>2, <3>3 DEF Shape
  <2> QED
    BY <2>1, <2>2
<1>13. CASE Inspect
  <2>1. "inspecting" \in Busy \cap Executing
    BY DEF Busy, Executing
  <2> QED
    BY <1>0, <1>2, <1>4, <1>13, <2>1, OwnerCalls DEF Inspect
<1>14. CASE InspectAnswered
  <2>1. main' \in {"return", "abandon_missing", "abandon"}
    BY <1>14 DEF InspectAnswered
  <2> QED
    BY <1>5, <1>14, <2>1 DEF InspectAnswered
<1> QED
  BY <1>7, <1>8, <1>10, <1>11, <1>12, <1>13, <1>14

\* The answer to a claim.
LEMMA ClaimAnsweredCore ==
    ASSUME Core, ClaimAnswered, UNCHANGED <<vars, late_requests, drains, daemon, process>>
    PROVE  Core'
<1>1. TableInv' /\ DrainInv' /\ Lease' = Lease /\ clock' = clock /\ leases_issued' = leases_issued
  BY Frame DEF Core, vars
<1>2. main = "claiming" /\ rpc' = NoRpc /\ exec # "running" /\ active = NoClaim
  BY DEF ClaimAnswered, Unlock, Core, PhaseInv, Executing, Busy
<1>3. main' \in {"exec", "poll"}
  BY DEF ClaimAnswered
<1>4. \/ rpc.reply = "job" /\ active' = rpc.claim /\ exec' = "running" /\ main' = "exec"
      \/ main' = "poll" /\ exec' = exec /\ active' = active
  BY DEF ClaimAnswered
<1>5. CallInv' /\ rpc'.reply = "none"
  BY <1>2, <1>3, CallOver DEF Waiting
<1>6. rpc.reply = "job" => rpc.claim \in Lease
  BY DEF Core, CallInv
<1>7. PhaseInv'
  BY <1>1, <1>2, <1>4, <1>6 DEF Core, PhaseInv, Busy, Executing, Outcomes
<1>8. ReleaseInv'
  BY <1>2, <1>3 DEF Core, ReleaseInv
<1>9. LateInv'
  <2>1. leases_issued \in Nat /\ leases_issued <= leases_issued'
    BY <1>1 DEF Core, TableInv
  <2> QED
    BY <1>1, <1>2, <1>4, <1>5, <2>1, LateFrame DEF Core
<1>10. TimeInv'
  <2>1. (\E code : ControlFailed(code)) \/ UNCHANGED ack
    BY DEF ClaimAnswered
  <2> QED
    BY <1>1, <2>1, AcknowledgeEffect DEF Core
<1> QED
  BY <1>1, <1>5, <1>7, <1>8, <1>9, <1>10 DEF Core

\* The finally of run_forever.
LEMMA ClosingCore ==
    ASSUME Core, Closing \/ Release \/ ReportOffline \/ OfflineReported,
           UNCHANGED <<vars, late_requests, drains, daemon>>
    PROVE  Core'
<1>1. TableInv' /\ DrainInv' /\ Lease' = Lease /\ clock' = clock /\ leases_issued' = leases_issued
  BY Frame DEF Core, vars
<1>2. /\ main \in {"closing", "release", "offline", "offlining"}
      /\ main' \in {"release", "offline", "offlining", "ended"}
      /\ exec' = exec /\ active' = active
  BY DEF Closing, Release, ReportOffline, OfflineReported
<1>3. exec # "running" /\ active = NoClaim
  BY <1>2 DEF Core, PhaseInv, Executing, Busy
<1>4. PhaseInv'
  BY <1>1, <1>2, <1>3 DEF Core, PhaseInv, Busy
<1>6. TimeInv'
  BY <1>1 DEF Core, TimeInv, Closing, Release, ReportOffline, OfflineReported, ack
<1>7. ReleaseInv'
  <2>1. CASE Closing
    BY <2>1 DEF Core, ReleaseInv, Closing
  <2>2. CASE Release
    BY <2>2 DEF Core, ReleaseInv, Release
  <2>3. CASE ReportOffline
    BY <2>3 DEF Core, ReleaseInv, ReportOffline
  <2>4. CASE OfflineReported
    BY <2>4 DEF Core, ReleaseInv, OfflineReported
  <2> QED
    BY <2>1, <2>2, <2>3, <2>4
<1>8. CallInv' /\ (rpc'.reply = "job" => rpc' = rpc)
  <2>1. ASSUME rpc' = rpc, main \in {"closing", "release", "offline"},
               main' \in {"release", "offline", "ended"}
        PROVE  CallInv'
    <3>1. main \notin Waiting /\ main' \notin Waiting /\ main' # "written"
      BY <2>1 DEF Waiting
    <3>2. drain' = drain
      BY DEF drains
    <3> QED
      BY <1>1, <1>2, <1>3, <2>1, <3>1, <3>2, CallKept DEF Core
  <2>2. CASE Closing
    BY <2>1, <2>2 DEF Closing
  <2>3. CASE Release
    BY <2>1, <2>3 DEF Release
  <2>4. CASE ReportOffline
    <3>1. CASE registered
      BY <1>1, <2>4, <3>1, OwnerCalls DEF ReportOffline
    <3>2. CASE ~ registered
      BY <2>1, <2>4, <3>2 DEF ReportOffline
    <3> QED
      BY <3>1, <3>2
  <2>5. CASE OfflineReported
    <3>1. main' \notin Waiting /\ rpc' = NoRpc
      BY <2>5 DEF OfflineReported, Waiting, Unlock
    <3> QED
      BY <3>1, CallOver
  <2> QED
    BY <2>2, <2>3, <2>4, <2>5
<1>9. LateInv'
  <2>1. leases_issued \in Nat /\ leases_issued <= leases_issued'
    BY <1>1 DEF Core, TableInv
  <2> QED
    BY <1>1, <1>2, <1>3, <1>8, <2>1, LateFrame DEF Core
<1> QED
  BY <1>1, <1>4, <1>6, <1>7, <1>8, <1>9 DEF Core

\* run_forever keeps the invariant.
LEMMA OwnerCore ==
    ASSUME Core, Owner
    PROVE  Core'
<1>1. UNCHANGED <<vars, late_requests, drains, daemon>>
  BY DEF Owner
<1>2. ASSUME Shape, CallInv', UNCHANGED process PROVE Core'
  BY <1>1, <1>2, ShapeCore
<1>3. \/ /\ \/ Started \/ StopAwaited \/ Loop \/ Polled \/ RuntimeLost \/ Executed \/ Probed \/ Cleanup
            \/ register \/ RegisterAnswered \/ RegisterHeartbeatAnswered \/ HeartbeatIfDue
            \/ LoopHeartbeatAnswered \/ Claim \/ ClaimHeartbeatAnswered
            \/ ExecHeartbeat \/ ExecHeartbeatAnswered \/ Final \/ FinalHeartbeatAnswered
            \/ WriteAnswered \/ Inspect \/ InspectAnswered
         /\ UNCHANGED process
      \/ ClaimAnswered /\ UNCHANGED process
      \/ Closing \/ Release \/ ReportOffline \/ OfflineReported
  BY Zenon DEF Owner
<1> QED
  BY <1>1, <1>2, <1>3, OwnerAlone, OwnerIdle, OwnerAttempt, ClaimAnsweredCore, ClosingCore

\* The drains that may still come: a signal, the signal loop and the daemon bring no more than
\* were expected, and a call is one less.
LEMMA DrainCount ==
    ASSUME DrainInv
    PROVE  /\ Drains \in Nat /\ Drains <= MaxSignals + 1
           /\ Usr1 \/ (SignalLoop /\ UNCHANGED daemon) \/ Sigterm => DrainInv' /\ Drains' \in Nat /\ Drains' <= Drains
           /\ \A d \in Drainers : DrainCall(d) => DrainInv' /\ Drains' + 1 = Drains
           /\ \A d \in Drainers : DrainAnswered(d) => DrainInv' /\ Drains' = Drains
           /\ GraceOver => DrainInv' /\ Drains' = Drains
           /\ DaemonEnds => DrainInv'
<1>0. MaxSignals \in Nat
  BY WorkerAssumption
<1>1. /\ usr1 \in BOOLEAN /\ DOMAIN drain = Drainers /\ signals \in Nat /\ signals <= MaxSignals
      /\ Bit(usr1) + Bit(drain["signal"] = "waiting") <= signals
      /\ drain["daemon"] # "idle" => daemon = "draining"
      /\ "signal" \in Drainers /\ "daemon" \in Drainers
  BY <1>0 DEF DrainInv, Drainers
<1>2. Drains \in Nat /\ Drains <= MaxSignals + 1
  BY <1>0, <1>1 DEF Drains, Bit
<1>3. ASSUME Usr1 PROVE DrainInv' /\ Drains' \in Nat /\ Drains' <= Drains
  <2>1. signals' = signals + 1 /\ signals < MaxSignals /\ usr1' = TRUE /\ drain' = drain /\ daemon' = daemon
    BY <1>3 DEF Usr1
  <2>2. DrainInv'
    BY <1>0, <1>1, <2>1 DEF DrainInv, Bit
  <2> QED
    BY <1>0, <1>1, <2>1, <2>2 DEF Drains, Bit
<1>4. ASSUME SignalLoop PROVE DrainInv' /\ Drains' \in Nat /\ Drains' <= Drains
  <2>1. /\ usr1 = TRUE /\ usr1' = FALSE /\ drain["signal"] = "idle" /\ daemon' = daemon
        /\ signals' = signals /\ DOMAIN drain' = Drainers /\ drain'["signal"] = "waiting"
        /\ drain'["daemon"] = drain["daemon"]
    BY <1>1, <1>4 DEF SignalLoop, Drainers
  <2>2. DrainInv'
    <3>1. Bit(usr1) = 1 /\ Bit(drain["signal"] = "waiting") = 0
      BY <2>1 DEF Bit
    <3>2. Bit(usr1)' = 0 /\ Bit(drain["signal"] = "waiting")' = 1
      BY <2>1 DEF Bit
    <3>3. usr1' \in BOOLEAN
      BY <2>1, Zenon
    <3>4. signals' \in 0 .. MaxSignals
      BY <1>0, <1>1, <2>1
    <3> QED
      BY <1>1, <2>1, <3>1, <3>2, <3>3, <3>4 DEF DrainInv
  <2> QED
    BY <1>0, <1>1, <2>1, <2>2 DEF Drains, Bit
<1>5. ASSUME Sigterm PROVE DrainInv' /\ Drains' \in Nat /\ Drains' <= Drains
  <2>1. /\ daemon = "running" /\ usr1' = usr1 /\ signals' = signals
        /\ DOMAIN drain' = Drainers /\ drain'["signal"] = drain["signal"]
        /\ \/ daemon' = "draining" /\ drain'["daemon"] = "waiting"
           \/ daemon' = "joining" /\ drain' = drain
    BY <1>1, <1>5 DEF Sigterm, Drainers
  <2>2. DrainInv'
    BY <1>0, <1>1, <2>1 DEF DrainInv, Bit
  <2> QED
    BY <1>0, <1>1, <2>1, <2>2 DEF Drains, Bit
<1>6. ASSUME NEW d \in Drainers, DrainCall(d) PROVE DrainInv' /\ Drains' + 1 = Drains
  <2>1. /\ drain[d] = "waiting" /\ usr1' = usr1 /\ signals' = signals /\ daemon' = daemon
        /\ \E x \in {"calling", "idle"} : drain' = [drain EXCEPT ![d] = x]
    BY <1>6 DEF DrainCall
  <2>2. CASE d = "signal"
    <3>1. /\ DOMAIN drain' = Drainers /\ drain'["signal"] \in {"calling", "idle"}
          /\ drain'["daemon"] = drain["daemon"]
      BY <1>1, <2>1, <2>2 DEF Drainers
    <3>2. DrainInv'
      BY <1>0, <1>1, <2>1, <2>2, <3>1 DEF DrainInv, Bit
    <3> QED
      BY <1>0, <1>1, <2>1, <2>2, <3>1, <3>2 DEF Drains, Bit
  <2>3. CASE d = "daemon"
    <3>1. /\ DOMAIN drain' = Drainers /\ drain'["daemon"] \in {"calling", "idle"}
          /\ drain'["signal"] = drain["signal"]
      BY <1>1, <2>1, <2>3 DEF Drainers
    <3>2. DrainInv'
      BY <1>0, <1>1, <2>1, <2>3, <3>1 DEF DrainInv, Bit
    <3> QED
      BY <1>0, <1>1, <2>1, <2>3, <3>1, <3>2 DEF Drains, Bit
  <2> QED
    BY <2>2, <2>3 DEF Drainers
<1>7. ASSUME NEW d \in Drainers, DrainAnswered(d) PROVE DrainInv' /\ Drains' = Drains
  <2>1. /\ drain[d] = "calling" /\ usr1' = usr1 /\ signals' = signals /\ daemon' = daemon
        /\ drain' = [drain EXCEPT ![d] = "idle"]
    BY <1>7 DEF DrainAnswered
  <2>2. CASE d = "signal"
    <3>1. DOMAIN drain' = Drainers /\ drain'["signal"] = "idle" /\ drain'["daemon"] = drain["daemon"]
      BY <1>1, <2>1, <2>2 DEF Drainers
    <3>2. DrainInv'
      BY <1>0, <1>1, <2>1, <2>2, <3>1 DEF DrainInv, Bit
    <3> QED
      BY <1>0, <1>1, <2>1, <2>2, <3>1, <3>2 DEF Drains, Bit
  <2>3. CASE d = "daemon"
    <3>1. DOMAIN drain' = Drainers /\ drain'["daemon"] = "idle" /\ drain'["signal"] = drain["signal"]
      BY <1>1, <2>1, <2>3 DEF Drainers
    <3>2. DrainInv'
      BY <1>0, <1>1, <2>1, <2>3, <3>1 DEF DrainInv, Bit
    <3> QED
      BY <1>0, <1>1, <2>1, <2>3, <3>1, <3>2 DEF Drains, Bit
  <2> QED
    BY <2>2, <2>3 DEF Drainers
<1>8. ASSUME GraceOver PROVE DrainInv' /\ Drains' = Drains
  <2>1. /\ daemon = "draining" /\ daemon' = "joining" /\ drain["daemon"] = "idle"
        /\ usr1' = usr1 /\ signals' = signals /\ drain' = drain
    BY <1>8 DEF GraceOver, drains
  <2> QED
    BY <1>0, <1>1, <2>1 DEF DrainInv, Drains, Bit
<1>9. ASSUME DaemonEnds PROVE DrainInv'
  <2>1. /\ daemon \in {"running", "joining"} /\ usr1' = usr1 /\ signals' = signals
        /\ DOMAIN drain' = Drainers /\ drain'["signal"] = "idle" /\ drain'["daemon"] = drain["daemon"]
    BY <1>1, <1>9 DEF DaemonEnds, Drainers
  <2> QED
    BY <1>0, <1>1, <2>1 DEF DrainInv, Bit
<1> QED
  BY <1>2, <1>3, <1>4, <1>5, <1>6, <1>7, <1>8, <1>9

\* A signal, the end of the executor's task and the health of the runtime.
LEMMA EventCore ==
    ASSUME Core, ExecutionEnds \/ Usr1 \/ Sigterm \/ Health
    PROVE  Core'
<1>1. /\ UNCHANGED <<workers, jobs, leases_issued, clock, main, active, rpc, late_requests, process>>
      /\ UNCHANGED ack /\ Lease' = Lease
      /\ exec' = "running" => exec = "running"
      /\ exec' \in {exec} \cup Outcomes
  BY DEF ExecutionEnds, Usr1, Sigterm, Health, vars, Lease, Outcomes
<1>2. TableInv' /\ TimeInv'
  BY <1>1 DEF Core, TableInv, WorkerRows, JobRows, TimeInv, ack
<1>3. PhaseInv' /\ ReleaseInv'
  BY <1>1 DEF Core, PhaseInv, ReleaseInv
<1>4. DrainInv'
  <2>1. CASE UNCHANGED <<drains, daemon>>
    BY <2>1 DEF Core, DrainInv, drains
  <2>2. ExecutionEnds \/ Health => UNCHANGED <<drains, daemon>>
    BY DEF ExecutionEnds, Health
  <2>3. DrainInv
    BY DEF Core
  <2> QED
    BY <2>1, <2>2, <2>3, DrainCount
<1>5. \A d \in Drainers : drain[d] = "calling" => drain'[d] = "calling"
  <2>1. DOMAIN drain = Drainers
    BY DEF Core, DrainInv
  <2>2. Sigterm => drain["daemon"] = "idle"
    BY DEF Core, DrainInv, Sigterm
  <2> QED
    BY <2>1, <2>2 DEF ExecutionEnds, Usr1, Sigterm, Health, drains, Drainers
<1>6. CallInv'
  <2>1. Request(rpc)'
    BY <1>1 DEF Core, CallInv, Request
  <2> QED
    BY <1>1, <1>5, <2>1 DEF Core, CallInv, OwnerKinds
<1>7. LateInv'
  <2>1. leases_issued \in Nat
    BY DEF Core, TableInv
  <2> QED
    BY <1>1, <2>1, LateFrame DEF Core
<1> QED
  BY <1>2, <1>3, <1>4, <1>6, <1>7 DEF Core

\* A call that is given up and is still on its way: it is no write of an attempt that is executed.
LEMMA GiveUpCore ==
    ASSUME Core, GiveUp, exec' = exec, active' = active, leases_issued' = leases_issued,
           rpc'.reply # "job", process' = process \/ process' = "stopped"
    PROVE  LateInv' /\ \A r \in late_requests' : r.kind = "set_state" => process' = "stopped"
<1>0. Lease' = Lease
  BY DEF Lease
<1>1. ASSUME NEW r \in late_requests
      PROVE  /\ Request(r)' /\ r.by = "nobody" /\ r.reply = "pending"
             /\ r.kind \in {"complete", "fail"} => (exec' = "running" => r.claim.token # active'.token)
             /\ r.kind = "set_state" => process' = "stopped"
  BY <1>0, <1>1 DEF Core, LateInv, Request, ReleaseInv
<1>2. ASSUME NEW r, r = [rpc EXCEPT !.by = "nobody", !.sent_at = 0], rpc.reply = "pending"
      PROVE  /\ Request(r)' /\ r.by = "nobody" /\ r.reply = "pending"
             /\ r.kind \in {"complete", "fail"} => (exec' = "running" => r.claim.token # active'.token)
             /\ r.kind = "set_state" => process' = "stopped"
  <2>1. Request(rpc) /\ DOMAIN rpc = Fields
    BY DEF Core, CallInv, Request
  <2>2. /\ DOMAIN r = Fields /\ r.by = "nobody" /\ r.kind = rpc.kind /\ r.state = rpc.state
        /\ r.claim = rpc.claim /\ r.reply = "pending"
    BY <1>2, <2>1 DEF Fields
  <2>3. Request(r)'
    BY <1>0, <2>1, <2>2 DEF Request
  <2>4. rpc.kind \in {"complete", "fail"} => main = "writing"
    BY WhoCalls, Kinds DEF Core, Waiting
  <2>5. rpc.kind = "set_state" => main = "offlining"
    BY WhoCalls, Kinds DEF Core, Waiting
  <2>6. main = "writing" => exec # "running"
    BY DEF Core, PhaseInv, Executing
  <2>7. main = "offlining" => process = "stopped"
    BY DEF Core, ReleaseInv
  <2> QED
    BY <2>2, <2>3, <2>4, <2>5, <2>6, <2>7
<1>3. ASSUME NEW r \in late_requests'
      PROVE  r \in late_requests \/ (r = [rpc EXCEPT !.by = "nobody", !.sent_at = 0] /\ rpc.reply = "pending")
  BY <1>3 DEF GiveUp
<1> QED
  BY <1>1, <1>2, <1>3 DEF LateInv

\* The signal loop and the daemon.
LEMMA DaemonCore ==
    ASSUME Core, Daemon
    PROVE  Core'
<1>1. /\ UNCHANGED <<workers, jobs, leases_issued, clock, exec, active>> /\ Lease' = Lease
      /\ leases_issued \in Nat /\ leases_issued <= leases_issued'
  BY DEF Daemon, vars, Lease, Core, TableInv
<1>2. TableInv'
  BY <1>1 DEF Core, TableInv, WorkerRows, JobRows
<1>3. DrainInv
  BY DEF Core
<1>4. CASE SignalLoop
  <2>1. /\ UNCHANGED <<rpc, main, late_requests, process, daemon>> /\ UNCHANGED ack
        /\ drain["signal"] = "idle" /\ drain' = [drain EXCEPT !["signal"] = "waiting"]
    BY <1>4 DEF SignalLoop
  <2>2. PhaseInv' /\ ReleaseInv' /\ TimeInv'
    BY <1>1, <2>1 DEF Core, PhaseInv, ReleaseInv, TimeInv, ack
  <2>3. DrainInv'
    BY <1>3, <1>4, <2>1, DrainCount
  <2>4. LateInv'
    BY <1>1, <2>1, LateFrame DEF Core
  <2>5. CallInv'
    <3>1. \A d \in Drainers : drain[d] = "calling" => drain'[d] = "calling"
      BY <1>3, <2>1 DEF DrainInv, Drainers
    <3>2. Request(rpc)'
      BY <1>1, <2>1 DEF Core, CallInv, Request
    <3> QED
      BY <1>1, <2>1, <3>1, <3>2 DEF Core, CallInv, OwnerKinds
  <2> QED
    BY <1>2, <2>2, <2>3, <2>4, <2>5 DEF Core
<1>5. ASSUME NEW d \in Drainers, DrainCall(d) PROVE Core'
  <2>1. /\ UNCHANGED <<main, late_requests, process, daemon>> /\ UNCHANGED ack
        /\ drain[d] = "waiting" /\ rpc = NoRpc
    BY <1>5 DEF DrainCall, LockFree
  <2>2. PhaseInv' /\ ReleaseInv' /\ TimeInv'
    BY <1>1, <2>1 DEF Core, PhaseInv, ReleaseInv, TimeInv, ack
  <2>3. DrainInv'
    BY <1>3, <1>5, DrainCount
  <2>4. main \notin Waiting
    BY <2>1, WhoCalls DEF Core, NoRpc
  <2>5. CallInv' /\ rpc'.reply # "job"
    <3>1. CASE registered /\ ~ stop
      <4>1. heartbeat(d, valid_until, control_state) /\ drain' = [drain EXCEPT ![d] = "calling"]
        BY <1>5, <3>1 DEF DrainCall
      <4>2. PICK s \in {"draining", "unchanged"} : Call(d, "heartbeat", s, active)
        BY <4>1, HeartbeatCall
      <4>3. drain'[d] = "calling"
        BY <1>3, <1>5, <4>1 DEF DrainInv
      <4>4. active = NoClaim \/ active \in Lease
        BY DEF Core, PhaseInv
      <4>5. main' = "written" => active = NoClaim
        BY <2>1 DEF Core, PhaseInv, Busy
      <4> QED
        BY <1>1, <1>5, <2>1, <2>4, <4>2, <4>3, <4>4, <4>5, CallMade DEF Core
    <3>2. CASE ~ (registered /\ ~ stop)
      BY <1>5, <2>1, <2>4, <3>2, CallOver DEF DrainCall
    <3> QED
      BY <3>1, <3>2
  <2>6. LateInv'
    BY <1>1, <2>1, <2>5, LateFrame DEF Core
  <2> QED
    BY <1>2, <2>2, <2>3, <2>5, <2>6 DEF Core
<1>6. ASSUME NEW d \in Drainers, DrainAnswered(d) PROVE Core'
  <2>1. /\ UNCHANGED <<main, late_requests, process, daemon>> /\ Acknowledge
        /\ rpc' = NoRpc /\ rpc.by = d
    BY <1>6 DEF DrainAnswered, Answered, Unlock
  <2>2. PhaseInv' /\ ReleaseInv'
    BY <1>1, <2>1 DEF Core, PhaseInv, ReleaseInv
  <2>3. DrainInv'
    BY <1>3, <1>6, DrainCount
  <2>4. main \notin Waiting
    BY <1>6, <2>1, WhoCalls DEF Core, Drainers
  <2>5. CallInv' /\ rpc'.reply # "job"
    BY <2>1, <2>4, CallOver
  <2>6. LateInv'
    BY <1>1, <2>1, <2>5, LateFrame DEF Core
  <2>7. TimeInv'
    BY <1>1, <2>1, AcknowledgeEffect DEF Core
  <2> QED
    BY <1>2, <2>2, <2>3, <2>5, <2>6, <2>7 DEF Core
<1>7. CASE GraceOver
  <2>1. /\ UNCHANGED <<process, drain>> /\ UNCHANGED ack
    BY <1>7 DEF GraceOver, drains
  <2>2. DrainInv' /\ TimeInv'
    BY <1>1, <1>3, <1>7, <2>1, DrainCount DEF Core, TimeInv, ack
  <2>3. CASE active = NoClaim
    <3>1. UNCHANGED <<main, rpc, late_requests>>
      BY <1>7, <2>3 DEF GraceOver
    <3>2. PhaseInv' /\ ReleaseInv'
      BY <1>1, <2>1, <3>1 DEF Core, PhaseInv, ReleaseInv
    <3>3. CallInv'
      <4>1. Request(rpc)'
        BY <1>1, <3>1 DEF Core, CallInv, Request
      <4> QED
        BY <1>1, <2>1, <3>1, <4>1 DEF Core, CallInv, OwnerKinds
    <3>4. LateInv'
      BY <1>1, <3>1, LateFrame DEF Core
    <3> QED
      BY <1>2, <2>2, <3>2, <3>3, <3>4 DEF Core
  <2>4. CASE active # NoClaim
    <3>1. CancelOwner
      BY <1>7, <2>4 DEF GraceOver
    <3>2. main \in Busy /\ main # "written" /\ main' \in Busy \cap Executing /\ main' # "written"
      BY <2>4, <3>1 DEF CancelOwner, Core, PhaseInv, Busy, Executing, Cleanups
    <3>3. main' \notin Waiting
      BY <3>1 DEF CancelOwner, Cleanups, Waiting
    <3>4. PhaseInv'
      BY <1>1, <3>2 DEF Core, PhaseInv
    <3>5. process # "stopped" /\ main' \notin {"offline", "offlining"}
      BY <3>2 DEF Core, ReleaseInv, Busy
    <3>6. CASE rpc.by = "owner"
      <4>1. rpc' = NoRpc /\ GiveUp
        BY <3>1, <3>6 DEF CancelOwner, Unlock
      <4>2. CallInv' /\ rpc'.reply # "job"
        BY <3>3, <4>1, CallOver
      <4>3. LateInv' /\ \A r \in late_requests' : r.kind = "set_state" => process' = "stopped"
        BY <1>1, <2>1, <4>1, <4>2, GiveUpCore
      <4>4. ReleaseInv'
        BY <2>1, <3>5, <4>3 DEF ReleaseInv
      <4> QED
        BY <1>2, <2>2, <3>4, <4>2, <4>3, <4>4 DEF Core
    <3>7. CASE rpc.by # "owner"
      <4>1. UNCHANGED <<rpc, late_requests>>
        BY <3>1, <3>7 DEF CancelOwner
      <4>2. main \notin Waiting
        BY <3>7, WhoCalls DEF Core
      <4>3. CallInv'
        BY <1>1, <2>1, <3>2, <3>3, <4>1, <4>2, CallKept DEF Core
      <4>4. LateInv'
        BY <1>1, <4>1, LateFrame DEF Core
      <4>5. ReleaseInv'
        BY <2>1, <3>5, <4>1 DEF Core, ReleaseInv
      <4> QED
        BY <1>2, <2>2, <3>4, <4>3, <4>4, <4>5 DEF Core
    <3> QED
      BY <3>6, <3>7
  <2> QED
    BY <2>3, <2>4
<1>8. CASE DaemonEnds
  <2>1. /\ main = "ended" /\ main' = main /\ UNCHANGED ack
        /\ process' = process \/ process' = "stopped"
    BY <1>8 DEF DaemonEnds
  <2>2. DrainInv' /\ TimeInv'
    BY <1>1, <1>3, <1>8, <2>1, DrainCount DEF Core, TimeInv, ack
  <2>3. PhaseInv' /\ main \notin Waiting /\ exec # "running"
    BY <1>1, <2>1 DEF Core, PhaseInv, Waiting, Executing
  <2>4. CASE rpc.by = "signal"
    <3>1. rpc' = NoRpc /\ GiveUp
      BY <1>8, <2>4 DEF DaemonEnds, Unlock
    <3>2. CallInv' /\ rpc'.reply # "job"
      BY <2>1, <2>3, <3>1, CallOver
    <3>3. LateInv' /\ \A r \in late_requests' : r.kind = "set_state" => process' = "stopped"
      BY <1>1, <2>1, <3>1, <3>2, GiveUpCore
    <3>4. ReleaseInv'
      BY <2>1, <3>3 DEF ReleaseInv
    <3> QED
      BY <1>2, <2>2, <2>3, <3>2, <3>3, <3>4 DEF Core
  <2>5. CASE rpc.by # "signal"
    <3>1. UNCHANGED <<rpc, late_requests>> /\ drain' = [drain EXCEPT !["signal"] = "idle"]
      BY <1>8, <2>5 DEF DaemonEnds
    <3>2. rpc.by \in Drainers => drain'[rpc.by] = drain[rpc.by]
      BY <1>3, <2>5, <3>1 DEF DrainInv, Drainers
    <3>3. CallInv'
      BY <1>1, <2>1, <2>3, <3>1, <3>2, CallKept DEF Core
    <3>4. LateInv'
      BY <1>1, <3>1, LateFrame DEF Core
    <3>5. ReleaseInv'
      BY <2>1, <3>1 DEF Core, ReleaseInv
    <3> QED
      BY <1>2, <2>2, <2>3, <3>3, <3>4, <3>5 DEF Core
  <2> QED
    BY <2>4, <2>5
<1> QED
  BY <1>4, <1>5, <1>6, <1>7, <1>8 DEF Daemon

-----------------------------------------------------------------------------
(* Steps of Control                                                        *)

\* The maintenance loop, clients, operators and other workers.
LEMMA OthersEffect ==
    ASSUME TableInv, Others
    PROVE  /\ TableInv' /\ leases_issued <= leases_issued'
           /\ Registered(Me) => Registered(Me)'
           /\ \A lease \in Lease : Kept(lease)
           /\ workers[Me].state \in LiveStates /\ workers'[Me].state = "offline" =>
                 "offline" \in RequestedStates \/ Stale(workers[Me], clock)
<1> DEFINE Goal ==
           /\ TableInv' /\ leases_issued <= leases_issued'
           /\ Registered(Me) => Registered(Me)'
           /\ \A lease \in Lease : Kept(lease)
           /\ workers[Me].state \in LiveStates /\ workers'[Me].state = "offline" =>
                 "offline" \in RequestedStates \/ Stale(workers[Me], clock)
<1> SUFFICES Goal
  OBVIOUS
<1>0. leases_issued \in Nat /\ Me \in WorkerIds
  BY WorkerAssumption DEF TableInv
<1>1. ASSUME StateStep(Me), TableInv', leases_issued <= leases_issued', \A lease \in Lease : Kept(lease)
      PROVE  Goal
  BY <1>1 DEF StateStep, Registered, LiveStates
<1>2. CASE expire_stale_workers({Me}, clock)
  <2>1. TableInv' /\ workers'[Me].state = "offline" /\ UNCHANGED <<jobs, leases_issued, clock>>
        /\ Stale(workers[Me], clock)
    BY <1>2, OfflineEffect
  <2> QED
    BY <1>0, <2>1, SameJobsKept DEF Registered
<1>3. ASSUME NEW j \in JobIds, recover_expired_jobs({j}, clock) \/ cancel_job(j) PROVE Goal
  BY <1>0, <1>1, <1>3, RecoverEffect, CancelEffect
<1>4. ASSUME NEW s \in RequestedStates, set_worker_state(Me, s, clock) PROVE Goal
  <2>1. s \in WorkerStates
    BY ContractAssumption
  <2>2. TableInv' /\ workers'[Me].state = s /\ UNCHANGED <<jobs, leases_issued, clock>>
    BY <1>4, <2>1, SetStateEffect
  <2>3. s # "unregistered"
    BY <2>1 DEF WorkerStates, LiveStates
  <2> QED
    BY <1>0, <2>2, <2>3, SameJobsKept DEF Registered
<1>5. ASSUME NEW j \in JobIds, NEW w \in WorkerIds \ {Me}, claim_next_job(j, w, clock) PROVE Goal
  BY <1>0, <1>1, <1>5, ClaimEffect
<1>6. ASSUME NEW j \in JobIds, NEW w \in WorkerIds \ {Me},
             complete_job(j, w, jobs[j].lease_token, clock)
      PROVE  Goal
  <2>1. /\ TableInv' /\ StateStep(Me) /\ UNCHANGED <<leases_issued, clock>>
        /\ \A lease \in Lease : Kept(lease)
    BY <1>6, WriteEffect
  <2> QED
    BY <1>0, <1>1, <2>1
<1> HIDE DEF Goal
<1> QED
  BY <1>2, <1>3, <1>4, <1>5, <1>6 DEF Others

\* A request that is still on its way is not the call under way.
LEMMA LateIsNotCall ==
    ASSUME Core, NEW r \in late_requests
    PROVE  r # rpc /\ Request(r)
<1>1. r.by = "nobody" /\ r.reply = "pending" /\ Request(r)
  BY DEF Core, LateInv
<1>2. rpc.by = "nobody" => rpc.reply = "none"
  BY DEF Core, CallInv, NoRpc
<1> QED
  BY <1>1, <1>2

\* A late request is answered to nobody.
LEMMA LateReply ==
    ASSUME NEW r, r # rpc, Handle(r)
    PROVE  rpc' = rpc
<1>1. ASSUME NEW x, ReplyTo(r, x) PROVE rpc' = rpc
  BY <1>1 DEF ReplyTo
<1> QED
  BY <1>1 DEF Handle

\* Whatever Control does, the lease of the attempt that is executed, and the one that was just
\* claimed, are kept.
LEMMA ControlEffect ==
    ASSUME Core, Control
    PROVE  /\ TableInv' /\ leases_issued <= leases_issued'
           /\ Registered(Me) => Registered(Me)'
           /\ \A lease \in Lease :
                 \/ exec = "running" /\ lease = active
                 \/ rpc.reply = "job" /\ lease = rpc.claim
                 => Kept(lease)
<1> DEFINE Goal ==
           /\ TableInv' /\ leases_issued <= leases_issued'
           /\ Registered(Me) => Registered(Me)'
           /\ \A lease \in Lease :
                 \/ exec = "running" /\ lease = active
                 \/ rpc.reply = "job" /\ lease = rpc.claim
                 => Kept(lease)
<1> SUFFICES Goal
  OBVIOUS
<1>0. TableInv /\ leases_issued \in Nat
  BY DEF Core, TableInv
<1>1. CASE Serve
  <2>1. Request(rpc) /\ Handle(rpc) /\ rpc.reply = "pending"
    BY <1>1 DEF Serve, Core, CallInv
  <2>2. rpc.kind \in {"complete", "fail"} => main = "writing"
    BY WhoCalls, Kinds DEF Core, Waiting
  <2>3. rpc.kind \in {"complete", "fail"} => exec # "running"
    BY <2>2 DEF Core, PhaseInv, Executing
  <2>4. PICK r : r = rpc
    OBVIOUS
  <2> QED
    BY <1>0, <2>1, <2>3, <2>4, HandleEffect
<1>2. ASSUME NEW r \in late_requests, Handle(r) PROVE Goal
  <2>1. Request(r)
    BY LateIsNotCall
  <2>2. r.kind \in {"complete", "fail"} =>
           /\ exec = "running" => r.claim.token # active.token
           /\ rpc.reply = "job" => r.claim.token # rpc.claim.token
    BY DEF Core, LateInv
  <2> QED
    BY <1>0, <1>2, <2>1, <2>2, HandleEffect
<1>3. CASE UNCHANGED vars
  <2>1. UNCHANGED <<workers, jobs, leases_issued, clock>>
    BY <1>3 DEF vars
  <2>2. TableInv'
    BY <1>0, <2>1 DEF TableInv, WorkerRows, JobRows
  <2> QED
    BY <1>0, <2>1, <2>2, SameJobsKept DEF Registered
<1>4. CASE Others
  BY <1>0, <1>4, OthersEffect
<1> HIDE DEF Goal
<1> QED
  BY <1>1, <1>2, <1>3, <1>4 DEF Control, ServeLate, Unanswered

\* Control keeps the invariant.
LEMMA ControlCore ==
    ASSUME Core, Control
    PROVE  Core'
<1>1. /\ UNCHANGED <<main, exec, active, drain, usr1, signals, daemon, process>> /\ UNCHANGED ack
  BY DEF Control, drains
<1>2. TableInv' /\ leases_issued <= leases_issued' /\ leases_issued \in Nat /\ leases_issued' \in Nat
  BY ControlEffect DEF Core, TableInv
<1>3. Lease \subseteq Lease'
  BY <1>2 DEF Lease
<1>4. PhaseInv' /\ TimeInv' /\ DrainInv'
  BY <1>1, <1>2, <1>3 DEF Core, PhaseInv, TimeInv, DrainInv, ack, TableInv
<1>5. ASSUME rpc' = rpc, late_requests' \subseteq late_requests PROVE Core'
  <2>1. CallInv'
    <3>1. Request(rpc)'
      BY <1>3, <1>5 DEF Core, CallInv, Request
    <3> QED
      BY <1>1, <1>3, <1>5, <3>1 DEF Core, CallInv, OwnerKinds
  <2>2. LateInv'
    BY <1>1, <1>2, <1>5, LateFrame DEF Core
  <2>3. ReleaseInv'
    BY <1>1, <1>5 DEF Core, ReleaseInv
  <2> QED
    BY <1>2, <1>4, <2>1, <2>2, <2>3 DEF Core
<1>6. CASE Serve
  <2>1. Request(rpc) /\ Handle(rpc) /\ late_requests' = late_requests /\ rpc.reply = "pending"
    BY <1>6 DEF Serve, Core, CallInv
  <2>2. /\ DOMAIN rpc' = Fields /\ rpc'.by = rpc.by /\ rpc'.kind = rpc.kind
        /\ rpc'.state = rpc.state /\ rpc'.sent_at = rpc.sent_at
        /\ rpc'.reply = "job" => /\ rpc.kind = "claim" /\ rpc'.claim \in Lease'
                                 /\ rpc'.claim.token > leases_issued
        /\ rpc'.reply # "job" => rpc'.claim = rpc.claim
        /\ rpc.kind = "heartbeat" => rpc'.reply \in WorkerStates \cup {"conflict"}
    BY <1>2, <2>1, ReplyEffect DEF Core
  <2>3. rpc.by # "nobody"
    BY <2>1 DEF Core, CallInv, NoRpc
  <2>4. rpc.kind = "claim" => main = "claiming"
    BY WhoCalls, Kinds DEF Core, Waiting
  <2>5. CallInv'
    <3>1. Request(rpc)'
      BY <1>3, <2>1, <2>2 DEF Request
    <3> QED
      BY <1>1, <1>3, <2>2, <2>3, <2>4, <3>1 DEF Core, CallInv, OwnerKinds, Errors
  <2>6. LateInv'
    BY <1>1, <1>2, <2>1, <2>2, LateFrame DEF Core
  <2>7. ReleaseInv'
    BY <1>1, <2>1 DEF Core, ReleaseInv
  <2> QED
    BY <1>2, <1>4, <2>5, <2>6, <2>7 DEF Core
<1>7. CASE ServeLate
  <2>1. PICK r \in late_requests : Handle(r) /\ late_requests' = late_requests \ {r}
    BY <1>7 DEF ServeLate
  <2>2. r # rpc
    BY LateIsNotCall
  <2>3. rpc' = rpc
    BY <2>1, <2>2, LateReply
  <2> QED
    BY <1>5, <2>1, <2>3
<1>8. CASE Unanswered
  <2>1. GiveUp /\ rpc' = [rpc EXCEPT !.reply = "unavailable"] /\ rpc # NoRpc /\ UNCHANGED vars
    BY <1>8 DEF Unanswered
  <2>2. DOMAIN rpc = Fields
    BY DEF Core, CallInv, Request
  <2>3. /\ DOMAIN rpc' = Fields /\ rpc'.by = rpc.by /\ rpc'.kind = rpc.kind /\ rpc'.state = rpc.state
        /\ rpc'.sent_at = rpc.sent_at /\ rpc'.claim = rpc.claim /\ rpc'.reply = "unavailable"
    BY <2>1, <2>2 DEF Fields
  <2>4. CallInv'
    <3>1. Request(rpc)'
      BY <1>3, <2>3 DEF Core, CallInv, Request
    <3> QED
      BY <1>1, <1>3, <2>1, <2>3, <3>1 DEF Core, CallInv, OwnerKinds, Errors
  <2>5. LateInv' /\ \A r \in late_requests' : r.kind = "set_state" => process' = "stopped"
    BY <1>1, <2>1, <2>3, GiveUpCore DEF vars
  <2>6. ReleaseInv'
    BY <1>1, <2>5 DEF Core, ReleaseInv
  <2> QED
    BY <1>2, <1>4, <2>4, <2>5, <2>6 DEF Core
<1>9. CASE Others
  BY <1>5, <1>9 DEF Others
<1> QED
  BY <1>6, <1>7, <1>8, <1>9 DEF Control

-----------------------------------------------------------------------------
(* Time and the initial state                                              *)

\* What a tick does: the leases get shorter by one, and so does the time of the call.
LEMMA TickEffect ==
    ASSUME TableInv, CallInv, TimeInv, WTick
    PROVE  /\ TableInv' /\ TimeInv' /\ StateStep(Me)
           /\ \A j \in JobIds : /\ jobs'[j].status = jobs[j].status
                                /\ jobs'[j].assigned_worker_id = jobs[j].assigned_worker_id
                                /\ jobs'[j].lease_token = jobs[j].lease_token
                                /\ jobs[j].status = "running" =>
                                      \/ jobs'[j].lease_expires_at = jobs[j].lease_expires_at - 1
                                      \/ jobs[j].lease_expires_at <= 0
           /\ rpc = NoRpc => rpc' = rpc
           /\ rpc # NoRpc =>
                 /\ DOMAIN rpc' = Fields /\ rpc'.by = rpc.by /\ rpc'.kind = rpc.kind
                 /\ rpc'.state = rpc.state /\ rpc'.claim = rpc.claim /\ rpc'.reply = rpc.reply
                 /\ rpc'.sent_at = rpc.sent_at - 1 /\ rpc.sent_at > - RequestTimeout
           /\ valid_until' > 0 => valid_until > 0
           /\ next_heartbeat_at > 0 => next_heartbeat_at' = next_heartbeat_at - 1
           /\ next_heartbeat_at = 0 => next_heartbeat_at' = 0
<1>0. Me \in WorkerIds /\ RequestTimeout \in Nat /\ clock = 0 /\ HeartbeatInterval \in Nat
  BY WorkerAssumption DEF TableInv
<1>1. WorkerRows' /\ StateStep(Me)
  <2>1. /\ DOMAIN workers' = WorkerIds
        /\ \A w \in WorkerIds : /\ DOMAIN workers'[w] = DOMAIN workers[w]
                                /\ workers'[w].state = workers[w].state
    BY DEF WTick, TableInv, WorkerRows, WorkerFields
  <2> QED
    BY <1>0, <2>1 DEF TableInv, WorkerRows, StateStep
<1>2. /\ DOMAIN jobs' = JobIds
      /\ \A j \in JobIds :
            jobs'[j] = [jobs[j] EXCEPT !.lease_expires_at =
                           IF jobs[j].status = "running" THEN Older(jobs[j].lease_expires_at, 0)
                           ELSE jobs[j].lease_expires_at]
  BY DEF WTick
<1>3. ASSUME NEW j \in JobIds
      PROVE  /\ DOMAIN jobs'[j] = JobFields /\ jobs'[j].lease_expires_at \in Int
             /\ jobs'[j].status = jobs[j].status
             /\ jobs'[j].assigned_worker_id = jobs[j].assigned_worker_id
             /\ jobs'[j].lease_token = jobs[j].lease_token
             /\ jobs[j].status = "running" =>
                   \/ jobs'[j].lease_expires_at = jobs[j].lease_expires_at - 1
                   \/ jobs[j].lease_expires_at <= 0
  <2>1. DOMAIN jobs[j] = JobFields /\ jobs[j].lease_expires_at \in Int
    BY DEF TableInv, JobRows
  <2> QED
    BY <1>2, <2>1 DEF JobFields, Older
<1>4. TableInv'
  BY <1>1, <1>2, <1>3 DEF TableInv, JobRows, WTick
<1>5. rpc = NoRpc => rpc' = rpc
  BY DEF WTick, LockFree
<1>6. ASSUME rpc # NoRpc
      PROVE  /\ DOMAIN rpc' = Fields /\ rpc'.by = rpc.by /\ rpc'.kind = rpc.kind
             /\ rpc'.state = rpc.state /\ rpc'.claim = rpc.claim /\ rpc'.reply = rpc.reply
             /\ rpc'.sent_at = rpc.sent_at - 1 /\ rpc.sent_at > - RequestTimeout
  <2>1. DOMAIN rpc = Fields /\ rpc.sent_at \in Int
    BY DEF CallInv, Request
  <2>2. rpc.sent_at > - RequestTimeout
    BY <1>0, <1>6, <2>1 DEF WTick, Lagging
  <2>3. rpc' = [rpc EXCEPT !.sent_at = Older(rpc.sent_at, - RequestTimeout)]
    BY <1>6 DEF WTick, LockFree
  <2>4. Older(rpc.sent_at, - RequestTimeout) = rpc.sent_at - 1
    BY <2>2 DEF Older
  <2> QED
    BY <2>1, <2>2, <2>3, <2>4 DEF Fields
<1>7. TimeInv' /\ (valid_until' > 0 => valid_until > 0)
      /\ (next_heartbeat_at > 0 => next_heartbeat_at' = next_heartbeat_at - 1)
      /\ (next_heartbeat_at = 0 => next_heartbeat_at' = 0)
  <2>1. /\ valid_until' = Older(valid_until, 0) /\ next_heartbeat_at' = Older(next_heartbeat_at, 0)
        /\ clock' = clock
    BY DEF WTick
  <2> QED
    BY <1>0, <2>1 DEF TimeInv, Older
<1> QED
  BY <1>1, <1>3, <1>4, <1>5, <1>6, <1>7

\* Time keeps the invariant.
LEMMA TickCore ==
    ASSUME Core, WTick
    PROVE  Core'
<1>1. UNCHANGED <<leases_issued, main, exec, active, late_requests, drain, usr1, signals, daemon, process>>
      /\ Lease' = Lease
  BY DEF WTick, drains, Lease
<1>2. TableInv' /\ TimeInv'
  BY TickEffect DEF Core
<1>3. PhaseInv' /\ ReleaseInv' /\ DrainInv'
  BY <1>1 DEF Core, PhaseInv, ReleaseInv, DrainInv
<1>4. /\ DOMAIN rpc' = Fields /\ rpc'.by = rpc.by /\ rpc'.kind = rpc.kind
      /\ rpc'.state = rpc.state /\ rpc'.claim = rpc.claim /\ rpc'.reply = rpc.reply
      /\ rpc'.sent_at \in Int /\ - RequestTimeout <= rpc'.sent_at /\ rpc'.sent_at <= 0
      /\ rpc = NoRpc => rpc' = NoRpc
  <2>1. /\ rpc.sent_at \in Int /\ - RequestTimeout <= rpc.sent_at /\ rpc.sent_at <= 0
        /\ RequestTimeout \in Nat /\ DOMAIN rpc = Fields
    BY WorkerAssumption DEF Core, CallInv, Request
  <2>2. CASE rpc = NoRpc
    <3>1. rpc' = rpc
      BY <2>2, TickEffect DEF Core
    <3> QED
      BY <2>1, <2>2, <3>1
  <2>3. CASE rpc # NoRpc
    <3>1. /\ DOMAIN rpc' = Fields /\ rpc'.by = rpc.by /\ rpc'.kind = rpc.kind
          /\ rpc'.state = rpc.state /\ rpc'.claim = rpc.claim /\ rpc'.reply = rpc.reply
          /\ rpc'.sent_at = rpc.sent_at - 1 /\ rpc.sent_at > - RequestTimeout
      BY <2>3, TickEffect DEF Core
    <3> QED
      BY <2>1, <2>3, <3>1
  <2> QED
    BY <2>2, <2>3
<1>5. CallInv'
  <2>1. Request(rpc)'
    BY <1>1, <1>4 DEF Core, CallInv, Request
  <2> QED
    BY <1>1, <1>4, <2>1 DEF Core, CallInv, OwnerKinds
<1>6. LateInv'
  <2>1. leases_issued \in Nat
    BY DEF Core, TableInv
  <2> QED
    BY <1>1, <1>4, <2>1, LateFrame DEF Core
<1> QED
  BY <1>2, <1>3, <1>5, <1>6 DEF Core

\* The initial state.
LEMMA InitCore ==
    ASSUME WInit
    PROVE  Core /\ LeaseInv
<1>0. Me \in WorkerIds /\ HeartbeatInterval \in Nat /\ RequestTimeout \in Nat /\ MaxSignals \in Nat
  BY WorkerAssumption
<1>1. WorkerRows
  BY DEF WInit, WorkerRows, WorkerFields, NoWorkerRecord, WorkerStates, LiveStates
<1>2. JobRows
  <2>1. PICK s \in Submissions : jobs = [j \in JobIds |-> NewJob(s, 0)]
    BY DEF WInit
  <2>2. DOMAIN NewJob(s, 0) = JobFields /\ NewJob(s, 0).lease_expires_at \in Int
    BY DEF NewJob, NoJobRecord, JobFields, Unset
  <2> QED
    BY <2>1, <2>2 DEF JobRows
<1>3. TableInv
  BY <1>1, <1>2 DEF TableInv, WInit
<1>4. /\ main = "starting" /\ exec = "none" /\ active = NoClaim /\ rpc = NoRpc /\ late_requests = {}
      /\ drain = [d \in Drainers |-> "idle"] /\ usr1 = FALSE /\ signals = 0
      /\ process = "running" /\ valid_until = 0 /\ next_heartbeat_at = 0 /\ clock = 0
  BY DEF WInit
<1>5. PhaseInv /\ ReleaseInv /\ LateInv
  BY <1>4 DEF PhaseInv, ReleaseInv, LateInv, Busy
<1>6. TimeInv
  BY <1>0, <1>4 DEF TimeInv
<1>7. CallInv
  <2>1. /\ rpc.by = "nobody" /\ rpc.kind = "none" /\ rpc.claim = NoClaim /\ rpc.sent_at = 0
        /\ rpc.reply = "none" /\ DOMAIN rpc = Fields
    BY <1>4 DEF NoRpc, Fields
  <2>2. OwnerKinds(main) = {}
    BY <1>4, Kinds DEF Waiting
  <2> QED
    BY <1>0, <1>4, <2>1, <2>2 DEF CallInv, Drainers, Request
<1>8. DrainInv
  <2>1. usr1 \in BOOLEAN
    BY <1>4, Zenon
  <2>2. Bit(usr1) = 0 /\ Bit(drain["signal"] = "waiting") = 0 /\ drain["daemon"] = "idle"
    BY <1>4 DEF Bit, Drainers
  <2> QED
    BY <1>0, <1>4, <2>1, <2>2 DEF DrainInv
<1>9. LeaseInv
  <2>1. rpc.reply = "none"
    BY <1>4 DEF NoRpc
  <2> QED
    BY <1>4, <2>1 DEF LeaseInv
<1> QED
  BY <1>3, <1>5, <1>6, <1>7, <1>8, <1>9 DEF Core

\* Every step keeps the invariant.
LEMMA NextCore ==
    ASSUME Core, [WNext]_wvars
    PROVE  Core'
<1>1. CASE UNCHANGED wvars
  <2>1. UNCHANGED <<workers, jobs, leases_issued, clock, main, exec, active, rpc, late_requests, drain,
                    usr1, signals, daemon, process, valid_until, next_heartbeat_at>>
    BY <1>1 DEF wvars, vars, drains, ack
  <2>2. TableInv' /\ PhaseInv' /\ ReleaseInv' /\ TimeInv' /\ DrainInv'
    BY <2>1 DEF Core, TableInv, WorkerRows, JobRows, PhaseInv, ReleaseInv, TimeInv, DrainInv, Lease
  <2>3. CallInv'
    <3>1. Request(rpc)' /\ Lease' = Lease
      BY <2>1 DEF Core, CallInv, Request, Lease
    <3> QED
      BY <2>1, <3>1 DEF Core, CallInv, OwnerKinds
  <2>4. LateInv'
    <3>1. leases_issued \in Nat
      BY DEF Core, TableInv
    <3> QED
      BY <2>1, <3>1, LateFrame DEF Core
  <2> QED
    BY <2>2, <2>3, <2>4 DEF Core
<1> QED
  BY <1>1, OwnerCore, EventCore, DaemonCore, ControlCore, TickCore DEF WNext

\* The calls, the attempt and the end of the process.
LEMMA CoreHolds == WSpec => []Core
<1>1. WInit => Core
  BY InitCore
<1>2. Core /\ [WNext]_wvars => Core'
  BY NextCore
<1> QED
  BY <1>1, <1>2, PTL DEF WSpec

-----------------------------------------------------------------------------
(* Theorems about single steps                                             *)

\* A call has the kind its caller gave it.
LEMMA CallKind ==
    ASSUME NEW by, NEW kind, NEW state, NEW claim, Call(by, kind, state, claim)
    PROVE  rpc'.kind = kind /\ rpc'.claim = claim
BY DEF Call

\* No claim is sent once a drain was asked for (request_drain), whoever held the lock meanwhile.
THEOREM NoClaimOnceDraining ==
    WSpec => NoClaimWhileDraining
<1>1. ASSUME Core, [WNext]_wvars, rpc'.kind = "claim", rpc.kind # "claim" PROVE ~ draining
  <2>0. NoRpc.kind # "claim" /\ DOMAIN rpc = Fields
    BY <1>1 DEF NoRpc, Core, CallInv, Request
  <2>1. rpc' # rpc /\ rpc' # NoRpc
    BY <1>1, <2>0
  <2>2. ASSUME NEW by, NEW valid, NEW state, heartbeat(by, valid, state) PROVE FALSE
    BY <1>1, <2>2, HeartbeatCall, CallKind
  <2>3. ASSUME NEW by, NEW kind, NEW state, NEW claim, Call(by, kind, state, claim), kind # "claim"
        PROVE FALSE
    BY <1>1, <2>3, CallKind
  <2>4. CASE Owner
    <3>1. CASE Started \/ StopAwaited \/ Loop \/ Polled \/ RuntimeLost \/ Executed \/ Probed \/ Cleanup
      BY <2>1, <3>1 DEF Started, StopAwaited, Loop, Polled, RuntimeLost, Executed, Probed, Cleanup
    <3>2. CASE register \/ RegisterAnswered \/ RegisterHeartbeatAnswered
      BY <2>1, <2>2, <2>3, <3>2 DEF register, RegisterAnswered, RegisterHeartbeatAnswered, Unlock
    <3>3. CASE HeartbeatIfDue \/ LoopHeartbeatAnswered \/ ClaimAnswered
      BY <2>1, <2>2, <3>3 DEF HeartbeatIfDue, LoopHeartbeatAnswered, ClaimAnswered, Unlock
    <3>4. CASE Claim \/ ClaimHeartbeatAnswered
      BY <2>1, <2>2, <3>4 DEF Claim, ClaimHeartbeatAnswered, Unlock, Ready
    <3>5. CASE ExecHeartbeat \/ ExecHeartbeatAnswered
      BY <2>1, <2>2, <3>5 DEF ExecHeartbeat, ExecHeartbeatAnswered, Unlock
    <3>6. CASE Final \/ FinalHeartbeatAnswered
      BY <2>1, <2>2, <2>3, <3>6 DEF Final, FinalHeartbeatAnswered, Write, Unlock
    <3>7. CASE WriteAnswered \/ Inspect \/ InspectAnswered
      BY <2>1, <2>3, <3>7 DEF WriteAnswered, Inspect, InspectAnswered, Unlock
    <3>8. CASE Closing \/ Release \/ ReportOffline \/ OfflineReported
      BY <2>1, <2>3, <3>8 DEF Closing, Release, ReportOffline, OfflineReported, Unlock
    <3> QED
      BY <2>4, <3>1, <3>2, <3>3, <3>4, <3>5, <3>6, <3>7, <3>8 DEF Owner
  <2>5. CASE ExecutionEnds \/ Usr1 \/ Sigterm \/ Health
    BY <2>1, <2>5 DEF ExecutionEnds, Usr1, Sigterm, Health
  <2>6. CASE Daemon
    BY <2>1, <2>2, <2>6 DEF Daemon, SignalLoop, DrainCall, DrainAnswered, GraceOver, CancelOwner,
                            DaemonEnds, Unlock
  <2>7. CASE Control
    <3>1. CASE Serve
      BY <1>1, <3>1, ReplyEffect DEF Serve, Core, CallInv
    <3>2. CASE ServeLate
      BY <1>1, <2>1, <3>2, LateIsNotCall, LateReply DEF ServeLate
    <3>3. CASE Unanswered
      BY <1>1, <2>0, <3>3 DEF Unanswered, Fields
    <3>4. CASE Others
      BY <2>1, <3>4 DEF Others
    <3> QED
      BY <2>7, <3>1, <3>2, <3>3, <3>4 DEF Control
  <2>8. CASE WTick
    BY <1>1, <2>0, <2>1, <2>8, TickEffect DEF Core
  <2>9. CASE UNCHANGED wvars
    BY <2>1, <2>9 DEF wvars
  <2> QED
    BY <1>1, <2>4, <2>5, <2>6, <2>7, <2>8, <2>9 DEF WNext
<1>2. Core /\ [WNext]_wvars => [rpc'.kind = "claim" /\ rpc.kind # "claim" => ~ draining]_wvars
  BY <1>1
<1> QED
  BY <1>2, CoreHolds, PTL DEF WSpec, NoClaimWhileDraining

\* The lease of a terminal write that Control acknowledged is not used by another call
\* (_active is cleared under the lock).
THEOREM TerminalLeaseIsOver ==
    WSpec => TerminalLeaseNotReused
<1>1. ASSUME Core, Core', [WNext]_wvars, main = "written" PROVE rpc' = rpc \/ rpc'.claim = NoClaim
  <2>1. rpc.claim = NoClaim /\ main \notin Waiting
    BY <1>1 DEF Core, CallInv, Waiting
  <2>2. CASE main' = "written"
    BY <1>1, <2>2 DEF Core, CallInv
  <2>3. CASE main' # "written"
    <3>1. CASE Owner
      <4>1. Cleanup
        BY <1>1, <3>1 DEF Owner, Started, StopAwaited, register, RegisterAnswered,
             RegisterHeartbeatAnswered, Loop, HeartbeatIfDue, LoopHeartbeatAnswered, Claim,
             ClaimHeartbeatAnswered, ClaimAnswered, Polled, RuntimeLost, ExecHeartbeat,
             ExecHeartbeatAnswered, Executed, Probed, Final, FinalHeartbeatAnswered, WriteAnswered,
             Inspect, InspectAnswered, Closing, Release, ReportOffline, OfflineReported
      <4> QED
        BY <4>1 DEF Cleanup
    <3>2. CASE Daemon
      <4>1. active = NoClaim
        BY <1>1 DEF Core, PhaseInv, Busy
      <4> QED
        BY <1>1, <2>3, <3>2, <4>1 DEF Daemon, SignalLoop, DrainCall, DrainAnswered, GraceOver, DaemonEnds
    <3>3. CASE ExecutionEnds \/ Usr1 \/ Sigterm \/ Health \/ Control \/ WTick \/ UNCHANGED wvars
      BY <1>1, <2>3, <3>3 DEF ExecutionEnds, Usr1, Sigterm, Health, Control, WTick, wvars
    <3> QED
      BY <1>1, <3>1, <3>2, <3>3 DEF WNext
  <2> QED
    BY <2>2, <2>3
<1>2. Core /\ Core' /\ [WNext]_wvars => [main = "written" => rpc' = rpc \/ rpc'.claim = NoClaim]_wvars
  BY <1>1
<1> QED
  BY <1>2, CoreHolds, PTL DEF WSpec, TerminalLeaseNotReused

\* Control gives the worker's GPUs up only when its runtime process is gone or it was silent for
\* longer than the TTL, unless an operator asks for OFFLINE: also when the report arrives late.
THEOREM OfflineReportIsLast ==
    ASSUME "offline" \notin RequestedStates
    PROVE  WSpec => OfflineAfterRelease
<1> DEFINE Given == workers[Me].state \in LiveStates /\ workers'[Me].state = "offline"
           Safe == process = "stopped" \/ Stale(workers[Me], clock)
<1>1. ASSUME Core, [WNext]_wvars, Given PROVE Safe
  <2>1. workers'[Me].state # workers[Me].state
    BY <1>1 DEF LiveStates
  <2>2. ~ UNCHANGED vars
    BY <2>1 DEF vars
  <2>3. CASE Control
    <3>1. CASE Serve
      <4>1. Request(rpc) /\ Handle(rpc) /\ TableInv
        BY <1>1, <3>1 DEF Serve, Core, CallInv
      <4>2. PICK r : r = rpc
        OBVIOUS
      <4>3. rpc.kind = "set_state" \/ Stale(workers[Me], clock)
        BY <1>1, <4>1, <4>2, HandleEffect
      <4>4. rpc.kind = "set_state" => main = "offlining"
        BY <1>1, WhoCalls, Kinds DEF Core, Waiting
      <4> QED
        BY <1>1, <4>3, <4>4 DEF Core, ReleaseInv
    <3>2. CASE ServeLate
      <4>1. PICK r \in late_requests : Handle(r)
        BY <3>2 DEF ServeLate
      <4>2. Request(r) /\ TableInv
        BY <1>1, LateIsNotCall DEF Core
      <4>3. r.kind = "set_state" \/ Stale(workers[Me], clock)
        BY <1>1, <4>1, <4>2, HandleEffect
      <4> QED
        BY <1>1, <4>3 DEF Core, ReleaseInv
    <3>3. CASE Unanswered
      BY <2>2, <3>3 DEF Unanswered
    <3>4. CASE Others
      BY <1>1, <3>4, OthersEffect DEF Core
    <3> QED
      BY <2>3, <3>1, <3>2, <3>3, <3>4 DEF Control
  <2>4. CASE WTick
    BY <1>1, <2>1, <2>4, TickEffect DEF Core, StateStep
  <2>5. CASE Owner \/ ExecutionEnds \/ Usr1 \/ Sigterm \/ Daemon \/ Health \/ UNCHANGED wvars
    BY <2>2, <2>5 DEF Owner, ExecutionEnds, Usr1, Sigterm, Daemon, Health, wvars
  <2> QED
    BY <1>1, <2>3, <2>4, <2>5 DEF WNext
<1>2. Core /\ [WNext]_wvars =>
        [workers[Me].state \in LiveStates /\ workers'[Me].state = "offline"
         => process = "stopped" \/ Stale(workers[Me], clock)]_wvars
  BY <1>1
<1> QED
  BY <1>2, CoreHolds, PTL DEF WSpec, OfflineAfterRelease

-----------------------------------------------------------------------------
(* The lease of the attempt that is executed                               *)

\* The times an attempt has to wait for, and the lease that outlasts them.
LEMMA Times ==
    ASSUME LeaseOutlasts, Core
    PROVE  /\ HeartbeatInterval \in Nat /\ RequestTimeout \in Nat \ {0} /\ LeaseSeconds \in Nat
           /\ Drains \in Nat /\ Postponed(Drains) \in Nat /\ Queued(Drains) \in Nat
           /\ HeartbeatInterval + 2 * RequestTimeout + Postponed(Drains) < LeaseSeconds
           /\ HeartbeatInterval + 3 * RequestTimeout + Queued(Drains) < LeaseSeconds
           /\ next_heartbeat_at \in Nat /\ next_heartbeat_at <= HeartbeatInterval
           /\ valid_until \in Nat /\ clock = 0
           /\ rpc.sent_at \in Int /\ - RequestTimeout <= rpc.sent_at /\ rpc.sent_at <= 0
           /\ Rest = RequestTimeout + rpc.sent_at /\ Rest \in Nat /\ Rest <= RequestTimeout
<1>1. Drains \in Nat /\ Drains <= MaxSignals + 1
  BY DrainCount DEF Core
<1>2. /\ Postponed(Drains) \in Nat /\ Queued(Drains) \in Nat
      /\ HeartbeatInterval + 2 * RequestTimeout + Postponed(Drains) < LeaseSeconds
      /\ HeartbeatInterval + 3 * RequestTimeout + Queued(Drains) < LeaseSeconds
  BY <1>1, DrainCosts
<1>3. HeartbeatInterval \in Nat /\ RequestTimeout \in Nat \ {0} /\ LeaseSeconds \in Nat
  BY WorkerAssumption, ContractAssumption
<1>4. next_heartbeat_at \in 0 .. HeartbeatInterval /\ valid_until \in Nat /\ clock = 0
  BY DEF Core, TimeInv
<1>5. rpc.sent_at \in Int /\ - RequestTimeout <= rpc.sent_at /\ rpc.sent_at <= 0
  BY DEF Core, CallInv
<1>6. Rest = RequestTimeout + rpc.sent_at
  BY DEF Rest
<1> QED
  BY <1>1, <1>2, <1>3, <1>4, <1>5, <1>6

\* Nothing is executed and nothing was claimed.
LEMMA LeaseIdle ==
    ASSUME exec' # "running", rpc'.reply # "job"
    PROVE  LeaseInv'
BY DEF LeaseInv

\* A lease that lasts longer lasts.
LEMMA LastsLess ==
    ASSUME TableInv, NEW l \in Lease, NEW t \in Int, NEW u \in Int, u <= t, Lasts(l, t)
    PROVE  Lasts(l, u)
<1>1. jobs[l.job].lease_expires_at \in Int
  BY DEF TableInv, JobRows, Lease
<1> QED
  BY <1>1 DEF Lasts

\* An attempt after a renewal or a claim that Control acknowledged.
LEMMA LeaseStarts ==
    ASSUME LeaseOutlasts, Core, NEW a \in Lease, Renewed(a), Registered(Me),
           UNCHANGED <<workers, jobs>>, Drains' = Drains, active' = a, main' = "exec", rpc' = NoRpc,
           next_heartbeat_at' \in 0 .. HeartbeatInterval
    PROVE  LeaseInv'
<1>1. rpc'.reply = "none" /\ rpc'.kind = "none" /\ Registered(Me)'
  BY DEF NoRpc, Registered
<1>2. PICK n \in Nat : n = next_heartbeat_at' /\ n <= HeartbeatInterval
  BY Times
<1>3. PICK p \in Nat, q \in Nat : p = Postponed(Drains) /\ q = Queued(Drains)
  BY Times
<1>4. Postponed(Drains)' = p /\ Queued(Drains)' = q
  BY <1>3 DEF Postponed, Queued
<1>5. Lasts(a, n + RequestTimeout + p) /\ Lasts(a, n + 2 * RequestTimeout + q) /\ Lasts(a, 0)
  <2>1. Lasts(a, LeaseSeconds + rpc.sent_at - 1) /\ TableInv
    BY DEF Renewed, Core
  <2>2. /\ LeaseSeconds + rpc.sent_at - 1 \in Int
        /\ n + RequestTimeout + p <= LeaseSeconds + rpc.sent_at - 1
        /\ n + 2 * RequestTimeout + q <= LeaseSeconds + rpc.sent_at - 1
        /\ 0 <= LeaseSeconds + rpc.sent_at - 1
    BY <1>2, <1>3, Times
  <2>3. n + RequestTimeout + p \in Int /\ n + 2 * RequestTimeout + q \in Int
    BY Times
  <2> QED
    BY <2>1, <2>2, <2>3, LastsLess
<1>6. /\ Lasts(active, 0)'
      /\ Lasts(active, next_heartbeat_at + RequestTimeout + Postponed(Drains))'
      /\ Lasts(active, next_heartbeat_at + 2 * RequestTimeout + Queued(Drains))'
  BY <1>2, <1>4, <1>5 DEF Lasts
<1> QED
  BY <1>1, <1>6 DEF LeaseInv, LockFree, WorkerStates, LiveStates

\* An attempt that is about to end.
LEMMA LeaseEnds ==
    ASSUME Core, LeaseInv, exec = "running", UNCHANGED <<workers, jobs>>, active' = active,
           main' \notin {"exec", "exec_hb", "inspect", "inspecting"},
           rpc' = rpc \/ rpc' = NoRpc, rpc.reply # "job"
    PROVE  LeaseInv'
<1>1. Registered(Me)' /\ Lasts(active, 0)'
  BY DEF LeaseInv, Registered, Lasts
<1>2. CASE rpc' = NoRpc
  <2>1. rpc'.reply = "none"
    BY <1>2 DEF NoRpc
  <2> QED
    BY <1>1, <2>1 DEF LeaseInv, WorkerStates, LiveStates
<1>3. CASE rpc' = rpc
  <2>1. rpc.kind = "heartbeat" /\ rpc.reply \in WorkerStates => Renewed(active)'
    BY <1>3 DEF LeaseInv, Renewed, Lasts
  <2> QED
    BY <1>1, <1>3, <2>1 DEF LeaseInv
<1> QED
  BY <1>2, <1>3

\* Nothing is executed, and an answer to a claim stays what it is.
LEMMA LeaseWaits ==
    ASSUME LeaseInv, UNCHANGED <<workers, jobs>>, exec' # "running", rpc' = rpc \/ rpc'.reply # "job"
    PROVE  LeaseInv'
<1>1. CASE rpc'.reply # "job"
  BY <1>1, LeaseIdle
<1>2. CASE rpc' = rpc
  <2>1. rpc.reply = "job" => Registered(Me)' /\ Renewed(rpc.claim)'
    BY <1>2 DEF LeaseInv, Registered, Renewed, Lasts
  <2> QED
    BY <1>2, <2>1 DEF LeaseInv
<1> QED
  BY <1>1, <1>2

\* Only the owner gets jobs.
LEMMA JobIsClaimed ==
    ASSUME Core, rpc.reply = "job"
    PROVE  main = "claiming" /\ rpc.by = "owner" /\ exec # "running"
<1>1. rpc.kind = "claim"
  BY DEF Core, CallInv
<1>2. rpc.by = "owner" /\ main = "claiming"
  BY <1>1, WhoCalls, Kinds DEF Core, Waiting
<1> QED
  BY <1>2 DEF Core, PhaseInv, Executing

\* Steps of the owner while the executor runs.
LEMMA OwnerRunning ==
    ASSUME LeaseOutlasts, Core, LeaseInv, exec = "running", UNCHANGED <<vars, drains, daemon>>,
           RuntimeLost \/ ExecHeartbeat \/ ExecHeartbeatAnswered \/ Inspect \/ InspectAnswered
    PROVE  LeaseInv'
<1>1. /\ UNCHANGED <<workers, jobs>> /\ Drains' = Drains /\ active' = active /\ exec' = exec
      /\ rpc.reply # "job" /\ active \in Lease /\ Registered(Me)' /\ Registered(Me)
  <2>1. rpc.reply # "job"
    BY JobIsClaimed
  <2>2. active \in Lease
    BY DEF Core, PhaseInv, Busy, Executing
  <2> QED
    BY <2>1, <2>2, Frame DEF RuntimeLost, ExecHeartbeat, ExecHeartbeatAnswered, Inspect,
       InspectAnswered, vars, LeaseInv, Registered, Core
<1>2. PICK p \in Nat, q \in Nat : p = Postponed(Drains) /\ q = Queued(Drains)
  BY Times
<1>3. Postponed(Drains)' = p /\ Queued(Drains)' = q
  BY <1>1, <1>2 DEF Postponed, Queued
<1>4. jobs[active.job].lease_expires_at \in Int /\ Lasts(active, 0)'
  BY <1>1 DEF Core, TableInv, JobRows, LeaseInv, Lasts, Lease
<1>5. CASE RuntimeLost
  BY <1>1, <1>5, LeaseEnds DEF RuntimeLost
<1>6. CASE ExecHeartbeat
  <2>1. main = "exec" /\ main' = "exec_hb" /\ LockFree /\ next_heartbeat_at = 0
    BY <1>6, Times DEF ExecHeartbeat, Due
  <2>2. PICK s \in {"draining", "unchanged"} :
           Call("owner", "heartbeat", s, active) /\ (s = "draining" => clock < valid_until)
    BY <1>6, HeartbeatCall DEF ExecHeartbeat
  <2>3. rpc'.sent_at = 0 /\ rpc'.reply = "pending" /\ rpc'.state = s /\ Rest' = RequestTimeout
    BY <2>2, Times DEF Call, Rest
  <2>4. Lasts(active, RequestTimeout + p)
    BY <1>2, <2>1, Times DEF LeaseInv
  <2>5. s = "draining" => Lasts(active, 2 * RequestTimeout + q)
    BY <1>2, <2>1, <2>2, Times DEF LeaseInv
  <2>6. Lasts(active, Rest)'
    BY <1>1, <1>4, <2>3, <2>4, Times DEF Lasts
  <2>7. s = "draining" => Lasts(active, Rest + RequestTimeout + Queued(Drains))'
    BY <1>1, <1>3, <1>4, <2>3, <2>5, Times DEF Lasts
  <2> QED
    BY <1>1, <1>4, <2>1, <2>3, <2>6, <2>7 DEF LeaseInv, WorkerStates, LiveStates
<1>7. CASE ExecHeartbeatAnswered
  <2>1. /\ main = "exec_hb" /\ rpc' = NoRpc /\ rpc.kind = "heartbeat" /\ rpc.reply # "pending"
        /\ Acknowledge /\ rpc'.reply = "none"
    BY <1>7, Kinds, WhoCalls DEF ExecHeartbeatAnswered, Unlock, Answered, Core, Waiting, NoRpc
  <2>2. CASE ~ Refused
    <3>1. Renewed(active) /\ main' = "exec"
      BY <1>7, <2>1, <2>2 DEF ExecHeartbeatAnswered, LeaseInv, Core, CallInv, Refused
    <3>2. next_heartbeat_at' \in 0 .. HeartbeatInterval
      <4>1. next_heartbeat_at' = HeartbeatInterval
        BY <1>1, <2>1, AcknowledgeEffect DEF Core, vars
      <4> QED
        BY <4>1, Times
    <3> QED
      BY <1>1, <2>1, <3>1, <3>2, LeaseStarts
  <2>3. CASE Refused /\ rpc.reply # "conflict"
    <3>1. main' \in {"abandon", "abandon_missing"}
      BY <1>7, <2>3 DEF ExecHeartbeatAnswered, AfterError, Refused, Errors
    <3> QED
      BY <1>1, <2>1, <3>1, LeaseEnds
  <2>4. CASE rpc.reply = "conflict"
    <3>1. main' = "inspect"
      BY <1>7, <2>4 DEF ExecHeartbeatAnswered, AfterError, Refused, Errors
    <3>2. rpc.state \in {"draining", "unchanged"}
      BY <2>1 DEF Core, CallInv, Request
    <3>3. jobs[active.job].status = "cancelled" \/ Lasts(active, Rest + RequestTimeout + q)
      BY <1>2, <2>1, <2>4, <3>2 DEF LeaseInv
    <3>4. Lasts(active, RequestTimeout + Queued(Drains))'
      BY <1>1, <1>3, <1>4, <3>3, Times DEF Lasts
    <3> QED
      BY <1>1, <1>4, <2>1, <3>1, <3>4 DEF LeaseInv, LockFree, WorkerStates, LiveStates
  <2> QED
    BY <2>2, <2>3, <2>4 DEF Refused, Errors
<1>8. CASE Inspect
  <2>1. main = "inspect" /\ main' = "inspecting" /\ LockFree /\ Call("owner", "inspect", "none", active)
    BY <1>8 DEF Inspect
  <2>2. rpc'.sent_at = 0 /\ rpc'.reply = "pending" /\ rpc'.kind = "inspect" /\ Rest' = RequestTimeout
    BY <2>1, Times DEF Call, Rest
  <2>3. Lasts(active, RequestTimeout + q)
    BY <1>2, <2>1 DEF LeaseInv
  <2>4. Lasts(active, Rest)'
    BY <1>1, <1>4, <2>2, <2>3, Times DEF Lasts
  <2> QED
    BY <1>1, <1>4, <2>1, <2>2, <2>4 DEF LeaseInv, WorkerStates, LiveStates
<1>9. CASE InspectAnswered
  <2>1. rpc' = NoRpc /\ main' \in {"return", "abandon_missing", "abandon"}
    BY <1>9 DEF InspectAnswered, Unlock
  <2> QED
    BY <1>1, <2>1, LeaseEnds
<1> QED
  BY <1>5, <1>6, <1>7, <1>8, <1>9

\* run_forever keeps ahead of its lease.
LEMMA OwnerLease ==
    ASSUME LeaseOutlasts, Core, LeaseInv, Owner
    PROVE  LeaseInv'
<1>1. UNCHANGED <<vars, late_requests, drains, daemon>> /\ UNCHANGED <<workers, jobs>>
  BY DEF Owner, vars
<1>2. ASSUME ClaimAnswered PROVE LeaseInv'
  <2>1. main = "claiming" /\ rpc' = NoRpc /\ rpc'.reply = "none" /\ exec # "running"
    BY <1>2 DEF ClaimAnswered, Unlock, NoRpc, Core, PhaseInv, Executing
  <2>2. CASE rpc.reply = "job" /\ gate = "ready"
    <3>1. active' = rpc.claim /\ main' = "exec" /\ UNCHANGED ack
      BY <1>2, <2>2 DEF ClaimAnswered, Refused, Errors
    <3>2. next_heartbeat_at' \in 0 .. HeartbeatInterval
      BY <3>1, Times DEF ack
    <3>3. rpc.claim \in Lease /\ Renewed(rpc.claim) /\ Registered(Me)
      BY <2>2 DEF Core, CallInv, LeaseInv
    <3>4. Drains' = Drains
      BY <1>1, Frame DEF Core
    <3> QED
      BY <1>1, <2>1, <3>1, <3>2, <3>3, <3>4, LeaseStarts
  <2>3. CASE ~ (rpc.reply = "job" /\ gate = "ready")
    <3>1. exec' = exec
      BY <1>2, <2>3 DEF ClaimAnswered
    <3> QED
      BY <2>1, <3>1, LeaseIdle
  <2> QED
    BY <2>2, <2>3
<1>3. ASSUME Shape, exec' # "running" PROVE LeaseInv'
  BY <1>1, <1>3, LeaseWaits DEF Shape
<1>4. ASSUME Shape, exec # "running" PROVE LeaseInv'
  <2>1. exec' # "running"
    BY <1>4 DEF Shape
  <2> QED
    BY <1>3, <1>4, <2>1
<1>5. CASE Started \/ StopAwaited \/ Loop \/ Polled \/ Executed \/ Probed \/ Cleanup
  <2>1. Shape
    BY <1>1, <1>5, OwnerAlone
  <2>2. exec' # "running"
    BY <1>5 DEF Started, StopAwaited, Loop, Polled, Executed, Probed, Cleanup, Core, PhaseInv,
                Executing, Outcomes
  <2> QED
    BY <1>3, <2>1, <2>2
<1>6. CASE register \/ RegisterAnswered \/ RegisterHeartbeatAnswered \/ HeartbeatIfDue
           \/ LoopHeartbeatAnswered \/ Claim \/ ClaimHeartbeatAnswered
  <2>1. Shape
    BY <1>1, <1>6, OwnerIdle
  <2>2. exec # "running"
    BY <1>6 DEF register, RegisterAnswered, RegisterHeartbeatAnswered, HeartbeatIfDue,
                LoopHeartbeatAnswered, Claim, ClaimHeartbeatAnswered, Core, PhaseInv, Executing
  <2> QED
    BY <1>4, <2>1, <2>2
<1>7. CASE Final \/ FinalHeartbeatAnswered \/ WriteAnswered
  <2>1. Shape
    BY <1>1, <1>7, OwnerAttempt
  <2>2. exec # "running"
    BY <1>7 DEF Final, FinalHeartbeatAnswered, WriteAnswered, Core, PhaseInv, Executing
  <2> QED
    BY <1>4, <2>1, <2>2
<1>8. CASE RuntimeLost \/ ExecHeartbeat \/ ExecHeartbeatAnswered \/ Inspect \/ InspectAnswered
  <2>1. CASE exec = "running"
    BY <1>1, <1>8, <2>1, OwnerRunning
  <2>2. CASE exec # "running"
    <3>1. Shape
      BY <1>1, <1>8, OwnerAlone, OwnerAttempt
    <3> QED
      BY <1>4, <2>2, <3>1
  <2> QED
    BY <2>1, <2>2
<1>9. CASE Closing \/ Release \/ ReportOffline \/ OfflineReported
  <2>1. exec' # "running"
    BY <1>9 DEF Closing, Release, ReportOffline, OfflineReported, Core, PhaseInv, Executing
  <2>2. rpc' = rpc \/ rpc'.reply # "job"
    BY <1>9 DEF Closing, Release, ReportOffline, OfflineReported, Call, Unlock, NoRpc
  <2> QED
    BY <1>1, <2>1, <2>2, LeaseWaits
<1> QED
  BY <1>2, <1>5, <1>6, <1>7, <1>8, <1>9 DEF Owner

\* No more drains than before, and nothing else changed.
LEMMA FewerDrains ==
    ASSUME LeaseOutlasts, Core, LeaseInv, Drains' \in Nat, Drains' <= Drains,
           UNCHANGED <<workers, jobs, exec, active, main, rpc, valid_until, next_heartbeat_at>>
    PROVE  LeaseInv'
<1>1. CASE exec # "running"
  BY <1>1, LeaseWaits
<1>2. CASE exec = "running"
  <2>1. active \in Lease /\ rpc.reply # "job"
    BY <1>2, JobIsClaimed DEF Core, PhaseInv, Busy, Executing
  <2>2. jobs[active.job].lease_expires_at \in Int
    BY <2>1 DEF Core, TableInv, JobRows, Lease
  <2>3. PICK d \in Nat : d = Drains' /\ d <= Drains
    OBVIOUS
  <2>4. PICK p \in Nat, q \in Nat : p = Postponed(d) /\ q = Queued(d)
    BY DrainCosts
  <2>5. p <= Postponed(Drains) /\ q <= Queued(Drains)
    BY <2>3, <2>4, Times, DrainCosts
  <2>6. Postponed(Drains)' = p /\ Queued(Drains)' = q
    BY <2>3, <2>4 DEF Postponed, Queued
  <2>7. Rest' = Rest /\ Registered(Me)' /\ Lasts(active, 0)' /\ (LockFree' <=> LockFree)
    BY <1>2 DEF Rest, LeaseInv, Registered, Lasts, LockFree
  <2>8. main = "exec" /\ LockFree =>
           /\ Lasts(active, next_heartbeat_at + RequestTimeout + Postponed(Drains))'
           /\ valid_until > 0 =>
                 Lasts(active, next_heartbeat_at + 2 * RequestTimeout + Queued(Drains))'
    BY <1>2, <2>2, <2>5, <2>6, Times DEF LeaseInv, Lasts
  <2>9. main = "exec" /\ ~ LockFree =>
           Lasts(active, Rest + HeartbeatInterval + RequestTimeout + Postponed(Drains))'
    BY <1>2, <2>2, <2>5, <2>6, <2>7, Times DEF LeaseInv, Lasts
  <2>10. /\ main = "exec_hb" => Lasts(active, Rest)'
         /\ main = "inspecting" => Lasts(active, Rest)'
    BY <1>2, <2>2, <2>7, Times DEF LeaseInv, Lasts
  <2>11. /\ main = "exec_hb" /\ rpc.state = "draining" =>
               Lasts(active, Rest + RequestTimeout + Queued(Drains))'
         /\ main = "inspect" /\ LockFree => Lasts(active, RequestTimeout + Queued(Drains))'
         /\ main = "inspect" /\ ~ LockFree => Lasts(active, Rest + RequestTimeout + Queued(Drains))'
    BY <1>2, <2>2, <2>5, <2>6, <2>7, Times DEF LeaseInv, Lasts
  <2>12. /\ main = "exec_hb" /\ rpc.state = "unchanged" /\ rpc.reply = "conflict" =>
               jobs'[active'.job].status = "cancelled"
         /\ rpc.kind = "heartbeat" /\ rpc.reply \in WorkerStates => Renewed(active)'
    BY <1>2 DEF LeaseInv, Renewed, Lasts
  <2> QED
    BY <2>1, <2>7, <2>8, <2>9, <2>10, <2>11, <2>12 DEF LeaseInv
<1> QED
  BY <1>1, <1>2

\* Signals, the end of the executor's task and the health of the runtime.
LEMMA EventLease ==
    ASSUME LeaseOutlasts, Core, LeaseInv, ExecutionEnds \/ Usr1 \/ Sigterm \/ Health
    PROVE  LeaseInv'
<1>1. UNCHANGED <<workers, jobs, active, main, rpc, valid_until, next_heartbeat_at>>
  BY DEF ExecutionEnds, Usr1, Sigterm, Health, vars, ack
<1>2. CASE ExecutionEnds
  BY <1>1, <1>2, LeaseWaits DEF ExecutionEnds, Outcomes
<1>3. CASE Usr1 \/ Sigterm
  <2>1. Drains' \in Nat /\ Drains' <= Drains
    BY <1>3, DrainCount DEF Core
  <2> QED
    BY <1>1, <1>3, <2>1, FewerDrains DEF Usr1, Sigterm
<1>4. CASE Health
  <2>1. Drains' = Drains /\ exec' = exec
    BY <1>4 DEF Health, Drains, drains
  <2> QED
    BY <1>1, <2>1, FewerDrains, Times
<1> QED
  BY <1>2, <1>3, <1>4

\* A number of drains, after a step.
LEMMA DrainsNat ==
    ASSUME DrainInv'
    PROVE  Drains' \in Nat
<1>0. MaxSignals \in Nat
  BY WorkerAssumption
<1>1. signals' \in 0 .. MaxSignals
  BY DEF DrainInv
<1>2. /\ Bit(usr1)' \in Nat /\ Bit(drain["signal"] = "waiting")' \in Nat
      /\ Bit(daemon = "running")' \in Nat /\ Bit(drain["daemon"] = "waiting")' \in Nat
  BY DEF Bit
<1> QED
  BY <1>0, <1>1, <1>2 DEF Drains

\* A drain's call: it takes the place of one that was expected.
LEMMA DrainCallLease ==
    ASSUME LeaseOutlasts, Core, LeaseInv, NEW d \in Drainers, DrainCall(d),
           UNCHANGED <<vars, exec, active>>
    PROVE  LeaseInv'
<1>1. /\ UNCHANGED <<workers, jobs, exec, active, main, valid_until, next_heartbeat_at>>
      /\ rpc = NoRpc /\ LockFree
  BY DEF DrainCall, vars, ack, LockFree
<1>2. Drains' + 1 = Drains /\ DrainInv'
  BY DrainCount DEF Core
<1>3. Drains' \in Nat
  BY <1>2, DrainsNat
<1>4. CASE UNCHANGED rpc
  BY <1>1, <1>2, <1>3, <1>4, FewerDrains
<1>5. ASSUME heartbeat(d, valid_until, control_state) PROVE LeaseInv'
  <2>1. /\ rpc'.sent_at = 0 /\ rpc'.reply = "pending" /\ rpc' # NoRpc /\ Rest' = RequestTimeout
    <3>1. PICK s \in {"draining", "unchanged"} : Call(d, "heartbeat", s, active)
      BY <1>5, HeartbeatCall
    <3>2. rpc'.sent_at = 0 /\ rpc'.reply = "pending" /\ Rest' = RequestTimeout
      BY <3>1, Times DEF Call, Rest
    <3> QED
      BY <3>2 DEF NoRpc
  <2>2. CASE exec # "running"
    BY <1>1, <2>1, <2>2, LeaseIdle
  <2>3. CASE exec = "running"
    <3>1. active \in Lease /\ main \notin Waiting
      BY <1>1, <2>3, WhoCalls DEF Core, PhaseInv, Busy, Executing, NoRpc
    <3>2. jobs[active.job].lease_expires_at \in Int
      BY <3>1 DEF Core, TableInv, JobRows, Lease
    <3>3. PICK n \in Nat : n = Drains' /\ n + 1 = Drains
      BY <1>2, <1>3
    <3>4. PICK p \in Nat, q \in Nat : p = Postponed(n) /\ q = Queued(n)
      BY DrainCosts
    <3>5. /\ Postponed(Drains) = p + HeartbeatInterval + RequestTimeout
          /\ Queued(Drains) = q + RequestTimeout
      BY <3>3, <3>4, DrainCosts
    <3>6. Postponed(Drains)' = p /\ Queued(Drains)' = q
      BY <3>3, <3>4 DEF Postponed, Queued
    <3>7. Registered(Me)' /\ Lasts(active, 0)' /\ ~ LockFree'
      BY <1>1, <2>1, <2>3 DEF LeaseInv, Registered, Lasts, LockFree
    <3>8. main = "exec" =>
             Lasts(active, Rest + HeartbeatInterval + RequestTimeout + Postponed(Drains))'
      BY <1>1, <2>1, <2>3, <3>2, <3>5, <3>6, Times DEF LeaseInv, Lasts
    <3>9. main = "inspect" => Lasts(active, Rest + RequestTimeout + Queued(Drains))'
      BY <1>1, <2>1, <2>3, <3>2, <3>5, <3>6, Times DEF LeaseInv, Lasts
    <3> QED
      BY <1>1, <2>1, <3>1, <3>7, <3>8, <3>9 DEF LeaseInv, Waiting, WorkerStates, LiveStates
  <2> QED
    BY <2>2, <2>3
<1> QED
  BY <1>4, <1>5 DEF DrainCall

\* The answer to a drain's call: when it failed, the owner's heartbeat is put off.
LEMMA DrainAnsweredLease ==
    ASSUME LeaseOutlasts, Core, LeaseInv, NEW d \in Drainers, DrainAnswered(d),
           UNCHANGED <<vars, exec, active>>
    PROVE  LeaseInv'
<1>1. /\ UNCHANGED <<workers, jobs, exec, active, main>>
      /\ rpc' = NoRpc /\ rpc'.reply = "none" /\ rpc.by = d /\ Acknowledge /\ rpc.reply # "pending"
  BY DEF DrainAnswered, vars, Answered, Unlock, NoRpc
<1>2. Drains' = Drains
  BY DrainCount DEF Core
<1>3. CASE exec # "running"
  BY <1>1, <1>3, LeaseIdle
<1>4. CASE exec = "running"
  <2>1. active \in Lease /\ main \notin Waiting /\ ~ LockFree /\ rpc.kind = "heartbeat" /\ Registered(Me)
    BY <1>1, <1>4, WhoCalls DEF Core, CallInv, PhaseInv, Busy, Executing, LockFree, NoRpc, Drainers,
       LeaseInv
  <2>2. jobs[active.job].lease_expires_at \in Int
    BY <2>1 DEF Core, TableInv, JobRows, Lease
  <2>3. /\ next_heartbeat_at' = HeartbeatInterval
        /\ rpc.reply \in Errors => valid_until' = 0
    BY <1>1, AcknowledgeEffect DEF Core, vars
  <2>4. Registered(Me)' /\ Lasts(active, 0)' /\ LockFree'
    BY <1>1, <1>4 DEF LeaseInv, Registered, Lasts, LockFree
  <2>5. PICK p \in Nat, q \in Nat : p = Postponed(Drains) /\ q = Queued(Drains)
    BY Times
  <2>6. Postponed(Drains)' = p /\ Queued(Drains)' = q
    BY <1>2, <2>5 DEF Postponed, Queued
  <2>7. CASE main = "exec" /\ rpc.reply \notin Errors
    <3>1. Renewed(active)
      BY <1>1, <1>4, <2>1, <2>7 DEF Core, CallInv, LeaseInv
    <3>2. next_heartbeat_at' \in 0 .. HeartbeatInterval
      BY <2>3, Times
    <3> QED
      BY <1>1, <1>2, <2>1, <2>7, <3>1, <3>2, LeaseStarts
  <2>8. CASE main = "exec" /\ rpc.reply \in Errors
    <3>1. Lasts(active, next_heartbeat_at + RequestTimeout + Postponed(Drains))'
      BY <1>1, <1>4, <2>1, <2>2, <2>3, <2>5, <2>6, <2>8, Times DEF LeaseInv, Lasts
    <3>2. ~ (valid_until > 0)'
      BY <2>3, <2>8
    <3> QED
      BY <1>1, <2>4, <2>8, <3>1, <3>2 DEF LeaseInv, WorkerStates, LiveStates
  <2>9. CASE main = "inspect"
    <3>1. Lasts(active, RequestTimeout + Queued(Drains))'
      BY <1>1, <1>4, <2>1, <2>2, <2>5, <2>6, <2>9, Times DEF LeaseInv, Lasts
    <3> QED
      BY <1>1, <2>4, <2>9, <3>1 DEF LeaseInv, WorkerStates, LiveStates
  <2>10. CASE main \notin {"exec", "inspect"}
    BY <1>1, <2>1, <2>4, <2>10 DEF LeaseInv, Waiting, WorkerStates, LiveStates
  <2> QED
    BY <2>7, <2>8, <2>9, <2>10
<1> QED
  BY <1>3, <1>4

\* The signal loop and the daemon leave the attempt its lease.
LEMMA DaemonLease ==
    ASSUME LeaseOutlasts, Core, LeaseInv, Daemon
    PROVE  LeaseInv'
<1>1. UNCHANGED <<vars, exec, active>> /\ UNCHANGED <<workers, jobs>>
  BY DEF Daemon, vars
<1>2. CASE SignalLoop
  <2>1. UNCHANGED <<main, rpc, valid_until, next_heartbeat_at, daemon>>
    BY <1>2 DEF SignalLoop, ack
  <2>2. Drains' \in Nat /\ Drains' <= Drains
    BY <1>2, <2>1, DrainCount DEF Core
  <2> QED
    BY <1>1, <2>1, <2>2, FewerDrains
<1>3. ASSUME NEW d \in Drainers, DrainCall(d) \/ DrainAnswered(d) PROVE LeaseInv'
  BY <1>1, <1>3, DrainCallLease, DrainAnsweredLease
<1>4. CASE GraceOver
  <2>1. UNCHANGED <<valid_until, next_heartbeat_at>> /\ Drains' = Drains
    BY <1>4, DrainCount DEF GraceOver, ack, Core
  <2>2. CASE UNCHANGED <<main, rpc>>
    BY <1>1, <2>1, <2>2, FewerDrains, Times
  <2>3. CASE CancelOwner
    <3>1. main' \in Cleanups /\ (rpc' = rpc \/ rpc' = NoRpc)
      BY <2>3 DEF CancelOwner, Cleanups, Unlock
    <3>2. CASE exec = "running"
      <4>1. main' \notin {"exec", "exec_hb", "inspect", "inspecting"} /\ rpc.reply # "job"
        BY <3>1, <3>2, JobIsClaimed DEF Cleanups
      <4> QED
        BY <1>1, <3>1, <3>2, <4>1, LeaseEnds
    <3>3. CASE exec # "running"
      BY <1>1, <3>1, <3>3, LeaseWaits DEF NoRpc
    <3> QED
      BY <3>2, <3>3
  <2> QED
    BY <1>4, <2>2, <2>3 DEF GraceOver
<1>5. CASE DaemonEnds
  <2>1. exec # "running" /\ (rpc' = rpc \/ rpc' = NoRpc)
    BY <1>5 DEF DaemonEnds, Core, PhaseInv, Executing, Unlock
  <2> QED
    BY <1>1, <2>1, LeaseWaits DEF NoRpc
<1> QED
  BY <1>2, <1>3, <1>4, <1>5 DEF Daemon

\* A step that keeps the lease of the attempt, and changes no more of the call than its answer.
LEMMA KeptLease ==
    ASSUME LeaseOutlasts, Core, LeaseInv, exec = "running", NEW a, a = active, Kept(a), Registered(Me)',
           UNCHANGED <<exec, active, main, valid_until, next_heartbeat_at>>, Drains' = Drains,
           LockFree' <=> LockFree, rpc'.state = rpc.state, rpc'.sent_at = rpc.sent_at,
           rpc'.reply # "job",
           main = "exec_hb" /\ rpc.state = "unchanged" /\ rpc'.reply = "conflict" =>
              jobs'[active.job].status = "cancelled",
           rpc'.kind = "heartbeat" /\ rpc'.reply \in WorkerStates => Renewed(active)'
    PROVE  LeaseInv'
<1>1. PICK p \in Nat, q \in Nat : p = Postponed(Drains) /\ q = Queued(Drains)
  BY Times
<1>2. Postponed(Drains)' = p /\ Queued(Drains)' = q /\ Rest' = Rest
  BY <1>1 DEF Postponed, Queued, Rest
<1>3. active' = a
  OBVIOUS
<1>5. \A t \in Int : 0 <= t /\ t < LeaseSeconds /\ Lasts(active, t) => Lasts(a, t)'
  BY DEF Kept, Lasts
<1>6. PICK n \in Nat, x \in Nat : n = next_heartbeat_at /\ x = Rest /\ n <= HeartbeatInterval /\ x <= RequestTimeout
  BY Times
<1>7. Lasts(active, 0)'
  <2>1. Lasts(a, 0)'
    BY <1>5, Times DEF LeaseInv
  <2> QED
    BY <1>3, <2>1 DEF Lasts
<1>8. main = "exec" /\ LockFree =>
         /\ Lasts(active, next_heartbeat_at + RequestTimeout + Postponed(Drains))'
         /\ valid_until > 0 => Lasts(active, next_heartbeat_at + 2 * RequestTimeout + Queued(Drains))'
  <2>1. /\ n + RequestTimeout + p \in Int /\ 0 <= n + RequestTimeout + p
        /\ n + RequestTimeout + p < LeaseSeconds
        /\ n + 2 * RequestTimeout + q \in Int /\ 0 <= n + 2 * RequestTimeout + q
        /\ n + 2 * RequestTimeout + q < LeaseSeconds
    BY <1>1, <1>6, Times
  <2>2. main = "exec" /\ LockFree =>
           /\ Lasts(a, n + RequestTimeout + p)'
           /\ valid_until > 0 => Lasts(a, n + 2 * RequestTimeout + q)'
    BY <1>1, <1>5, <1>6, <2>1 DEF LeaseInv
  <2> QED
    BY <1>2, <1>3, <1>6, <2>2 DEF Lasts
<1>9. main = "exec" /\ ~ LockFree =>
         Lasts(active, Rest + HeartbeatInterval + RequestTimeout + Postponed(Drains))'
  <2>1. /\ x + HeartbeatInterval + RequestTimeout + p \in Int
        /\ 0 <= x + HeartbeatInterval + RequestTimeout + p
        /\ x + HeartbeatInterval + RequestTimeout + p < LeaseSeconds
    BY <1>1, <1>6, Times
  <2>2. main = "exec" /\ ~ LockFree => Lasts(a, x + HeartbeatInterval + RequestTimeout + p)'
    BY <1>1, <1>5, <1>6, <2>1 DEF LeaseInv
  <2> QED
    BY <1>2, <1>3, <1>6, <2>2 DEF Lasts
<1>10. main \in {"exec_hb", "inspecting"} => Lasts(active, Rest)'
  <2>1. x \in Int /\ 0 <= x /\ x < LeaseSeconds
    BY <1>6, Times
  <2>2. main \in {"exec_hb", "inspecting"} => Lasts(a, x)'
    BY <1>5, <1>6, <2>1 DEF LeaseInv
  <2> QED
    BY <1>2, <1>3, <1>6, <2>2 DEF Lasts
<1>11. (main = "exec_hb" /\ rpc.state = "draining") \/ (main = "inspect" /\ ~ LockFree) =>
          Lasts(active, Rest + RequestTimeout + Queued(Drains))'
  <2>1. /\ x + RequestTimeout + q \in Int /\ 0 <= x + RequestTimeout + q
        /\ x + RequestTimeout + q < LeaseSeconds
    BY <1>1, <1>6, Times
  <2>2. (main = "exec_hb" /\ rpc.state = "draining") \/ (main = "inspect" /\ ~ LockFree) =>
           Lasts(a, x + RequestTimeout + q)'
    BY <1>1, <1>5, <1>6, <2>1 DEF LeaseInv
  <2> QED
    BY <1>2, <1>3, <1>6, <2>2 DEF Lasts
<1>12. main = "inspect" /\ LockFree => Lasts(active, RequestTimeout + Queued(Drains))'
  <2>1. RequestTimeout + q \in Int /\ 0 <= RequestTimeout + q /\ RequestTimeout + q < LeaseSeconds
    BY <1>1, Times
  <2>2. main = "inspect" /\ LockFree => Lasts(a, RequestTimeout + q)'
    BY <1>1, <1>5, <2>1 DEF LeaseInv
  <2> QED
    BY <1>2, <1>3, <2>2 DEF Lasts
<1> QED
  BY <1>7, <1>8, <1>9, <1>10, <1>11, <1>12 DEF LeaseInv

\* A renewal that was acknowledged is kept.
LEMMA KeptRenewal ==
    ASSUME LeaseOutlasts, Core, NEW a, Kept(a), Renewed(a), rpc'.sent_at = rpc.sent_at
    PROVE  Renewed(a)'
<1>1. PICK t \in Int : t = LeaseSeconds + rpc.sent_at - 1 /\ 0 <= t /\ t < LeaseSeconds
  BY Times
<1>2. Lasts(a, t)'
  BY <1>1 DEF Kept, Renewed
<1> QED
  BY <1>1, <1>2 DEF Renewed, Lasts

\* A renewal just now is newer than the call.
LEMMA NewRenewal ==
    ASSUME LeaseOutlasts, Core, TableInv', NEW a, a.job \in JobIds, Lasts(a, LeaseSeconds - 1)',
           rpc'.sent_at = rpc.sent_at
    PROVE  Renewed(a)'
<1>1. jobs'[a.job].lease_expires_at \in Int
  BY DEF TableInv, JobRows
<1> QED
  BY <1>1, Times DEF Renewed, Lasts

\* Control leaves the attempt its lease.
LEMMA ControlLease ==
    ASSUME LeaseOutlasts, Core, LeaseInv, Control
    PROVE  LeaseInv'
<1>1. /\ UNCHANGED <<main, exec, active, valid_until, next_heartbeat_at>> /\ Drains' = Drains
  BY DEF Control, drains, ack, Drains
<1>2. /\ TableInv' /\ leases_issued <= leases_issued'
      /\ Registered(Me) => Registered(Me)'
      /\ exec = "running" => active \in Lease /\ Registered(Me) /\ Lasts(active, 0)
      /\ rpc.reply = "job" => /\ rpc.claim \in Lease /\ Registered(Me) /\ Renewed(rpc.claim)
                              /\ exec # "running"
  BY ControlEffect, JobIsClaimed DEF LeaseInv, Core, CallInv, PhaseInv, Busy, Executing
<1>3. PICK a : a = active
  OBVIOUS
<1>4. exec = "running" => Kept(a)
  BY <1>2, <1>3, ControlEffect
<1>5. ASSUME exec = "running", rpc'.sent_at = rpc.sent_at, rpc'.kind = rpc.kind,
             rpc'.reply = rpc.reply \/ rpc'.reply = "unavailable"
      PROVE  /\ main = "exec_hb" /\ rpc.state = "unchanged" /\ rpc'.reply = "conflict" =>
                   jobs'[active.job].status = "cancelled"
             /\ rpc'.kind = "heartbeat" /\ rpc'.reply \in WorkerStates => Renewed(active)'
  <2>1. main = "exec_hb" /\ rpc.state = "unchanged" /\ rpc'.reply = "conflict" =>
           jobs'[active.job].status = "cancelled"
    BY <1>5, <1>3, <1>4 DEF LeaseInv, Kept
  <2>3. rpc'.kind = "heartbeat" /\ rpc'.reply \in WorkerStates => Renewed(a)
    BY <1>5, <1>3 DEF LeaseInv, WorkerStates, LiveStates
  <2>5. rpc'.kind = "heartbeat" /\ rpc'.reply \in WorkerStates => Renewed(a)'
    BY <1>5, <1>4, <2>3, KeptRenewal
  <2>6. active' = a
    BY <1>1, <1>3
  <2>7. Renewed(a)' => Renewed(active)'
    BY <2>6 DEF Renewed, Lasts
  <2> QED
    BY <2>1, <2>5, <2>7
<1>6. ASSUME rpc' = rpc PROVE LeaseInv'
  <2>1. CASE exec = "running"
    <3>1. LockFree' <=> LockFree
      BY <1>6 DEF LockFree
    <3> QED
      BY <1>1, <1>2, <1>5, <1>6, <1>3, <1>4, <2>1, <3>1, KeptLease
  <2>2. CASE exec # "running" /\ rpc.reply = "job"
    <3>1. PICK c : c = rpc.claim
      OBVIOUS
    <3>2. Kept(c) /\ Renewed(c)
      BY <1>2, <2>2, <3>1, ControlEffect
    <3>3. Renewed(c)'
      BY <1>6, <3>2, KeptRenewal
    <3>4. Renewed(rpc.claim)'
      BY <1>6, <3>1, <3>3 DEF Renewed, Lasts
    <3> QED
      BY <1>1, <1>2, <2>2, <3>4 DEF LeaseInv
  <2>3. CASE exec # "running" /\ rpc.reply # "job"
    BY <1>1, <1>6, <2>3, LeaseIdle
  <2> QED
    BY <2>1, <2>2, <2>3
<1>7. CASE Serve
  <2>1. Request(rpc) /\ Handle(rpc) /\ rpc.reply = "pending" /\ TableInv
    BY <1>7 DEF Serve, Core, CallInv
  <2>2. /\ rpc'.by = rpc.by /\ rpc'.kind = rpc.kind
        /\ rpc'.state = rpc.state /\ rpc'.sent_at = rpc.sent_at
        /\ rpc'.reply = "job" => /\ rpc.kind = "claim" /\ rpc'.claim \in Lease'
                                 /\ Registered(Me)' /\ Lasts(rpc.claim, LeaseSeconds - 1)'
        /\ rpc'.reply # "job" => rpc'.claim = rpc.claim
        /\ rpc.kind = "heartbeat" =>
              /\ rpc'.reply \in WorkerStates \cup {"conflict"}
              /\ rpc'.reply \in WorkerStates /\ rpc.claim # NoClaim =>
                    Lasts(rpc.claim, LeaseSeconds - 1)'
              /\ rpc'.reply = "conflict" => ~ HeartbeatFits(rpc) /\ UNCHANGED vars
    BY <2>1, ReplyEffect
  <2>3. rpc.by # "nobody" /\ ~ LockFree /\ ~ LockFree'
    BY <2>1, <2>2 DEF LockFree, NoRpc, Core, CallInv
  <2>4. CASE exec = "running"
    <3>1. active \in Lease /\ leases_issued \in Nat
      BY <2>1, <2>4 DEF Core, PhaseInv, Busy, Executing, TableInv
    <3>2. active.job \in JobIds /\ active # NoClaim
      BY <3>1, LeaseIsClaim
    <3>3. rpc'.reply # "job" /\ (rpc.kind = "heartbeat" => rpc.claim = active)
      <4>1. rpc.kind # "claim"
        BY <2>4, WhoCalls, Kinds DEF Core, Waiting, PhaseInv, Executing
      <4> QED
        BY <2>2, <2>4, <4>1 DEF Core, CallInv
    <3>4. rpc'.kind = "heartbeat" /\ rpc'.reply \in WorkerStates => Renewed(active)'
      <4>2. ASSUME rpc.kind = "heartbeat", rpc'.reply \in WorkerStates PROVE Renewed(a)'
        <5>1. Lasts(a, LeaseSeconds - 1)'
          <6>1. Lasts(rpc.claim, LeaseSeconds - 1)' /\ rpc'.claim = a
            BY <1>3, <2>2, <3>2, <3>3, <4>2
          <6> QED
            BY <6>1 DEF Lasts
        <5> QED
          BY <1>2, <1>3, <2>2, <3>2, <5>1, NewRenewal
      <4>3. Renewed(a)' => Renewed(active)'
        BY <1>1, <1>3 DEF Renewed, Lasts
      <4> QED
        BY <2>2, <4>2, <4>3
    <3>5. main = "exec_hb" /\ rpc.state = "unchanged" /\ rpc'.reply = "conflict" =>
             jobs'[active.job].status = "cancelled"
      <4>1. ASSUME main = "exec_hb", rpc.state = "unchanged", rpc'.reply = "conflict"
            PROVE  jobs'[active.job].status = "cancelled"
        <5>1. rpc.kind = "heartbeat"
          BY <4>1, WhoCalls, Kinds DEF Core, Waiting
        <5>2. ~ HeartbeatFits(rpc) /\ UNCHANGED jobs
          BY <2>2, <4>1, <5>1 DEF vars
        <5>3. HeartbeatAllowed(Me, rpc.state)
          BY <1>2, <2>4, <4>1 DEF HeartbeatAllowed, LiveStates
        <5>4. ~ assert_running(active.job, Me, active.token, clock)
          BY <3>3, <5>1, <5>2, <5>3 DEF HeartbeatFits
        <5>5. Lasts(active, 0) /\ clock = 0
          BY <1>2, <2>1, <2>4 DEF TableInv
        <5> QED
          BY <5>2, <5>4, <5>5 DEF Lasts, assert_running
      <4> QED
        BY <4>1
    <3> QED
      BY <1>1, <1>2, <1>3, <1>4, <2>2, <2>3, <2>4, <3>3, <3>4, <3>5, KeptLease
  <2>5. CASE exec # "running" /\ rpc'.reply = "job"
    <3>1. PICK c : c = rpc'.claim
      OBVIOUS
    <3>2. Lasts(c, LeaseSeconds - 1)' /\ c.job \in JobIds
      BY <2>2, <2>5, <3>1 DEF Lasts, Lease
    <3>3. Renewed(c)'
      BY <1>2, <2>2, <3>2, NewRenewal
    <3>4. Renewed(rpc.claim)'
      BY <3>1, <3>3 DEF Renewed, Lasts
    <3> QED
      BY <1>1, <2>2, <2>5, <3>4 DEF LeaseInv
  <2>6. CASE exec # "running" /\ rpc'.reply # "job"
    BY <1>1, <2>6, LeaseIdle
  <2> QED
    BY <2>4, <2>5, <2>6
<1>8. CASE ServeLate
  BY <1>6, <1>8, LateIsNotCall, LateReply DEF ServeLate
<1>9. CASE Unanswered
  <2>1. DOMAIN rpc = Fields /\ rpc' = [rpc EXCEPT !.reply = "unavailable"] /\ rpc # NoRpc
    BY <1>9 DEF Unanswered, Core, CallInv, Request
  <2>2. /\ rpc'.kind = rpc.kind /\ rpc'.state = rpc.state /\ rpc'.sent_at = rpc.sent_at
        /\ rpc'.reply = "unavailable" /\ rpc' # NoRpc
    BY <2>1 DEF Fields, NoRpc
  <2>3. LockFree' <=> LockFree
    BY <2>1, <2>2 DEF LockFree
  <2>4. CASE exec = "running"
    BY <1>1, <1>2, <1>5, <1>3, <1>4, <2>2, <2>3, <2>4, KeptLease
  <2>5. CASE exec # "running"
    BY <1>1, <2>2, <2>5, LeaseIdle
  <2> QED
    BY <2>4, <2>5
<1>10. CASE Others
  BY <1>6, <1>10 DEF Others
<1> QED
  BY <1>7, <1>8, <1>9, <1>10 DEF Control

\* A tick takes one from what a lease lasts.
LEMMA TickLasts ==
    ASSUME Core, WTick, NEW a, a.job \in JobIds, NEW t \in Int, t >= 0, Lasts(a, t + 1)
    PROVE  Lasts(a, t)'
<1>1. /\ jobs'[a.job].status = jobs[a.job].status
      /\ jobs'[a.job].assigned_worker_id = jobs[a.job].assigned_worker_id
      /\ jobs'[a.job].lease_token = jobs[a.job].lease_token
      /\ jobs[a.job].status = "running" =>
            \/ jobs'[a.job].lease_expires_at = jobs[a.job].lease_expires_at - 1
            \/ jobs[a.job].lease_expires_at <= 0
  BY TickEffect DEF Core
<1>2. jobs[a.job].lease_expires_at \in Int
  BY DEF Core, TableInv, JobRows
<1> QED
  BY <1>1, <1>2 DEF Lasts

\* Time passes, and the attempt keeps ahead of its lease: what it waits for comes nearer too.
LEMMA TickLease ==
    ASSUME LeaseOutlasts, Core, LeaseInv, WTick
    PROVE  LeaseInv'
<1>1. /\ UNCHANGED <<main, exec, active>> /\ Drains' = Drains /\ ~ Lagging
  BY DEF WTick, drains, Drains
<1>2. Registered(Me)' <=> Registered(Me)
  BY TickEffect DEF Core, StateStep, Registered
<1>3. rpc # NoRpc => /\ rpc' # NoRpc /\ rpc'.kind = rpc.kind
                     /\ rpc'.state = rpc.state /\ rpc'.claim = rpc.claim /\ rpc'.reply = rpc.reply
                     /\ rpc'.sent_at = rpc.sent_at - 1 /\ rpc.sent_at > - RequestTimeout
  <2>1. rpc # NoRpc =>
           /\ rpc'.by = rpc.by /\ rpc'.kind = rpc.kind
           /\ rpc'.state = rpc.state /\ rpc'.claim = rpc.claim /\ rpc'.reply = rpc.reply
           /\ rpc'.sent_at = rpc.sent_at - 1 /\ rpc.sent_at > - RequestTimeout
    BY TickEffect DEF Core
  <2>2. rpc # NoRpc => rpc.by # "nobody"
    BY WhoCalls DEF Core
  <2> QED
    BY <2>1, <2>2 DEF NoRpc
<1>4. (rpc = NoRpc => rpc' = NoRpc) /\ NoRpc.reply = "none" /\ "none" \notin WorkerStates
  BY TickEffect DEF Core, NoRpc, WorkerStates, LiveStates
<1>5. ASSUME NEW a, a.job \in JobIds, Renewed(a), rpc # NoRpc PROVE Renewed(a)'
  <2>1. PICK t \in Int : t = LeaseSeconds + rpc.sent_at - 2 /\ t >= 0
    BY <1>3, <1>5, Times
  <2>2. Lasts(a, t + 1)
    <3>1. t + 1 = LeaseSeconds + rpc.sent_at - 1
      BY <2>1, Times
    <3> QED
      BY <1>5, <3>1 DEF Renewed
  <2>3. Lasts(a, t)'
    BY <1>5, <2>1, <2>2, TickLasts
  <2>4. LeaseSeconds + rpc'.sent_at - 1 = t
    BY <1>3, <1>5, <2>1, Times
  <2> QED
    BY <2>3, <2>4 DEF Renewed, Lasts
<1>6. ASSUME rpc'.reply = "job" PROVE Registered(Me)' /\ Renewed(rpc.claim)'
  <2>1. rpc # NoRpc /\ rpc.reply = "job"
    BY <1>3, <1>4, <1>6
  <2>2. PICK c : c = rpc.claim
    OBVIOUS
  <2>3. c \in Lease /\ Renewed(c) /\ Registered(Me)
    BY <2>1, <2>2 DEF LeaseInv, Core, CallInv
  <2>4. Renewed(c)'
    BY <1>5, <2>1, <2>3 DEF Lease
  <2> QED
    BY <1>2, <1>3, <2>1, <2>2, <2>3, <2>4 DEF Renewed, Lasts
<1>7. CASE exec # "running"
  BY <1>1, <1>6, <1>7 DEF LeaseInv
<1>8. CASE exec = "running"
  <2>1. PICK a : a = active
    OBVIOUS
  <2>2. a \in Lease /\ a.job \in JobIds /\ active' = a /\ rpc.reply # "job" /\ Registered(Me)'
    BY <1>1, <1>2, <1>8, <2>1, JobIsClaimed DEF Core, PhaseInv, Busy, Executing, Lease, LeaseInv
  <2>3. rpc'.reply # "job"
    BY <1>3, <1>4, <2>2
  <2>4. PICK p \in Nat, q \in Nat : p = Postponed(Drains) /\ q = Queued(Drains)
    BY Times
  <2>5. Postponed(Drains)' = p /\ Queued(Drains)' = q
    BY <1>1, <2>4 DEF Postponed, Queued
  <2>6. rpc'.kind = "heartbeat" /\ rpc'.reply \in WorkerStates => Renewed(active)'
    <3>1. ASSUME rpc'.kind = "heartbeat", rpc'.reply \in WorkerStates PROVE Renewed(a)'
      <4>1. rpc # NoRpc /\ Renewed(a)
        BY <1>3, <1>4, <1>8, <2>1, <3>1 DEF LeaseInv
      <4> QED
        BY <1>5, <2>2, <4>1
    <3>2. Renewed(a)' => Renewed(active)'
      BY <2>2 DEF Renewed, Lasts
    <3> QED
      BY <3>1, <3>2
  <2>7. CASE main = "exec" /\ LockFree
    <3>1. PICK n \in Nat : n + 1 = next_heartbeat_at /\ next_heartbeat_at' = n
      <4>1. next_heartbeat_at > 0
        BY <1>1, <2>7, Times DEF Lagging, Due
      <4>2. next_heartbeat_at' = next_heartbeat_at - 1
        BY <4>1, TickEffect DEF Core
      <4> QED
        BY <4>1, <4>2, Times
    <3>2. /\ n + RequestTimeout + p \in Int /\ n + RequestTimeout + p >= 0
          /\ next_heartbeat_at + RequestTimeout + p = (n + RequestTimeout + p) + 1
          /\ n + 2 * RequestTimeout + q \in Int /\ n + 2 * RequestTimeout + q >= 0
          /\ next_heartbeat_at + 2 * RequestTimeout + q = (n + 2 * RequestTimeout + q) + 1
      BY <3>1, Times
    <3>3. Lasts(a, n + RequestTimeout + p)'
      <4>1. Lasts(a, (n + RequestTimeout + p) + 1)
        BY <1>8, <2>1, <2>4, <2>7, <3>2 DEF LeaseInv
      <4> QED
        BY <2>2, <3>2, <4>1, TickLasts
    <3>4. valid_until' > 0 => Lasts(a, n + 2 * RequestTimeout + q)'
      <4>1. valid_until' > 0 => valid_until > 0
        BY TickEffect DEF Core
      <4>2. valid_until > 0 => Lasts(a, (n + 2 * RequestTimeout + q) + 1)
        BY <1>8, <2>1, <2>4, <2>7, <3>2 DEF LeaseInv
      <4> QED
        BY <2>2, <3>2, <4>1, <4>2, TickLasts
    <3>5. Lasts(active, 0)'
      <4>1. jobs'[a.job].lease_expires_at \in Int
        BY <2>2, TickEffect DEF Core, TableInv, JobRows
      <4> QED
        BY <2>2, <3>2, <3>3, <4>1 DEF Lasts
    <3>6. /\ Lasts(active, next_heartbeat_at + RequestTimeout + Postponed(Drains))'
          /\ valid_until' > 0 =>
                Lasts(active, next_heartbeat_at + 2 * RequestTimeout + Queued(Drains))'
      BY <2>2, <2>5, <3>1, <3>3, <3>4 DEF Lasts
    <3>7. rpc' = NoRpc
      BY <1>4, <2>7 DEF LockFree
    <3> QED
      BY <1>1, <2>2, <2>3, <2>6, <2>7, <3>5, <3>6, <3>7 DEF LeaseInv, LockFree
  <2>8. CASE ~ LockFree /\ main \in {"exec", "exec_hb", "inspect", "inspecting"}
    <3>1. PICK x \in Nat : x + 1 = Rest /\ Rest' = x
      <4>1. rpc # NoRpc
        BY <2>8 DEF LockFree
      <4>2. Rest' = Rest - 1 /\ Rest > 0
        BY <1>3, <4>1, Times DEF Rest
      <4> QED
        BY <4>2, Times
    <3>2. ASSUME NEW k \in Nat, Lasts(active, Rest + k) PROVE Lasts(a, x + k)'
      <4>1. Lasts(a, (x + k) + 1) /\ x + k \in Int /\ x + k >= 0
        <5>1. Rest + k = (x + k) + 1
          BY <3>1, Times
        <5> QED
          BY <2>1, <3>1, <3>2, <5>1
      <4> QED
        BY <2>2, <4>1, TickLasts
    <3>3. ~ LockFree'
      BY <1>3, <2>8 DEF LockFree
    <3>4. ASSUME NEW k \in Nat, Lasts(a, x + k)' PROVE Lasts(active, 0)' /\ Lasts(active, x + k)'
      <4>1. jobs'[a.job].lease_expires_at \in Int
        BY <2>2, TickEffect DEF Core, TableInv, JobRows
      <4> QED
        BY <2>2, <3>1, <3>4, <4>1 DEF Lasts
    <3>5. CASE main = "exec"
      <4>1. PICK k \in Nat : k = HeartbeatInterval + RequestTimeout + p
        BY Times
      <4>2. Lasts(active, Rest + k)
        <5>1. Rest + k = Rest + HeartbeatInterval + RequestTimeout + p
          BY <4>1, Times
        <5> QED
          BY <1>8, <2>4, <2>8, <3>5, <5>1 DEF LeaseInv
      <4>3. Lasts(active, 0)' /\ Lasts(active, x + k)'
        BY <3>2, <3>4, <4>2
      <4>4. Rest' + HeartbeatInterval + RequestTimeout + p = x + k
        BY <3>1, <4>1, Times
      <4>5. Lasts(active, Rest + HeartbeatInterval + RequestTimeout + Postponed(Drains))'
        BY <2>5, <4>3, <4>4 DEF Lasts
      <4> QED
        BY <1>1, <2>2, <2>3, <2>6, <3>3, <3>5, <4>3, <4>5 DEF LeaseInv
    <3>6. CASE main \in {"exec_hb", "inspecting"}
      <4>1. Lasts(active, Rest + 0)
        <5>1. Rest + 0 = Rest
          BY Times
        <5> QED
          BY <1>8, <3>6, <5>1 DEF LeaseInv
      <4>2. Lasts(active, 0)' /\ Lasts(active, x + 0)'
        BY <3>2, <3>4, <4>1
      <4>3. Lasts(active, Rest)'
        BY <3>1, <4>2 DEF Lasts
      <4>4. PICK k \in Nat : k = RequestTimeout + q
        BY Times
      <4>5. main = "exec_hb" /\ rpc.state = "draining" =>
               Lasts(active, Rest + RequestTimeout + Queued(Drains))'
        <5>1. Rest + k = Rest + RequestTimeout + q /\ Rest' + RequestTimeout + q = x + k
          BY <3>1, <4>4, Times
        <5>2. main = "exec_hb" /\ rpc.state = "draining" => Lasts(active, Rest + k)
          BY <1>8, <2>4, <5>1 DEF LeaseInv
        <5>3. main = "exec_hb" /\ rpc.state = "draining" => Lasts(active, x + k)'
          BY <3>2, <3>4, <5>2
        <5> QED
          BY <2>5, <5>1, <5>3 DEF Lasts
      <4>6. main = "exec_hb" /\ rpc.state = "unchanged" /\ rpc.reply = "conflict" =>
               jobs'[active'.job].status = "cancelled"
        <5>1. jobs'[a.job].status = jobs[a.job].status
          BY <2>2, TickEffect DEF Core
        <5> QED
          BY <1>8, <2>1, <2>2, <5>1 DEF LeaseInv
      <4>7. rpc'.state = rpc.state /\ rpc'.reply = rpc.reply
        BY <1>3, <2>8 DEF LockFree
      <4> QED
        BY <1>1, <2>2, <2>3, <2>6, <3>6, <4>2, <4>3, <4>5, <4>6, <4>7 DEF LeaseInv
    <3>7. CASE main = "inspect"
      <4>1. PICK k \in Nat : k = RequestTimeout + q
        BY Times
      <4>2. Rest + k = Rest + RequestTimeout + q /\ Rest' + RequestTimeout + q = x + k
        BY <3>1, <4>1, Times
      <4>3. Lasts(active, Rest + k)
        BY <1>8, <2>4, <2>8, <3>7, <4>2 DEF LeaseInv
      <4>4. Lasts(active, 0)' /\ Lasts(active, x + k)'
        BY <3>2, <3>4, <4>3
      <4>5. Lasts(active, Rest + RequestTimeout + Queued(Drains))'
        BY <2>5, <4>2, <4>4 DEF Lasts
      <4> QED
        BY <1>1, <2>2, <2>3, <2>6, <3>3, <3>7, <4>4, <4>5 DEF LeaseInv
    <3> QED
      BY <2>8, <3>5, <3>6, <3>7
  <2>9. \/ main = "exec" /\ LockFree
        \/ ~ LockFree /\ main \in {"exec", "exec_hb", "inspect", "inspecting"}
    <3>1. main \in Executing /\ main \notin Cleanups /\ ~ (main = "inspect" /\ LockFree)
      BY <1>1, <1>8 DEF Lagging, Core, PhaseInv
    <3>2. main \in {"exec_hb", "inspecting"} => ~ LockFree
      BY WhoCalls DEF Core, Waiting, LockFree, NoRpc
    <3> QED
      BY <3>1, <3>2 DEF Executing, Cleanups
  <2> QED
    BY <2>7, <2>8, <2>9
<1> QED
  BY <1>7, <1>8

\* An attempt is executed only under its lease, or after it was cancelled (_execute_claim).
\* For an event loop that is responsive and timings with LeaseOutlasts.
THEOREM AttemptsAreLeased ==
    ASSUME LeaseOutlasts
    PROVE  WSpec => []ExecutesOnlyLeased
<1>1. WInit => Core /\ LeaseInv
  BY InitCore
<1>2. Core /\ LeaseInv /\ [WNext]_wvars => Core' /\ LeaseInv'
  <2> SUFFICES ASSUME Core, LeaseInv, [WNext]_wvars PROVE Core' /\ LeaseInv'
    OBVIOUS
  <2>1. Core'
    BY NextCore
  <2>2. CASE UNCHANGED wvars
    <3>1. UNCHANGED <<workers, jobs, exec, active, main, rpc, valid_until, next_heartbeat_at>>
          /\ Drains' = Drains
      BY <2>2 DEF wvars, vars, drains, ack, Drains
    <3> QED
      BY <2>1, <3>1, FewerDrains, Times
  <2> QED
    BY <2>1, <2>2, OwnerLease, EventLease, DaemonLease, ControlLease, TickLease DEF WNext
<1>3. Core /\ LeaseInv => ExecutesOnlyLeased
  BY DEF LeaseInv, Lasts, ExecutesOnlyLeased
<1> QED
  BY <1>1, <1>2, <1>3, PTL DEF WSpec
=============================================================================
