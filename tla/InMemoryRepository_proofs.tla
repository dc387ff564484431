--------------------- MODULE InMemoryRepository_proofs ---------------------
(* The in-memory backend implements ControlContract, for all constants. *)
EXTENDS InMemoryRepository, ControlContract_proofs

\* The step neither creates a job nor changes what was requested.
SameRequests ==
    \A j \in JobIds : jobs'[j].request = jobs[j].request /\ (Exists(j)' <=> Exists(j))

\* An update of one existing job that keeps its request and status known.
LEMMA UpdateKeepsRequests ==
    ASSUME TypeOK, NEW j \in JobIds, NEW new, jobs' = [jobs EXCEPT ![j] = new],
           Exists(j), new.request = jobs[j].request, new.status # "none"
    PROVE  SameRequests
BY DEF SameRequests, Exists, TypeOK

\* A worker's call leaves the jobs alone.
LEMMA WorkerCallRequests ==
    ASSUME NEW w, NEW t, WorkerCall(w, t)
    PROVE  SameRequests
BY DEF WorkerCall, register_worker, set_worker_state, heartbeat_worker, SameRequests, Exists

\* A claim changes no request.
LEMMA ClaimRequests ==
    ASSUME TypeOK, NEW j \in JobIds, NEW w, NEW t, claim_next_job(j, w, t)
    PROVE  SameRequests
<1> DEFINE new == [jobs[j] EXCEPT !.status = "running", !.attempts = @ + 1,
                                  !.assigned_worker_id = w, !.lease_token = leases_issued + 1,
                                  !.lease_expires_at = t + LeaseSeconds, !.error = "none"]
<1>1. jobs' = [jobs EXCEPT ![j] = new] /\ Exists(j)
  BY DEF claim_next_job, eligible, Exists
<1>2. new.request = jobs[j].request /\ new.status = "running"
  BY DEF TypeOK, JobRecords
<1> HIDE DEF new
<1> QED
  BY <1>1, <1>2, UpdateKeepsRequests

\* A call under a lease changes no request.
LEMMA LeaseCallRequests ==
    ASSUME TypeOK, NEW w, NEW j \in JobIds, NEW token \in Nat, NEW t \in Nat,
           LeaseCall(w, j, token, t)
    PROVE  SameRequests
<1>0. jobs[j] \in JobRecords
  BY DEF TypeOK
<1>1. ASSUME NEW s, heartbeat_lease(w, s, j, token, t) PROVE SameRequests
  <2> DEFINE new == [jobs[j] EXCEPT !.lease_expires_at = t + LeaseSeconds]
  <2>1. jobs' = [jobs EXCEPT ![j] = new] /\ jobs[j].status = "running"
    BY <1>1 DEF heartbeat_lease, assert_running
  <2>2. new.request = jobs[j].request /\ new.status = jobs[j].status
    BY <1>0 DEF JobRecords
  <2> HIDE DEF new
  <2> QED
    BY <2>1, <2>2, UpdateKeepsRequests DEF Exists
<1>2. ASSUME complete_job(j, w, token, t) PROVE SameRequests
  <2> DEFINE new == [Unleased(jobs[j]) EXCEPT !.status = "succeeded", !.result = token,
                                              !.error = "none"]
  <2>1. jobs' = [jobs EXCEPT ![j] = new] /\ jobs[j].status = "running"
    BY <1>2 DEF complete_job, assert_running
  <2>2. new.request = jobs[j].request /\ new.status = "succeeded"
    BY <1>0 DEF JobRecords, Unleased
  <2> HIDE DEF new
  <2> QED
    BY <2>1, <2>2, UpdateKeepsRequests DEF Exists
<1>3. ASSUME NEW r \in BOOLEAN, fail_job(j, w, token, r, t) PROVE SameRequests
  <2>1. jobs' = [jobs EXCEPT ![j] = EndAttempt(jobs[j], r, t)] /\ jobs[j].status = "running"
    BY <1>3 DEF fail_job, assert_running
  <2>2. /\ EndAttempt(jobs[j], r, t).request = jobs[j].request
        /\ EndAttempt(jobs[j], r, t).status # "none"
    BY <1>0, EndAttemptFacts
  <2> QED
    BY <2>1, <2>2, UpdateKeepsRequests DEF Exists
<1> QED
  BY <1>1, <1>2, <1>3 DEF LeaseCall

\* A cancel changes no request.
LEMMA CancelRequests ==
    ASSUME TypeOK, NEW j \in JobIds, cancel_job(j)
    PROVE  SameRequests
<1> DEFINE new == [Unleased(jobs[j]) EXCEPT !.status = "cancelled"]
<1>1. jobs' = [jobs EXCEPT ![j] = new] /\ jobs[j].status \in {"queued", "running"}
  BY DEF cancel_job
<1>2. new.request = jobs[j].request /\ new.status = "cancelled"
  BY DEF TypeOK, JobRecords, Unleased
<1> HIDE DEF new
<1> QED
  BY <1>1, <1>2, UpdateKeepsRequests DEF Exists

\* Recovery changes no request.
LEMMA RecoverRequests ==
    ASSUME TypeOK, NEW S \in SUBSET JobIds, NEW t \in Nat, recover_expired_jobs(S, t)
    PROVE  SameRequests
<1>1. \A j \in JobIds : jobs'[j] = IF j \in S THEN EndAttempt(jobs[j], TRUE, t) ELSE jobs[j]
  BY DEF recover_expired_jobs
<1>2. \A j \in S : jobs[j].status = "running" /\ jobs[j] \in JobRecords
  BY DEF recover_expired_jobs, LeaseExpired, TypeOK
<1>3. \A j \in S : /\ EndAttempt(jobs[j], TRUE, t).request = jobs[j].request
                   /\ EndAttempt(jobs[j], TRUE, t).status # "none"
  BY <1>2, EndAttemptFacts
<1> QED
  BY <1>1, <1>2, <1>3 DEF SameRequests, Exists

\* The index stays accurate as long as requests do not change.
LEMMA IndexKept ==
    ASSUME IndexAccurate, SameRequests, UNCHANGED index
    PROVE  IndexAccurate'
BY DEF IndexAccurate, SameRequests, index

\* The index that submit_job writes beside the job is accurate again.
LEMMA SubmitIndex ==
    ASSUME TypeOK, IndexAccurate, NEW s \in Submissions, NEW t \in Nat, IMSubmit(s, t)
    PROVE  /\ IndexAccurate'
           /\ submit_job(s, sequence + 1, t)
           /\ sequence + 1 \in JobIds
<1> DEFINE n == sequence + 1
           key == s.idempotency_key
<1>1. n \in JobIds /\ sequence \in Nat /\ MaxJobs \in Nat /\ sequence < MaxJobs
  BY ContractAssumption DEF IMSubmit, IndexAccurate, JobIds
<1>2. ~ Exists(n)
  BY <1>1 DEF IndexAccurate
<1>3. key # NoKey => key \in Keys /\ ~ KeyTaken(key)
  <2> SUFFICES ASSUME key # NoKey PROVE key \in Keys /\ ~ KeyTaken(key)
    OBVIOUS
  <2>1. key \in Keys
    BY DEF Keys
  <2>2. idempotency[key] = 0
    BY DEF IMSubmit
  <2>3. \A j \in JobIds : j # 0
    BY <1>1 DEF JobIds
  <2> QED
    BY <2>1, <2>2, <2>3 DEF IndexAccurate, KeyTaken
<1>4. submit_job(s, n, t)
  BY <1>2, <1>3 DEF IMSubmit, submit_job
<1>5. NewJob(s, t).request = s /\ NewJob(s, t).status = "queued"
  BY DEF NewJob, NoJobRecord
<1>6. /\ jobs'[n] = NewJob(s, t)
      /\ \A j \in JobIds \ {n} : jobs'[j] = jobs[j]
  BY <1>1 DEF IMSubmit, TypeOK
<1>7. /\ sequence' = n /\ sequence' \in 0 .. MaxJobs
  BY <1>1 DEF IMSubmit
<1>8. idempotency' \in [Keys -> 0 .. MaxJobs]
  BY <1>1, <1>3 DEF IMSubmit, IndexAccurate
<1>9. \A j \in JobIds : Exists(j)' <=> j <= sequence'
  BY <1>1, <1>5, <1>6, <1>7 DEF IndexAccurate, Exists, JobIds
<1>10. ASSUME NEW j \in JobIds, NEW k \in Keys
       PROVE  idempotency'[k] = j <=> (Exists(j)' /\ jobs'[j].request.idempotency_key = k)
  <2>1. k # NoKey
    BY DEF Keys
  <2>2. idempotency[k] = j <=> (Exists(j) /\ jobs[j].request.idempotency_key = k)
    BY DEF IndexAccurate
  <2>3. idempotency'[k] = IF k = key THEN n ELSE idempotency[k]
    BY <2>1 DEF IMSubmit, IndexAccurate
  <2>4. CASE j = n
    <3>1. Exists(j)' /\ jobs'[j].request.idempotency_key = key
      BY <1>5, <1>6, <2>4 DEF Exists
    <3>2. idempotency[k] # n
      BY <1>2, <2>2, <2>4
    <3> QED
      BY <2>3, <2>4, <3>1, <3>2
  <2>5. CASE j # n
    <3>1. jobs'[j] = jobs[j] /\ (Exists(j)' <=> Exists(j))
      BY <1>6, <2>5 DEF Exists
    <3>2. k = key => ~ (Exists(j) /\ jobs[j].request.idempotency_key = k)
      BY <1>3, <2>1 DEF KeyTaken
    <3> QED
      BY <2>2, <2>3, <2>5, <3>1, <3>2
  <2> QED
    BY <2>4, <2>5
<1> QED
  BY <1>1, <1>4, <1>7, <1>8, <1>9, <1>10 DEF IndexAccurate

\* The empty index is accurate.
LEMMA IMInitIndex == IMInit => IndexAccurate
<1> SUFFICES ASSUME IMInit PROVE IndexAccurate
  OBVIOUS
<1>1. \A j \in JobIds : ~ Exists(j) /\ j > 0
  BY ContractAssumption DEF IMInit, Init, Exists, NoJobRecord, JobIds
<1> QED
  BY <1>1, ContractAssumption DEF IMInit, IndexAccurate, JobIds

\* Each step of the backend is a step of the contract and keeps the index.
LEMMA IMStep ==
    IInv /\ IndexAccurate /\ [IMNext]_imvars => [Next]_vars /\ IndexAccurate'
<1> SUFFICES ASSUME IInv, IndexAccurate, [IMNext]_imvars
             PROVE  [Next]_vars /\ IndexAccurate'
  OBVIOUS
<1>0. TypeOK
  BY DEF IInv
<1>1. CASE UNCHANGED imvars
  BY <1>1 DEF imvars, vars, IndexAccurate, Exists
<1>2. CASE Tick /\ UNCHANGED index
  <2>1. SameRequests
    BY <1>2 DEF Tick, SameRequests, Exists
  <2> QED
    BY <1>2, <2>1, IndexKept DEF Next
<1>3. ASSUME NEW j \in JobIds, cancel_job(j), UNCHANGED index
      PROVE  [Next]_vars /\ IndexAccurate'
  BY <1>0, <1>3, CancelRequests, IndexKept DEF Next
<1>4. ASSUME NEW t \in Timestamps,
             \/ \E w \in WorkerIds : WorkerCall(w, t) /\ UNCHANGED index
             \/ \E w \in WorkerIds : IMClaim(w, t) \/ IMRetire(w, t)
             \/ \E w \in WorkerIds, j \in JobIds, token \in 1 .. leases_issued :
                   LeaseCall(w, j, token, t) /\ UNCHANGED index
             \/ IMExpire(t)
             \/ IMRecover(t)
             \/ \E s \in Submissions : IMSubmit(s, t)
      PROVE  [Next]_vars /\ IndexAccurate'
  <2>1. t \in Nat
    BY <1>0 DEF Timestamps, TypeOK
  <2>2. ASSUME NEW w \in WorkerIds, WorkerCall(w, t), UNCHANGED index
        PROVE  [Next]_vars /\ IndexAccurate'
    BY <2>2, WorkerCallRequests, IndexKept DEF Next
  <2>3. ASSUME NEW w \in WorkerIds, IMClaim(w, t)
        PROVE  [Next]_vars /\ IndexAccurate'
    <3>1. PICK j \in JobIds : claim_next_job(j, w, t) /\ UNCHANGED index
      BY <2>3 DEF IMClaim
    <3> QED
      BY <1>0, <3>1, ClaimRequests, IndexKept DEF Next
  <2>4. ASSUME NEW w \in WorkerIds, IMRetire(w, t)
        PROVE  [Next]_vars /\ IndexAccurate'
    <3>1. retire_claimer(w) /\ UNCHANGED index /\ SameRequests
      BY <2>4 DEF IMRetire, retire_claimer, SameRequests, Exists
    <3> QED
      BY <3>1, IndexKept DEF Next
  <2>5. ASSUME NEW w \in WorkerIds, NEW j \in JobIds, NEW token \in 1 .. leases_issued,
               LeaseCall(w, j, token, t), UNCHANGED index
        PROVE  [Next]_vars /\ IndexAccurate'
    <3>1. token \in Nat
      BY <1>0 DEF TypeOK
    <3> QED
      BY <1>0, <2>1, <2>5, <3>1, LeaseCallRequests, IndexKept DEF Next
  <2>6. ASSUME IMExpire(t)
        PROVE  [Next]_vars /\ IndexAccurate'
    <3>1. PICK S \in SUBSET WorkerIds : expire_stale_workers(S, t) /\ UNCHANGED index
      BY <2>6 DEF IMExpire
    <3>2. SameRequests
      BY <3>1 DEF expire_stale_workers, SameRequests, Exists
    <3> QED
      BY <3>1, <3>2, IndexKept DEF Next
  <2>7. ASSUME IMRecover(t)
        PROVE  [Next]_vars /\ IndexAccurate'
    <3>1. PICK S \in SUBSET JobIds : recover_expired_jobs(S, t) /\ UNCHANGED index
      BY <2>7 DEF IMRecover
    <3> QED
      BY <1>0, <2>1, <3>1, RecoverRequests, IndexKept DEF Next
  <2>8. ASSUME NEW s \in Submissions, IMSubmit(s, t)
        PROVE  [Next]_vars /\ IndexAccurate'
    BY <1>0, <2>1, <2>8, SubmitIndex DEF Next
  <2> QED
    BY <1>4, <2>2, <2>3, <2>4, <2>5, <2>6, <2>7, <2>8
<1> QED
  BY <1>1, <1>2, <1>3, <1>4 DEF IMNext

\* The in-memory backend keeps the contract: with its index instead of a search
\* for the key, its queue order and its full sweeps, each call is one the
\* contract allows; so all that is proved of the contract holds of it.
THEOREM InMemoryImplementsContract == IMSpec => Contract
<1>1. IMInit => Init /\ IInv /\ IndexAccurate
  BY IMInitIndex, InitIInv DEF IMInit
<1> QED
  BY <1>1, IMStep, NextIInv, PTL DEF IMSpec, Spec, Contract

\* The sequence counter and the key index agree with the jobs.
THEOREM IndexAlwaysAccurate == IMSpec => []IndexAccurate
<1>1. IMInit => IInv /\ IndexAccurate
  BY IMInitIndex, InitIInv DEF IMInit
<1> QED
  BY <1>1, IMStep, NextIInv, PTL DEF IMSpec

-----------------------------------------------------------------------------
\* The step takes worker w OFFLINE, though it was live and nobody asked for it.
TakenOffline(w) ==
    /\ workers[w].state \in LiveStates /\ workers'[w].state = "offline"
    /\ "offline" \notin RequestedStates

\* A worker that is stale at a timestamp of this step is stale now.
LEMMA StaleNow ==
    ASSUME TypeOK, NEW w \in WorkerIds, NEW t \in Timestamps, Stale(workers[w], t)
    PROVE  Stale(workers[w], clock)
<1>1. t \in Nat /\ t <= clock /\ clock \in Nat
  BY DEF TypeOK, Timestamps
<1>2. workers[w].last_seen_at \in Nat /\ WorkerTtl \in Nat
  BY ContractAssumption DEF TypeOK, WorkerRecords
<1> QED
  BY <1>1, <1>2 DEF Stale

\* The calls a worker makes take nobody OFFLINE unasked.
LEMMA CallsKeepLive ==
    ASSUME TypeOK, NEW t, NEW v \in WorkerIds, NEW w \in WorkerIds,
           \/ WorkerCall(v, t)
           \/ \E j \in JobIds : claim_next_job(j, v, t)
           \/ \E j \in JobIds, token \in Nat : LeaseCall(v, j, token, t)
    PROVE  ~ TakenOffline(w)
<1> USE DEF LiveStates
<1>0. workers \in [WorkerIds -> WorkerRecords] /\ workers[w] \in WorkerRecords
  BY DEF TypeOK
<1>1. ASSUME NEW spec, NEW m, register_worker(v, spec, m, t) PROVE ~ TakenOffline(w)
  BY <1>0, <1>1 DEF register_worker, TakenOffline
<1>2. ASSUME NEW s \in RequestedStates, set_worker_state(v, s, t) PROVE ~ TakenOffline(w)
  BY <1>0, <1>2 DEF set_worker_state, TakenOffline, WorkerRecords
<1>3. ASSUME NEW s \in RequestedStates \cup {"unchanged"},
             workers' = [workers EXCEPT ![v] = HeartbeatRow(v, s, t)]
      PROVE  ~ TakenOffline(w)
  <2>1. HeartbeatRow(v, s, t).state = HeartbeatState(v, s)
    BY <1>0 DEF HeartbeatRow, WorkerRecords
  <2>2. workers'[w] = IF w = v THEN HeartbeatRow(v, s, t) ELSE workers[w]
    BY <1>0, <1>3
  <2> QED
    BY <1>0, <2>1, <2>2 DEF TakenOffline, HeartbeatState
<1>4. ASSUME NEW j \in JobIds, claim_next_job(j, v, t) PROVE ~ TakenOffline(w)
  BY <1>0, <1>4 DEF claim_next_job, TakenOffline, WorkerRecords
<1>5. ASSUME NEW j \in JobIds, NEW token, \/ complete_job(j, v, token, t)
                                          \/ \E r \in BOOLEAN : fail_job(j, v, token, r, t)
      PROVE  ~ TakenOffline(w)
  <2>1. release_worker_capacity({j})
    BY <1>5 DEF complete_job, fail_job
  <2> QED
    BY <2>1, ReleaseFacts DEF TakenOffline
<1>6. CASE WorkerCall(v, t)
  BY <1>1, <1>2, <1>3, <1>6 DEF WorkerCall, heartbeat_worker
<1>7. ASSUME NEW j \in JobIds, NEW token \in Nat, LeaseCall(v, j, token, t)
      PROVE  ~ TakenOffline(w)
  BY <1>3, <1>5, <1>7 DEF LeaseCall, heartbeat_lease
<1> QED
  BY <1>4, <1>6, <1>7

\* Whom a step of the backend takes OFFLINE unasked was silent for longer than the TTL:
\* the TTL sweep and the retirement of a caller read the clock before they take the lock,
\* and under the lock last_seen_at is compared with what was read.
LEMMA IMOffline ==
    ASSUME IInv, IMNext, NEW w \in WorkerIds, TakenOffline(w)
    PROVE  Stale(workers[w], clock)
<1> USE DEF LiveStates
<1>0. TypeOK /\ workers \in [WorkerIds -> WorkerRecords]
  BY DEF IInv, TypeOK
<1>1. CASE Tick
  BY <1>1 DEF Tick, TakenOffline
<1>2. ASSUME NEW j \in JobIds, cancel_job(j) PROVE FALSE
  <2>1. release_worker_capacity({j})
    BY <1>2 DEF cancel_job
  <2> QED
    BY <1>0, <2>1, ReleaseFacts DEF TakenOffline
<1>3. ASSUME NEW t \in Timestamps, NEW v \in WorkerIds, WorkerCall(v, t) \/ IMClaim(v, t)
      PROVE  FALSE
  BY <1>0, <1>3, CallsKeepLive DEF IMClaim
<1>4. ASSUME NEW t \in Timestamps, NEW v \in WorkerIds, IMRetire(v, t)
      PROVE  Stale(workers[w], clock)
  <2>1. w = v
    BY <1>0, <1>4 DEF IMRetire, retire_claimer, TakenOffline
  <2> QED
    BY <1>0, <1>4, <2>1, StaleNow DEF IMRetire
<1>5. ASSUME NEW t \in Timestamps, NEW v \in WorkerIds, NEW j \in JobIds,
             NEW token \in 1 .. leases_issued, LeaseCall(v, j, token, t)
      PROVE  FALSE
  <2>1. token \in Nat
    BY <1>0 DEF TypeOK
  <2> QED
    BY <1>0, <1>5, <2>1, CallsKeepLive
<1>6. ASSUME NEW t \in Timestamps, IMExpire(t) PROVE Stale(workers[w], clock)
  <2>1. PICK S \in SUBSET WorkerIds : expire_stale_workers(S, t)
    BY <1>6 DEF IMExpire
  <2>2. w \in S
    BY <2>1 DEF expire_stale_workers, TakenOffline
  <2>3. Stale(workers[w], t)
    BY <2>1, <2>2 DEF expire_stale_workers
  <2> QED
    BY <1>0, <2>3, StaleNow
<1>7. ASSUME NEW t \in Timestamps, IMRecover(t) PROVE FALSE
  <2>1. PICK S \in SUBSET JobIds : release_worker_capacity(S)
    BY <1>7 DEF IMRecover, recover_expired_jobs
  <2> QED
    BY <1>0, <2>1, ReleaseFacts DEF TakenOffline
<1>8. ASSUME NEW t \in Timestamps, NEW s \in Submissions, IMSubmit(s, t) PROVE FALSE
  BY <1>8 DEF IMSubmit, TakenOffline
<1> QED
  BY <1>1, <1>2, <1>3, <1>4, <1>5, <1>6, <1>7, <1>8 DEF IMNext

\* The in-memory backend takes a live worker OFFLINE only when it was asked to or the worker
\* was silent for longer than the TTL, however late a call is.
THEOREM InMemoryOfflineOnlyWhenStale == IMSpec => OfflineOnlyWhenStale
<1> DEFINE Due == \A w \in WorkerIds :
                     workers[w].state \in LiveStates /\ workers'[w].state = "offline"
                     => "offline" \in RequestedStates \/ Stale(workers[w], clock)
<1>1. IMInit => IInv /\ IndexAccurate
  BY IMInitIndex, InitIInv DEF IMInit
<1>2. IInv /\ [IMNext]_imvars => [Due]_vars
  BY IMOffline DEF TakenOffline, imvars, vars
<1> QED
  BY <1>1, <1>2, IMStep, NextIInv, PTL DEF IMSpec, OfflineOnlyWhenStale

\* Calls that arrive late are fenced off by the in-memory backend, as by the contract.
THEOREM InMemoryFencesLateCalls == IMSpec => JobsFenced
BY InMemoryImplementsContract, LateCallsFenced, PTL DEF Contract

=============================================================================
