------------------------- MODULE InMemoryRepository -------------------------
(***************************************************************************)
(* InMemoryControlRepository (control/repository.py), the reference        *)
(* backend.  Every method runs under one RLock, so a call is one step; the *)
(* timestamp is read before the lock is taken.  It narrows the contract:   *)
(* jobs are numbered in order, the best eligible job is claimed, a sweep   *)
(* takes everything that is due, and a key is looked up in an index kept   *)
(* beside the jobs.                                                        *)
(***************************************************************************)
EXTENDS ControlContract

VARIABLES
    sequence,    \* _sequence: jobs created so far
    idempotency  \* _idempotency: key -> job id, 0 where the key is free

index == <<sequence, idempotency>>
imvars == <<workers, jobs, leases_issued, clock, sequence, idempotency>>

Keys == {s.idempotency_key : s \in Submissions} \ {NoKey}

IMInit ==
    /\ Init
    /\ sequence = 0
    /\ idempotency = [k \in Keys |-> 0]

-----------------------------------------------------------------------------
\* Mutant: the index is not updated with the new job.
Mut_IMSubmit(s, t) ==
    /\ sequence < MaxJobs
    /\ s.idempotency_key # NoKey => idempotency[s.idempotency_key] = 0
    /\ sequence' = sequence + 1
    /\ jobs' = [jobs EXCEPT ![sequence + 1] = NewJob(s, t)]
    /\ UNCHANGED <<workers, leases_issued, clock, idempotency>>

\* submit_job, when it creates a record.
IMSubmit(s, t) ==
    /\ sequence < MaxJobs
    /\ s.idempotency_key # NoKey => idempotency[s.idempotency_key] = 0
    /\ sequence' = sequence + 1
    /\ jobs' = [jobs EXCEPT ![sequence + 1] = NewJob(s, t)]
    /\ idempotency' = IF s.idempotency_key = NoKey THEN idempotency
                      ELSE [idempotency EXCEPT ![s.idempotency_key] = sequence + 1]
    /\ UNCHANGED <<workers, leases_issued, clock>>

\* The sort key (-priority, sequence): j goes before k.
Before(j, k) ==
    \/ jobs[j].request.priority > jobs[k].request.priority
    \/ jobs[j].request.priority = jobs[k].request.priority /\ j < k

\* claim_next_job, by a caller that is not stale.
IMClaim(w, t) ==
    \E j \in JobIds :
        /\ claim_next_job(j, w, t)
        /\ \A k \in JobIds \ {j} : eligible(k, w, t) => Before(j, k)
        /\ UNCHANGED index

\* Mutant: a draining or silent caller is retired, whatever its last_seen_at.
Mut_IMRetire(w, t) ==
    /\ Stale(workers[w], t) \/ workers[w].state # "online"
    /\ retire_claimer(w)
    /\ UNCHANGED index

\* claim_next_job, by a stale caller.
IMRetire(w, t) ==
    /\ Stale(workers[w], t)
    /\ retire_claimer(w)
    /\ UNCHANGED index

\* expire_stale_workers.
IMExpire(t) ==
    /\ expire_stale_workers(
           {w \in WorkerIds : workers[w].state \in LiveStates /\ Stale(workers[w], t)}, t)
    /\ UNCHANGED index

\* recover_expired_jobs.
IMRecover(t) ==
    /\ recover_expired_jobs({j \in JobIds : LeaseExpired(j, t)}, t)
    /\ UNCHANGED index

IMNext ==
    \/ \E t \in Timestamps :
          \/ \E w \in WorkerIds : WorkerCall(w, t) /\ UNCHANGED index
          \/ \E w \in WorkerIds : IMClaim(w, t) \/ IMRetire(w, t)
          \/ \E w \in WorkerIds, j \in JobIds, token \in 1 .. leases_issued :
                LeaseCall(w, j, token, t) /\ UNCHANGED index
          \/ IMExpire(t)
          \/ IMRecover(t)
          \/ \E s \in Submissions : IMSubmit(s, t)
    \/ \E j \in JobIds : cancel_job(j) /\ UNCHANGED index
    \/ Tick /\ UNCHANGED index

IMSpec == IMInit /\ [][IMNext]_imvars

-----------------------------------------------------------------------------
\* The index and the counter agree with the jobs: exactly the first sequence ids
\* exist, and a key leads to the one job that has it.
IndexAccurate ==
    /\ sequence \in 0 .. MaxJobs
    /\ idempotency \in [Keys -> 0 .. MaxJobs]
    /\ \A j \in JobIds : Exists(j) <=> j <= sequence
    /\ \A j \in JobIds, k \in Keys :
          idempotency[k] = j <=> Exists(j) /\ jobs[j].request.idempotency_key = k

\* The backend keeps the contract: each of its calls is a step the contract
\* allows (submit_job finds a key in the index exactly when a job has it).
Contract == Spec
=============================================================================
