------------------------------ MODULE MCPostgres ------------------------------
(* Small instances of PostgresRepository for TLC. *)
EXTENDS PostgresRepository, TLC

CONSTANTS w1, w2, c1, c2   \* workers and connections, interchangeable

Shape(gpus) ==
    [worker_class |-> "c", capabilities |-> {"chat"}, labels |-> {}, gpu_uuids |-> gpus,
     gpu_count |-> Cardinality(gpus), total_vram_mb |-> Cardinality(gpus),
     max_single_gpu_vram_mb |-> IF gpus = {} THEN 0 ELSE 1]

Job(attempts, key, payload) ==
    [capability |-> "chat", payload |-> payload, priority |-> 0, max_attempts |-> attempts,
     idempotency_key |-> key, available_at |-> Unset,
     requirements |->
        [worker_class |-> AnyClass, required_capabilities |-> {}, required_labels |-> {},
         required_gpu_uuids |-> {}, min_gpu_count |-> 1,
         min_total_vram_mb |-> 0, min_single_gpu_vram_mb |-> 0]]

\* a and c have the same lock key, as a digest collision would give them.
Keys3 == [a |-> 1, b |-> 2, c |-> 1]

OneWorker == {w1}
TwoWorkers == {w1, w2}
TwoConnections == {c1, c2}
Symmetry == Permutations(TwoWorkers) \cup Permutations(TwoConnections)
OneAtATime == {1}
UpToTwo == {1, 2}
OneSpec == {Shape({"a"})}

\* Ownership: topologies that overlap, in a GPU and in a lock key.
PairSpecs == {Shape({"a", "b"}), Shape({"b", "c"})}
OwnershipOps == {"register", "set_state", "expire", "heartbeat", "claim"}
OnlyOnline == {"online"}
NoSubmissions == {}

\* Leases: a GPU job that may be retried, and workers that may give the GPU up.
GpuOrNot == {Shape({"a"}), Shape({})}
LeaseOps == {"register", "set_state", "submit", "claim", "renew", "complete", "recover"}
OnlyOffline == {"offline"}
RetriedJob == {Job(2, NoKey, "p")}

\* Queue: two different submissions under one key and one without.
QueueOps == {"register", "submit", "claim", "heartbeat", "fail", "cancel"}
KeyedAndFree == {Job(2, "k", "p"), Job(1, "k", "q"), Job(1, NoKey, "p")}

\* Retirement of a caller that is taken for stale.
RetireOps == {"register", "claim", "heartbeat"}

-----------------------------------------------------------------------------
(* Ownership and queue in one run: two instances that share no interesting  *)
(* interleaving and whose union would be far larger than their sum.  They   *)
(* start from different states and are told apart by the identity sequence: *)
(* where there is a queue, a submission that was rolled back has used up    *)
(* its first number.                                                        *)
AllSpecs == PairSpecs \cup OneSpec
AllOps == OwnershipOps \cup QueueOps
Queue == pg_sequence > 0

\* Only this worker is, or is about to be, registered.
Alone(w) ==
    /\ \A v \in WorkerIds \ {w} : ~Registered(v)
    /\ \A c \in Connections : tx[c].w \in {NoWorker, w}

\* Two workers enrol overlapping topologies and are swept as time passes, or one worker
\* claims and finishes jobs, at one instant; nobody knows of a job number 1.
Allowed(call) ==
    \/ /\ ~Queue
       /\ call.op \in OwnershipOps
       /\ call.op = "register" => call.arg.spec \in PairSpecs /\ call.arg.m = 1
    \/ /\ Queue
       /\ call.op \in QueueOps
       /\ call.op = "register" => call.arg.spec \in OneSpec
       /\ call.w # NoWorker => Alone(call.w)
       /\ call.j # 1

MCInit ==
    /\ Init
    /\ tx = [c \in Connections |-> Idle]
    /\ pg_sequence \in {0, 1}

MCNext ==
    \/ \E c \in Connections : \/ \E call \in Calls : Allowed(call) /\ Begin(c, call)
                              \/ Statement(c)
                              \/ Abort(c)
    \/ ~Queue /\ Tick /\ UNCHANGED <<tx, pg_sequence>>

MCSpec == MCInit /\ [][MCNext]_pgvars
=============================================================================
