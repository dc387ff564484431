------------------------------ MODULE MCInMemory ------------------------------
(***************************************************************************)
(* A small instance of InMemoryRepository for TLC: two workers that want   *)
(* the same GPU, a keyed job that needs a GPU and may be retried, and one  *)
(* with a higher priority that runs anywhere and only once.                *)
(***************************************************************************)
EXTENDS InMemoryRepository, TLC

CONSTANTS w1, w2   \* workers, interchangeable

Shape(gpus) ==
    [worker_class |-> "c", capabilities |-> {"chat"}, labels |-> {}, gpu_uuids |-> gpus,
     gpu_count |-> Cardinality(gpus), total_vram_mb |-> Cardinality(gpus),
     max_single_gpu_vram_mb |-> IF gpus = {} THEN 0 ELSE 1]

Job(priority, key, attempts, gpus, at) ==
    [capability |-> "chat", payload |-> "p", priority |-> priority,
     max_attempts |-> attempts, idempotency_key |-> key, available_at |-> at,
     requirements |->
        [worker_class |-> AnyClass, required_capabilities |-> {}, required_labels |-> {},
         required_gpu_uuids |-> {}, min_gpu_count |-> gpus,
         min_total_vram_mb |-> 0, min_single_gpu_vram_mb |-> 0]]

MCWorkers == {w1, w2}
WorkerSymmetry == Permutations(MCWorkers)
MCSpecs == {Shape({"g1"})}
MCSubmissions == {Job(0, "k1", 2, 1, Unset), Job(1, NoKey, 1, 0, Unset)}
UpToTwo == {1, 2}
=============================================================================
