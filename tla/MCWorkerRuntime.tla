--------------------------- MODULE MCWorkerRuntime ---------------------------
(* One worker process with a GPU of its own, one job, and a second worker that
   can take the job when an attempt of the first one was recovered. *)
EXTENDS WorkerRuntime

CONSTANTS w1, w2

TwoWorkers == {w1, w2}
OneAtATime == {1}
GpuSpec(gpu) ==
    [worker_class |-> "c", capabilities |-> {"chat"}, labels |-> {}, gpu_uuids |-> {gpu},
     gpu_count |-> 1, total_vram_mb |-> 1, max_single_gpu_vram_mb |-> 1]
Spec1 == GpuSpec("g1")
Spec2 == GpuSpec("g2")
Specs12 == {Spec1, Spec2}
JobAttempted(n) ==
    {[capability |-> "chat", payload |-> "p", priority |-> 0, max_attempts |-> n,
      idempotency_key |-> NoKey, available_at |-> Unset,
      requirements |->
        [worker_class |-> AnyClass, required_capabilities |-> {}, required_labels |-> {},
         required_gpu_uuids |-> {}, min_gpu_count |-> 1,
         min_total_vram_mb |-> 0, min_single_gpu_vram_mb |-> 0]]}
OnceJob == JobAttempted(1)
RetriedJob == JobAttempted(2)
NoStates == {}
Resumes == {"online"}
OneWorker == {w1}
=============================================================================
