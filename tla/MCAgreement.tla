----------------------------- MODULE MCAgreement -----------------------------
(***************************************************************************)
(* Three places where the program says the same thing twice, and where the *)
(* two must agree: the matcher and the claim query (Scheduling), the plan  *)
(* that was reviewed and the runtime that is started (RuntimeDeployment),  *)
(* and the schema and its ledger (ControlService).  They share no state;   *)
(* part says which of them a behaviour is about.                           *)
(***************************************************************************)
EXTENDS Scheduling, RuntimeDeployment, ControlService

CONSTANTS
    IntMax,     \* the largest PostgreSQL integer (2^31 - 1 in the program)
    Amounts     \* the numbers that occur as counts and sizes of a job

VARIABLES part, worker, requirements

allVars == <<part, worker, requirements, vars, serviceVars>>

-----------------------------------------------------------------------------
(* Every small valid worker and job. *)

Labels == SUBSET {<<"zone", "a">>, <<"zone", "b">>}
GpuSets == {{}, {"g1"}, {"g1", "g2"}}

Workers ==
    {w \in [worker_class : {"large"}, capabilities : {{}, {"chat"}}, labels : Labels,
            gpu_uuids : GpuSets, gpu_count : 0 .. 2, total_vram_mb : 0 .. 2,
            max_single_gpu_vram_mb : 0 .. 2] : WorkerSpecValid(w)}

Requirements ==
    {r \in [worker_class : {AnyClass, "large", "small"},
            required_capabilities : {{}, {"chat"}}, required_labels : Labels,
            required_gpu_uuids : {{}, {"g2"}}, min_gpu_count : Amounts,
            min_total_vram_mb : Amounts, min_single_gpu_vram_mb : Amounts] :
        RequirementsValid(r)}

\* No restriction at all: the default JobRequirements().
Unrestricted ==
    [worker_class |-> AnyClass, required_capabilities |-> {}, required_labels |-> {},
     required_gpu_uuids |-> {}, min_gpu_count |-> 0, min_total_vram_mb |-> 0,
     min_single_gpu_vram_mb |-> 0]

-----------------------------------------------------------------------------
(* Every kind of Worker the providers tell apart, every valid demand over three sizes, *)
(* and every configuration that differs from the default in at most two settings.      *)

Device(mb, capability, class) ==
    [memory_mb |-> mb, compute_capability |-> capability, device_class |-> class]

Worker(gpus, devices, total, largest, label) ==
    [gpu_uuids |-> gpus, accelerators |-> devices, total_vram_mb |-> total,
     max_single_gpu_vram_mb |-> largest, compute_capability_label |-> label,
     host_ram_mb |-> 32768, architecture |-> "x86_64"]

Small == Device(8192, 8, "rtx")

MCFacts ==
    {Worker(<<>>, <<>>, 0, 0, None),
     Worker(<<"g1">>, <<Small>>, 8192, 8192, None),
     Worker(<<"g2">>, <<>>, 24576, 24576, 0),
     [Worker(<<"g1">>, <<>>, 8192, 8192, 8) EXCEPT !.host_ram_mb = 4096],
     [Worker(<<"g1">>, <<Small>>, 8192, 8192, None) EXCEPT !.architecture = "aarch64"],
     Worker(<<"g1", "g2">>, <<Small, Small>>, 16384, 8192, None),
     Worker(<<"g1", "g2">>, <<Small, Device(24576, 7, None)>>, 32768, 24576, 8),
     Worker(<<"g1", "g2">>, <<>>, 16384, 8192, None),
     Worker(<<"g1", "g2", "g3">>, <<Small, Small, Small>>, 24576, 8192, None)}

MCDemands ==
    {d \in [model_format : {"gguf", "hf", "exl3", "ollama", "ftw"}, local : BOOLEAN,
            topology : {"dense", "moe"}, estimated_size_mb : {None, 6000, 20000},
            residency_policy : {"vram_only", "prefer_vram", "cpu_gpu_hybrid"},
            gpu_topology : {"none", "single_gpu", "multi_gpu"}, min_gpu_count : {0, 2},
            min_total_vram_mb : {0, 16000}, min_single_gpu_vram_mb : {0},
            min_host_ram_mb : {0, 8000}, preferred_host_ram_mb : {8000}] :
        /\ DemandValid(d)
        /\ d.local <=> d.model_format \in {"gguf", "exl3"} \/ d.min_total_vram_mb > 0
        /\ d.min_total_vram_mb > 0 <=> d.min_host_ram_mb > 0
        /\ d.min_host_ram_mb > 0 => d.estimated_size_mb = 20000 /\ d.topology = "moe"
        /\ d.model_format = "ftw" => d.estimated_size_mb = None}

\* The configurations that take another of the choices in at most two settings.
Near(default, choices) ==
    UNION {{[default EXCEPT ![p[1]] = v, ![p[2]] = w] :
               v \in choices[p[1]], w \in choices[p[2]]} :
            p \in (DOMAIN choices) \X (DOMAIN choices)}

Llama == [gpu_layers |-> None, split_mode |-> None, tensor_split |-> None, main_gpu |-> 0,
          fit |-> None, fit_target_mb |-> None, cpu_moe |-> FALSE, n_cpu_moe |-> None,
          n_cpu_ffn |-> None, options |-> "llama"]
Vllm == [tensor_parallel_size |-> None, enable_expert_parallel |-> None,
         gpu_memory_utilization |-> 92, cpu_offload_gb |-> 0, options |-> "vllm"]
FreeToken == [moe_strategy |-> "auto", moe_cache_size |-> None, moe_cache_rate |-> None,
              moe_hybrid_max_fetch |-> None, options |-> "freetoken"]
Exllama == [multi_gpu_mode |-> "autosplit", gpu_split |-> None, autosplit_reserve_mb |-> None,
            options |-> "exllamav3"]

MCConfigs ==
    [provider \in Providers |->
       {c \in
          CASE provider = "ollama" -> {[options |-> "ollama"]}
            [] provider = "llama-cpp" ->
                 Near(Llama, [gpu_layers |-> {None, "all", "20"}, split_mode |-> {None, "none", "row"},
                              tensor_split |-> {None, <<1, 1>>}, main_gpu |-> {0, 1},
                              fit |-> {None, TRUE, FALSE}, fit_target_mb |-> {None, <<1, 2>>},
                              cpu_moe |-> BOOLEAN, n_cpu_moe |-> {None, "0", "4"},
                              n_cpu_ffn |-> {None, "0"}])
            [] provider = "vllm" ->
                 Near(Vllm, [tensor_parallel_size |-> {None, 2},
                             enable_expert_parallel |-> {None, TRUE, FALSE},
                             gpu_memory_utilization |-> {92, 50}, cpu_offload_gb |-> {0, 4}])
            [] provider = "freetoken" ->
                 Near(FreeToken, [moe_strategy |-> {"auto", "cpu"},
                                  moe_cache_size |-> {None, "8"},
                                  moe_cache_rate |-> {None, "0.5"},
                                  moe_hybrid_max_fetch |-> {None, "0"}])
            [] provider = "exllamav3" ->
                 Near(Exllama, [multi_gpu_mode |-> {"autosplit", "tensor_parallel"},
                                gpu_split |-> {None, <<8, 8>>},
                                autosplit_reserve_mb |-> {None, <<96>>, <<96, 96>>}]) :
        ConfigValid(provider, c)}]

-----------------------------------------------------------------------------
MCInit ==
    /\ part \in {"matching", "deployment", "service"}
    /\ IF part = "matching" THEN worker \in Workers
                            ELSE worker = CHOOSE w \in Workers : TRUE
    /\ requirements = Unrestricted
    /\ Init /\ (part # "deployment" => facts = CHOOSE f \in Facts : TRUE)
    /\ ServiceInit /\ (part # "service" => schema = {} /\ ~migrate_on_start)

\* A job's requirements are given, and the next job is looked at.
Submit == requirements = Unrestricted /\ requirements' \in Requirements
Settle == requirements' = Unrestricted

MCNext ==
    \/ /\ part = "matching" /\ (Submit \/ Settle)
       /\ UNCHANGED <<part, worker, vars, serviceVars>>
    \/ /\ part = "deployment" /\ Next
       /\ UNCHANGED <<part, worker, requirements, serviceVars>>
    \/ /\ part = "service" /\ ServiceNext
       /\ UNCHANGED <<part, worker, requirements, vars>>

\* systemd starts the service again after a failure, with its ExecStartPre, and the
\* maintenance interval passes.  Nobody is obliged to migrate by hand, and nothing is
\* asked of a behaviour of the other two parts.
ServiceFairness ==
    /\ WF_serviceVars(part = "service" /\ migrate_on_start /\ Migrate("this"))
    /\ WF_serviceVars(part = "service" /\ ServiceStarts)
    /\ WF_serviceVars(/\ part = "service"
                      /\ Wakes \/ expire_stale_workers \/ recover_expired_jobs)

MCSpec == MCInit /\ [][MCNext]_allVars /\ ServiceFairness

\* docs/control-plane.md: "The durable PostgreSQL claim query implements the same
\* semantics as the pure matcher".  It does where every minimum fits a PostgreSQL integer;
\* where one does not the query raises (CastOverflows), and the run keeps within the range.
QueryAgreesWithMatcher ==
    ClaimQuery(worker, requirements, IntMax) =
        IF worker_matches(worker, requirements) THEN "match" ELSE "no_match"
=============================================================================
