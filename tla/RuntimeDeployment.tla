-------------------------- MODULE RuntimeDeployment --------------------------
(***************************************************************************)
(* The life of a runtime deployment: an operator's choice is evaluated by  *)
(* the planner (runtime/planner.py) and by the chosen provider, frozen in  *)
(* a JSON manifest (runtime/deployment.py), and read back whenever the     *)
(* Worker service starts, on facts that may no longer be the ones it was   *)
(* reviewed on.  Setup on systemd persists the reviewed setup intent; the  *)
(* NixOS module persists provider and demand only, and the Worker derives  *)
(* the intent again.                                                       *)
(***************************************************************************)
EXTENDS RuntimeProviders

CONSTANTS
    Facts,          \* what a Worker and its host may be
    Demands,        \* the ExecutionDemands of the operator
    Configs         \* provider |-> the configurations the operator may give it

VARIABLES
    facts,          \* the Worker and its host now
    manifest,       \* the manifest on disk, or None
    reviewed,       \* the facts and the command of the review, or None
    launched        \* what the last start of the Worker did, or None

vars == <<facts, manifest, reviewed, launched>>

-----------------------------------------------------------------------------
(* Contracts and planner *)

DemandValid(d) ==
    /\ d.preferred_host_ram_mb >= d.min_host_ram_mb
    /\ d.estimated_size_mb # None => d.estimated_size_mb > 0
    /\ CASE d.gpu_topology = "none" -> /\ d.min_gpu_count = 0
                                       /\ d.min_total_vram_mb = 0
                                       /\ d.min_single_gpu_vram_mb = 0
                                       /\ ~Vram(d)
         [] d.gpu_topology = "single_gpu" -> d.min_gpu_count \in {0, 1}
         [] d.gpu_topology = "multi_gpu" -> d.min_gpu_count >= 2

effective_min_gpu_count(d) ==
    CASE d.gpu_topology = "none" -> 0
      [] d.gpu_topology = "single_gpu" -> 1
      [] d.gpu_topology = "multi_gpu" -> d.min_gpu_count

generic_reasons(f, d) ==
       Blocks(CASE d.gpu_topology = "none" -> gpu_count(f) # 0
                [] d.gpu_topology = "single_gpu" -> gpu_count(f) # 1
                [] d.gpu_topology = "multi_gpu" -> gpu_count(f) < 2, "gpu-topology-mismatch")
  \cup Blocks(gpu_count(f) < effective_min_gpu_count(d), "insufficient-gpu-count")
  \cup Blocks(f.total_vram_mb < d.min_total_vram_mb, "insufficient-total-vram")
  \cup Blocks(f.max_single_gpu_vram_mb < d.min_single_gpu_vram_mb,
              "insufficient-single-gpu-vram")
  \cup Blocks(f.host_ram_mb < d.min_host_ram_mb, "insufficient-host-ram")
  \cup Advises(d.min_host_ram_mb <= f.host_ram_mb /\ f.host_ram_mb < d.preferred_host_ram_mb,
               "below-preferred-host-ram")

\* The provider's compatibility().
compatibility(provider, f, d, c) ==
    CASE provider = "ollama" -> OllamaReasons(f, d)
      [] provider = "llama-cpp" -> LlamaReasons(f, d, c)
      [] provider = "vllm" -> VllmReasons(f, d, c)
      [] provider = "freetoken" -> FreeTokenReasons(f, d, c)
      [] provider = "exllamav3" -> ExllamaReasons(f, d, c)

compatible(reasons) == \A r \in reasons : ~r.blocking

evaluate_provider(provider, f, d, c) ==
    generic_reasons(f, d) \cup compatibility(provider, f, d, c)

\* resolve_runtime for an explicit selection: that provider or nothing.
resolve_runtime(provider, f, d, c) ==
    IF compatible(evaluate_provider(provider, f, d, c)) THEN {provider} ELSE {}

-----------------------------------------------------------------------------
(* The manifest: records of JSON values, in which a tuple is an array *)

List(tuple) == IF tuple = None THEN None ELSE [array |-> tuple]
Tuple(json) == IF json = None THEN None ELSE json.array

TupleFields == {"gpu_uuids", "tensor_split", "fit_target_mb", "gpu_split",
                "autosplit_reserve_mb"}

\* _json_value of a configuration, and the constructor that reads it back.
json_value(r) == [k \in DOMAIN r |-> IF k \in TupleFields THEN List(r[k]) ELSE r[k]]
read_back(j) == [k \in DOMAIN j |-> IF k \in TupleFields THEN Tuple(j[k]) ELSE j[k]]

ConfigValid(provider, c) ==
    CASE provider = "ollama" -> TRUE
      [] provider = "llama-cpp" -> LlamaConfigValid(c)
      [] provider = "vllm" -> VllmConfigValid(c)
      [] provider = "freetoken" -> FreeTokenConfigValid(c)
      [] provider = "exllamav3" -> ExllamaConfigValid(c)

\* The launch policy that the provider derives from what it is told.
launch_policy(provider, f, d, c) ==
    CASE provider = "ollama" -> [sched_spread |-> Multi(d), options |-> c.options]
      [] provider = "llama-cpp" -> LlamaPolicy(f, d, c)
      [] provider = "vllm" -> VllmPolicy(f, d, c)
      [] provider = "freetoken" -> FreeTokenPolicy(f, d, c)
      [] provider = "exllamav3" -> ExllamaPolicy(f, d, c)

\* The configuration of the provider's setup_intent(): its policy and the GPUs of the
\* Worker, for ExLlamaV3 also the file that TabbyAPI is going to read.
setup_intent(provider, f, d, c) ==
    LET p == launch_policy(provider, f, d, c)
    IN [policy |-> json_value(p),
        gpu_uuids |-> List(f.gpu_uuids),
        tabby_config |-> IF provider = "exllamav3" THEN TabbyConfig(p) ELSE {}]

\* build_runtime_deployment_spec and to_dict.
deployment_spec(provider, d, c, intent) ==
    [provider_id |-> provider, provider_config |-> json_value(c), demand |-> d,
     setup_intent |-> intent]

-----------------------------------------------------------------------------
(* create_runtime: what is started, from the intent's configuration cfg *)

\* Mutant: a zero is taken for a setting that was not given.
Mut_LlamaFrozen(cfg) ==
    [gpu_layers |-> cfg.gpu_layers, split_mode |-> cfg.split_mode, fit |-> cfg.fit,
     tensor_split |-> Tuple(cfg.tensor_split), fit_target_mb |-> Tuple(cfg.fit_target_mb),
     main_gpu |-> cfg.main_gpu, cpu_moe |-> cfg.cpu_moe,
     n_cpu_moe |-> IF cfg.n_cpu_moe = "0" THEN None ELSE cfg.n_cpu_moe,
     n_cpu_ffn |-> cfg.n_cpu_ffn, options |-> cfg.options]

\* What is kept is compared with None, so that a zero survives.
LlamaFrozen(cfg) ==
    [gpu_layers |-> cfg.gpu_layers, split_mode |-> cfg.split_mode, fit |-> cfg.fit,
     tensor_split |-> Tuple(cfg.tensor_split), fit_target_mb |-> Tuple(cfg.fit_target_mb),
     main_gpu |-> cfg.main_gpu, cpu_moe |-> cfg.cpu_moe, n_cpu_moe |-> cfg.n_cpu_moe,
     n_cpu_ffn |-> cfg.n_cpu_ffn, options |-> cfg.options]

VllmFrozen(cfg) ==
    [tensor_parallel_size |-> cfg.tensor_parallel_size,
     enable_expert_parallel |-> cfg.enable_expert_parallel,
     gpu_memory_utilization |-> cfg.gpu_memory_utilization,
     cpu_offload_gb |-> cfg.cpu_offload_gb, options |-> cfg.options]

FreeTokenFrozen(f, cfg) ==
    [gpu_uuid |-> f.gpu_uuids[1], moe_strategy |-> cfg.moe_strategy,
     moe_cache_size |-> cfg.moe_cache_size, moe_cache_rate |-> cfg.moe_cache_rate,
     moe_hybrid_max_fetch |-> cfg.moe_hybrid_max_fetch, options |-> cfg.options]

\* The intent was written for other GPUs, and the provider minds.
WrongGpus(provider, f, intent) ==
    \/ provider = "exllamav3" /\ Tuple(intent.gpu_uuids) # f.gpu_uuids
    \/ provider = "freetoken" /\ intent.policy.gpu_uuid # f.gpu_uuids[1]

\* The runtime process that create_runtime would start for this intent.  TabbyAPI reads
\* its settings from the file that setup wrote, not from the intent.
Command(provider, f, intent, file) ==
    LET cfg == intent.policy
    IN CASE provider = "ollama" -> OllamaCommand(f.gpu_uuids, cfg)
         [] provider = "llama-cpp" -> LlamaCommand(f.gpu_uuids, LlamaFrozen(cfg))
         [] provider = "vllm" -> VllmCommand(f.gpu_uuids, VllmFrozen(cfg))
         [] provider = "freetoken" -> FreeTokenCommand(FreeTokenFrozen(f, cfg))
         [] provider = "exllamav3" -> file
                                        \cup {<<"CUDA_VISIBLE_DEVICES", f.gpu_uuids>>}

Refused == [ok |-> FALSE]

\* managed_runtime_from_deployment: the provider is built from the manifest and asked
\* again; the planner's generic rules are not.
managed_runtime_from_deployment(m, f) ==
    LET c == read_back(m.provider_config)
        intent == IF m.setup_intent # None THEN m.setup_intent
                  ELSE setup_intent(m.provider_id, f, m.demand, c)
        file == IF m.setup_intent # None THEN m.setup_intent.tabby_config ELSE {}
    IN IF \/ ~ConfigValid(m.provider_id, c)
          \/ ~compatible(compatibility(m.provider_id, f, m.demand, c))
          \/ WrongGpus(m.provider_id, f, intent)
       THEN Refused
       ELSE [ok |-> TRUE, command |-> Command(m.provider_id, f, intent, file)]

-----------------------------------------------------------------------------
\* WorkerSpec and ResourceShape (contracts.py): a Worker without GPUs has no VRAM.
ASSUME FactsAssumption ==
    \A f \in Facts : /\ f.gpu_uuids \in Seq(STRING) /\ [array |-> f.gpu_uuids] # None
                     /\ f.total_vram_mb \in Nat
                     /\ f.gpu_uuids = <<>> => f.total_vram_mb = 0

\* ExecutionDemand.__post_init__ has accepted the demand.
ASSUME DemandsAssumption ==
    \A d \in Demands : /\ DemandValid(d)
                       /\ d.gpu_topology \in {"none", "single_gpu", "multi_gpu"}
                       /\ d.estimated_size_mb = None \/ d.estimated_size_mb \in Nat

\* A configuration has passed its provider's constructor, and null is no array.
ASSUME ConfigsAssumption ==
    \A provider \in Providers : \A c \in Configs[provider] :
        /\ ConfigValid(provider, c)
        /\ c = [k \in DOMAIN c |-> c[k]]
        /\ \A k \in DOMAIN c \cap TupleFields : [array |-> c[k]] # None
        /\ provider = "llama-cpp" => /\ {"tensor_split", "fit_target_mb"} \subseteq DOMAIN c
                                     /\ c.cpu_moe \in BOOLEAN
                                     /\ c.fit = None \/ c.fit \in BOOLEAN
        /\ provider = "vllm" => /\ c.cpu_offload_gb \in Nat
                                /\ c.tensor_parallel_size = None \/ c.tensor_parallel_size \in Nat

Init ==
    /\ facts \in Facts
    /\ manifest = None
    /\ reviewed = None
    /\ launched = None

\* What a plan shows the operator: the launch policy in force, on the Worker's GPUs.
Shown(provider, f, d, c) ==
    LET p == launch_policy(provider, f, d, c)
    IN CASE provider = "ollama" -> OllamaCommand(f.gpu_uuids, p)
         [] provider = "llama-cpp" -> LlamaCommand(f.gpu_uuids, p)
         [] provider = "vllm" -> VllmCommand(f.gpu_uuids, p)
         [] provider = "freetoken" -> FreeTokenCommand(p)
         [] provider = "exllamav3" -> TabbyConfig(p)
                                        \cup {<<"CUDA_VISIBLE_DEVICES", f.gpu_uuids>>}

\* A reviewed setup plan is built and applied: with the intent (systemd) or without (NixOS).
Review(provider, c, d, persistIntent) ==
    /\ provider \in resolve_runtime(provider, facts, d, c)
    /\ manifest' = deployment_spec(provider, d, c,
                        IF persistIntent THEN setup_intent(provider, facts, d, c) ELSE None)
    /\ reviewed' = [facts |-> facts, command |-> Shown(provider, facts, d, c)]
    /\ UNCHANGED <<facts, launched>>

\* The Worker service starts (run_worker).
Start ==
    /\ manifest # None
    /\ launched = None
    /\ launched' = managed_runtime_from_deployment(manifest, facts)
    /\ UNCHANGED <<facts, manifest, reviewed>>

\* The Worker stops and comes back with another worker.toml or on another host.
Change ==
    /\ manifest # None
    /\ facts = reviewed.facts
    /\ facts' \in Facts
    /\ launched' = None
    /\ UNCHANGED <<manifest, reviewed>>

Next ==
    \/ /\ manifest = None
       /\ \E provider \in Providers, d \in Demands, i \in BOOLEAN :
             \E c \in Configs[provider] : Review(provider, c, d, i)
    \/ Start
    \/ Change

Spec == Init /\ [][Next]_vars

-----------------------------------------------------------------------------
Running == launched # None /\ launched.ok
Given(name) == {a[2] : a \in {b \in launched.command : b[1] = name}}

\* On unchanged facts the Worker starts, and starts exactly what the operator was shown,
\* whichever way the manifest took: through JSON arrays, nulls and zeros, and through an
\* intent that was persisted or derived anew.  (TabbyAPI's file is written by the systemd
\* setup only; on NixOS it is the operator's.)
LaunchedAsReviewed ==
    launched # None /\ facts = reviewed.facts =>
        /\ launched.ok
        /\ \/ launched.command = reviewed.command
           \/ manifest.provider_id = "exllamav3" /\ manifest.setup_intent = None

\* The lists of GPUs that the runtime is confined to, whichever way its provider says it.
\* Where there is none the process sees every GPU of the host.
Masks == Given("CUDA_VISIBLE_DEVICES") \cup Given("--device-ids")
            \cup {<<gpu>> : gpu \in Given("--gpu")}

\* Whatever happened to the Worker since the review, its runtime is shown exactly the GPUs
\* that it owns now; on a Worker that owns none it runs unconfined.
OwnGpusShown ==
    Running => Masks = IF facts.gpu_uuids = <<>> THEN {} ELSE {facts.gpu_uuids}

\* Under vram_only nothing is started that may keep weights outside the GPUs' memory, not
\* even on a Worker that has changed.  (vLLM leaves it to the generic rules, which are not
\* asked again, that there is a GPU at all.)
VramOnlyHonoured ==
    Running /\ Vram(manifest.demand) =>
        /\ facts.gpu_uuids # <<>> \/ manifest.provider_id = "vllm"
        /\ manifest.provider_id = "llama-cpp" =>
                /\ Given("--n-gpu-layers") = {"all"} /\ Given("--fit") = {FALSE}
                /\ Given("--cpu-moe") = {}
                /\ Given("--n-cpu-moe") \subseteq {"0"} /\ Given("--n-cpu-ffn") \subseteq {"0"}
        /\ Given("--cpu-offload-gb") = {}
        /\ Given("--moe-strategy") = {}

\* The tensor-parallel group that takes in all GPUs of a Worker; a size of one is not written.
GroupOf(f) == IF Len(f.gpu_uuids) > 1 THEN {Len(f.gpu_uuids)} ELSE {}

\* A split over the GPUs names each GPU of the Worker once, also after its GPUs changed.
\* vLLM's tensor-parallel group takes in all GPUs of the Worker that it was derived for:
\* as it is now when the manifest holds no intent, and as it was reviewed when it does,
\* even where GPUs were added or lost since.
SplitsCoverGpus ==
    Running =>
        /\ \A name \in {"--tensor-split", "gpu_split", "autosplit_reserve"} :
              \A split \in Given(name) : Len(split) \in {0, Len(facts.gpu_uuids)}
        /\ manifest.provider_id = "vllm" /\ Multi(manifest.demand) =>
              Given("--tensor-parallel-size") =
                 GroupOf(IF manifest.setup_intent = None THEN facts ELSE reviewed.facts)

\* What is started, in terms of the Worker as it is now, although it was reviewed for the
\* Worker as it was then: the GPUs it is confined to, the residency that was demanded and
\* the splits.  The two places where it need not fit any more are part of the statement: a
\* Worker without GPUs leaves its runtime unconfined, and a persisted intent keeps the size
\* of vLLM's group.
FitsWorkerNow == OwnGpusShown /\ VramOnlyHonoured /\ SplitsCoverGpus
=============================================================================
