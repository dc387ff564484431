-------------------------- MODULE RuntimeProviders --------------------------
(***************************************************************************)
(* What each of the five runtime providers (runtime/providers/*.py) makes  *)
(* of an operator's wish: the launch policy it derives, the reasons it     *)
(* gives against it, and the command it would start.                       *)
(*                                                                         *)
(*   facts   what is known of the Worker and its host: gpu_uuids (in the   *)
(*           order of the Worker), accelerators (<<>> when not declared),  *)
(*           total_vram_mb, max_single_gpu_vram_mb, the label              *)
(*           gpu.compute_capability.min, host_ram_mb and architecture      *)
(*   demand  an ExecutionDemand with its ModelDemand; local says that the  *)
(*           model reference is a path                                     *)
(*   config  the provider's own configuration                              *)
(*                                                                         *)
(* A setting that the program only hands on is a name, also where it is a  *)
(* number ("0", "4"); everything a launch takes over unread (addresses,    *)
(* executables, names, context size, flags without a rule) is the one      *)
(* setting options.  A compute capability is its major number, 0 stands    *)
(* for a text that is none, and gpu_memory_utilization is in per cent.     *)
(***************************************************************************)
EXTENDS Integers, Sequences, FiniteSets

CONSTANT None      \* Python's None, JSON's null

Providers == {"ollama", "llama-cpp", "vllm", "freetoken", "exllamav3"}

gpu_count(facts) == Len(facts.gpu_uuids)

\* A CompatibilityReason that is given when the condition holds.
Blocks(condition, code) == IF condition THEN {[code |-> code, blocking |-> TRUE]} ELSE {}
Advises(condition, code) == IF condition THEN {[code |-> code, blocking |-> FALSE]} ELSE {}

Vram(demand) == demand.residency_policy = "vram_only"
Hybrid(demand) == demand.residency_policy = "cpu_gpu_hybrid"
Multi(demand) == demand.gpu_topology = "multi_gpu"
Single(demand) == demand.gpu_topology = "single_gpu"
Larger(demand, mb) == demand.estimated_size_mb # None /\ demand.estimated_size_mb > mb

\* A flag of a command line, given when the condition holds.
Flag(condition, name, value) == IF condition THEN {<<name, value>>} ELSE {}

-----------------------------------------------------------------------------
(* llama.cpp *)

LlamaConfigValid(c) ==
    /\ c.gpu_layers \in {None, "auto", "all", "0", "20"}
    /\ c.split_mode \in {None, "none", "layer", "row", "tensor"}
    /\ c.tensor_split # None => c.tensor_split # <<>> /\ \A i \in 1 .. Len(c.tensor_split) :
                                                            c.tensor_split[i] > 0
    /\ c.fit_target_mb # None => c.fit_target_mb # <<>>
    /\ c.main_gpu >= 0

LlamaPolicy(facts, demand, c) ==
    LET cpuOnly == gpu_count(facts) = 0
    IN [gpu_layers |-> IF cpuOnly THEN "0"
                       ELSE IF c.gpu_layers # None THEN c.gpu_layers
                       ELSE IF Vram(demand) THEN "all" ELSE "auto",
        split_mode |-> IF cpuOnly THEN "none"
                       ELSE IF c.split_mode # None THEN c.split_mode
                       ELSE IF Multi(demand) THEN "layer" ELSE "none",
        fit |-> ~cpuOnly /\ IF c.fit # None THEN c.fit ELSE ~Vram(demand),
        tensor_split |-> c.tensor_split, fit_target_mb |-> c.fit_target_mb,
        main_gpu |-> c.main_gpu, cpu_moe |-> c.cpu_moe,
        n_cpu_moe |-> c.n_cpu_moe, n_cpu_ffn |-> c.n_cpu_ffn, options |-> c.options]

\* compatibility: the rules of vram_only.
LlamaVramReasons(facts, demand, p) ==
    IF ~Vram(demand) THEN {} ELSE
       Blocks(demand.estimated_size_mb = None, "model-size-required-for-vram-only")
  \cup Blocks(Single(demand) /\ Larger(demand, facts.max_single_gpu_vram_mb),
              "model-exceeds-single-gpu-vram")
  \cup Blocks(~Single(demand) /\ Larger(demand, facts.total_vram_mb),
              "model-exceeds-total-vram")
  \cup Blocks(p.gpu_layers # "all" \/ p.fit, "vram-only-policy-overridden")
  \cup Blocks(p.cpu_moe \/ p.n_cpu_moe \notin {None, "0"} \/ p.n_cpu_ffn \notin {None, "0"},
              "cpu-offload-conflicts-with-vram-only")

\* compatibility: the rules of the GPUs and of the split over them.
LlamaSplitReasons(facts, demand, p) ==
       Blocks(~Multi(demand) /\ p.tensor_split # None, "tensor-split-requires-multi-gpu")
  \cup Blocks(/\ gpu_count(facts) > 0
              /\ p.split_mode \in {"none", "row"}
              /\ p.main_gpu >= gpu_count(facts), "main-gpu-outside-visible-set")
  \cup Blocks(Single(demand) /\ p.split_mode # "none", "single-gpu-split-mode-invalid")
  \cup IF ~Multi(demand) THEN {} ELSE
            Blocks(p.split_mode = "none", "multi-gpu-split-mode-invalid")
       \cup Blocks(p.tensor_split # None /\ Len(p.tensor_split) # gpu_count(facts),
                   "tensor-split-length-mismatch")
       \cup Blocks(p.fit_target_mb # None /\ Len(p.fit_target_mb) \notin {1, gpu_count(facts)},
                   "fit-target-length-mismatch")
       \cup Advises(p.split_mode = "tensor", "tensor-split-experimental")
       \cup Advises(p.split_mode # "tensor" /\ p.tensor_split = None, "heterogeneous-auto-fit")

\* compatibility: the rules of CPU offload, by kind of model and residency.
LlamaOffloadReasons(facts, demand, p, c) ==
       Blocks(demand.gpu_topology = "none" /\ c.tensor_split # None,
              "cpu-only-tensor-split-invalid")
  \cup Blocks(demand.topology = "dense" /\ (p.cpu_moe \/ p.n_cpu_moe \notin {None, "0"}),
              "moe-offload-on-dense-model")
  \cup Blocks(demand.topology = "moe" /\ p.n_cpu_ffn \notin {None, "0"},
              "dense-ffn-offload-on-moe-model")
  \cup Blocks(Hybrid(demand) /\ Larger(demand, facts.total_vram_mb + facts.host_ram_mb),
              "model-exceeds-combined-memory")
  \cup Advises(/\ Hybrid(demand) /\ c.gpu_layers = None /\ ~p.cpu_moe
               /\ p.n_cpu_moe = None /\ p.n_cpu_ffn = None, "hybrid-offload-auto")

LlamaReasons(facts, demand, c) ==
    LET p == LlamaPolicy(facts, demand, c)
    IN      Blocks(demand.model_format # "gguf", "model-format-unsupported")
       \cup LlamaVramReasons(facts, demand, p)
       \cup LlamaSplitReasons(facts, demand, p)
       \cup LlamaOffloadReasons(facts, demand, p, c)

\* command and the environment of start: split and fit target only with GPUs.
LlamaCommand(gpus, p) ==
       {<<"--n-gpu-layers", p.gpu_layers>>, <<"--fit", p.fit>>, <<"options", p.options>>}
  \cup Flag(gpus # <<>>, "CUDA_VISIBLE_DEVICES", gpus)
  \cup Flag(gpus # <<>>, "--split-mode", p.split_mode)
  \cup Flag(gpus # <<>> /\ p.split_mode \in {"none", "row"}, "--main-gpu", p.main_gpu)
  \cup Flag(gpus # <<>> /\ p.tensor_split # None, "--tensor-split", p.tensor_split)
  \cup Flag(gpus # <<>> /\ p.fit_target_mb # None, "--fit-target", p.fit_target_mb)
  \cup Flag(p.cpu_moe, "--cpu-moe", TRUE)
  \cup Flag(p.n_cpu_moe # None, "--n-cpu-moe", p.n_cpu_moe)
  \cup Flag(p.n_cpu_ffn # None, "--n-cpu-ffn", p.n_cpu_ffn)

-----------------------------------------------------------------------------
(* vLLM *)

VllmConfigValid(c) ==
    /\ c.gpu_memory_utilization \in 1 .. 100
    /\ c.tensor_parallel_size # None => c.tensor_parallel_size > 0
    /\ c.cpu_offload_gb >= 0

VllmPolicy(facts, demand, c) ==
    [tensor_parallel_size |-> IF c.tensor_parallel_size # None THEN c.tensor_parallel_size
                              ELSE IF Multi(demand) THEN gpu_count(facts) ELSE 1,
     enable_expert_parallel |-> IF c.enable_expert_parallel # None
                                THEN c.enable_expert_parallel
                                ELSE demand.topology = "moe" /\ Multi(demand),
     gpu_memory_utilization |-> c.gpu_memory_utilization,
     cpu_offload_gb |-> c.cpu_offload_gb,
     options |-> c.options]

\* compatibility: several GPUs must be alike, and known to be.
VllmHomogeneous(facts) ==
    LET of(key) == {facts.accelerators[i][key] : i \in 1 .. Len(facts.accelerators)}
    IN IF Len(facts.accelerators) # gpu_count(facts)
       THEN Blocks(TRUE, "accelerator-facts-required")
       ELSE      Blocks(Cardinality(of("memory_mb")) # 1, "heterogeneous-vram-unsupported")
            \cup Blocks(None \in of("compute_capability")
                        \/ Cardinality(of("compute_capability")) # 1,
                        "heterogeneous-compute-capability-unsupported")
            \cup Blocks(None \in of("device_class") \/ Cardinality(of("device_class")) # 1,
                        "heterogeneous-device-class-unsupported")

\* Mutant: a group that was configured is not compared with the GPUs of the Worker.
Mut_VllmParallelReasons(facts, demand, p) ==
       Blocks(demand.gpu_topology = "none", "gpu-required")
  \cup Blocks(Single(demand) /\ p.tensor_parallel_size # 1, "tensor-parallel-size-mismatch")
  \cup (IF Multi(demand) THEN VllmHomogeneous(facts) ELSE {})
  \cup Blocks(p.enable_expert_parallel /\ demand.topology # "moe",
              "expert-parallel-requires-moe")
  \cup Blocks(p.enable_expert_parallel /\ gpu_count(facts) < 2,
              "expert-parallel-requires-multi-gpu")
  \cup Advises(p.enable_expert_parallel /\ demand.topology = "moe" /\ Multi(demand),
               "expert-parallel-enabled")

\* compatibility: parallelism.
VllmParallelReasons(facts, demand, p) ==
       Blocks(demand.gpu_topology = "none", "gpu-required")
  \cup Blocks(\/ Single(demand) /\ p.tensor_parallel_size # 1
              \/ Multi(demand) /\ p.tensor_parallel_size # gpu_count(facts),
              "tensor-parallel-size-mismatch")
  \cup (IF Multi(demand) THEN VllmHomogeneous(facts) ELSE {})
  \cup Blocks(p.enable_expert_parallel /\ demand.topology # "moe",
              "expert-parallel-requires-moe")
  \cup Blocks(p.enable_expert_parallel /\ gpu_count(facts) < 2,
              "expert-parallel-requires-multi-gpu")
  \cup Advises(p.enable_expert_parallel /\ demand.topology = "moe" /\ Multi(demand),
               "expert-parallel-enabled")

\* compatibility: memory, with the part that is offloaded to the CPU.
VllmMemoryReasons(facts, demand, p) ==
    LET devices == IF gpu_count(facts) = 0 THEN 1 ELSE gpu_count(facts)
        offload == p.cpu_offload_gb * 1024 * devices
        budget == (facts.total_vram_mb * p.gpu_memory_utilization) \div 100
    IN      Blocks(p.cpu_offload_gb > 0 /\ offload > facts.host_ram_mb,
                   "cpu-offload-exceeds-host-ram")
       \cup Blocks(Vram(demand) /\ p.cpu_offload_gb > 0,
                   "cpu-offload-conflicts-with-vram-only")
       \cup Blocks(Vram(demand) /\ demand.estimated_size_mb = None,
                   "model-size-required-for-vram-only")
       \cup Blocks(Hybrid(demand) /\ p.cpu_offload_gb <= 0, "cpu-offload-not-configured")
       \cup Advises(Hybrid(demand) /\ p.cpu_offload_gb > 0,
                    "cpu-offload-interconnect-sensitive")
       \cup Blocks(gpu_count(facts) > 0 /\ Larger(demand, budget + offload),
                   "model-exceeds-effective-memory-budget")

VllmReasons(facts, demand, c) ==
    LET p == VllmPolicy(facts, demand, c)
    IN      Blocks(demand.model_format \notin {"hf", "huggingface", "safetensors", "vllm"},
                   "model-format-unsupported")
       \cup VllmParallelReasons(facts, demand, p)
       \cup VllmMemoryReasons(facts, demand, p)

VllmCommand(gpus, p) ==
       {<<"--gpu-memory-utilization", p.gpu_memory_utilization>>, <<"options", p.options>>}
  \cup Flag(gpus # <<>>, "--device-ids", gpus)
  \cup Flag(p.tensor_parallel_size > 1, "--tensor-parallel-size", p.tensor_parallel_size)
  \cup Flag(p.enable_expert_parallel, "--enable-expert-parallel", TRUE)
  \cup Flag(p.cpu_offload_gb > 0, "--cpu-offload-gb", p.cpu_offload_gb)

-----------------------------------------------------------------------------
(* ExLlamaV3, served by TabbyAPI *)

ExllamaConfigValid(c) ==
    /\ c.multi_gpu_mode \in {"autosplit", "tensor_parallel"}
    /\ c.gpu_split # None => c.gpu_split # <<>> /\ \A i \in 1 .. Len(c.gpu_split) :
                                                      c.gpu_split[i] > 0
    /\ c.autosplit_reserve_mb # None => c.autosplit_reserve_mb # <<>>

ExllamaPolicy(facts, demand, c) ==
    [multi_gpu_mode |-> c.multi_gpu_mode,
     tensor_parallel |-> Multi(demand) /\ c.multi_gpu_mode = "tensor_parallel",
     gpu_split_auto |-> Multi(demand) /\ c.gpu_split = None,
     gpu_split |-> c.gpu_split,
     autosplit_reserve_mb |-> c.autosplit_reserve_mb,
     options |-> c.options]

\* compatibility: the smallest compute capability, from the devices when all of
\* them are known and from the Worker's label otherwise.
ExllamaCapability(facts) ==
    LET known == {facts.accelerators[i].compute_capability : i \in 1 .. Len(facts.accelerators)}
    IN IF facts.accelerators # <<>> /\ None \notin known
       THEN CHOOSE k \in known : \A m \in known : k <= m
       ELSE facts.compute_capability_label

\* compatibility: the GPUs and the split over them.
ExllamaGpuReasons(facts, demand, p) ==
    LET capability == ExllamaCapability(facts)
    IN      Advises(capability = None, "compute-capability-unverified")
       \cup Blocks(capability = 0, "compute-capability-invalid")
       \cup Blocks(capability # None /\ capability \in 1 .. 7, "compute-capability-unsupported")
       \cup Blocks(demand.gpu_topology = "none" \/ gpu_count(facts) = 0, "gpu-required")
       \cup Blocks(Single(demand) /\ gpu_count(facts) # 1, "single-gpu-required")
       \cup Blocks(Single(demand) /\ p.gpu_split # None, "gpu-split-requires-multi-gpu")
       \cup Blocks(p.autosplit_reserve_mb # None
                   /\ Len(p.autosplit_reserve_mb) # gpu_count(facts),
                   "autosplit-reserve-length-mismatch")
       \cup Blocks(Multi(demand) /\ gpu_count(facts) < 2, "multi-gpu-required")
       \cup Blocks(Multi(demand) /\ p.gpu_split # None /\ Len(p.gpu_split) # gpu_count(facts),
                   "gpu-split-length-mismatch")
       \cup Advises(Multi(demand) /\ p.tensor_parallel, "tensor-parallel-enabled")
       \cup Advises(Multi(demand) /\ ~p.tensor_parallel, "multi-gpu-autosplit-enabled")

ExllamaReasons(facts, demand, c) ==
       Blocks(facts.architecture # "x86_64", "architecture-unsupported")
  \cup Blocks(demand.model_format \notin {"exl3", "exllamav3"}, "model-format-unsupported")
  \cup ExllamaGpuReasons(facts, demand, ExllamaPolicy(facts, demand, c))
  \cup Blocks(Hybrid(demand), "cpu-gpu-hybrid-outside-provider-scope")
  \cup Blocks(Vram(demand) /\ demand.estimated_size_mb = None,
              "model-size-required-for-vram-only")
  \cup Blocks(Larger(demand, facts.total_vram_mb), "model-exceeds-total-vram")
  \cup Advises(Vram(demand) /\ ~Larger(demand, facts.total_vram_mb),
               "vram-overhead-not-proven-by-model-size")

\* _tabby_config: the file that the server reads its settings from.
TabbyConfig(p) ==
       {<<"tensor_parallel", p.tensor_parallel>>, <<"gpu_split_auto", p.gpu_split_auto>>,
        <<"gpu_split", IF p.gpu_split = None THEN <<>> ELSE p.gpu_split>>,
        <<"options", p.options>>}
  \cup Flag(p.autosplit_reserve_mb # None, "autosplit_reserve", p.autosplit_reserve_mb)

-----------------------------------------------------------------------------
(* FreeToken *)

FreeTokenConfigValid(c) ==
    /\ c.moe_strategy \in {"auto", "offload", "cpu", "hybrid"}
    /\ c.moe_cache_size = None \/ c.moe_cache_rate = None

FreeTokenPolicy(facts, demand, c) ==
    [gpu_uuid |-> IF gpu_count(facts) = 1 THEN facts.gpu_uuids[1] ELSE "",
     moe_strategy |-> c.moe_strategy,
     moe_cache_size |-> c.moe_cache_size, moe_cache_rate |-> c.moe_cache_rate,
     moe_hybrid_max_fetch |-> c.moe_hybrid_max_fetch, options |-> c.options]

FreeTokenReasons(facts, demand, c) ==
       Blocks(facts.architecture # "x86_64", "architecture-unsupported")
  \cup Blocks(demand.model_format \notin {"hf", "huggingface", "safetensors", "ftw"},
              "model-format-unsupported")
  \cup Blocks(demand.model_format = "ftw" /\ ~demand.local, "ftw-reference-must-be-local")
  \cup Blocks(demand.topology # "moe", "model-topology-outside-provider-scope")
  \cup Blocks(~Single(demand) \/ gpu_count(facts) # 1, "single-gpu-required")
  \cup Blocks(Vram(demand), "vram-only-unsupported")
  \cup Advises(Hybrid(demand), "cpu-gpu-hybrid-supported")
  \cup Advises(~Vram(demand) /\ ~Hybrid(demand), "prefer-vram-moe-cache")
  \cup Advises(TRUE, "host-ram-interconnect-sensitive")

FreeTokenCommand(p) ==
       {<<"--gpu", p.gpu_uuid>>, <<"--moe-strategy", p.moe_strategy>>, <<"options", p.options>>}
  \cup Flag(p.moe_cache_size # None, "--moe-cache-size", p.moe_cache_size)
  \cup Flag(p.moe_cache_rate # None, "--moe-cache-rate", p.moe_cache_rate)
  \cup Flag(p.moe_hybrid_max_fetch # None, "--moe-hybrid-max-fetch", p.moe_hybrid_max_fetch)

-----------------------------------------------------------------------------
(* Ollama *)

OllamaReasons(facts, demand) ==
       Blocks(demand.model_format # "ollama", "model-format-unsupported")
  \cup Advises(Hybrid(demand), "ollama-offload-automatic")
  \cup Blocks(Vram(demand) /\ demand.estimated_size_mb = None,
              "model-size-required-for-vram-only")
  \cup Blocks(Vram(demand) /\ Larger(demand, facts.total_vram_mb), "model-exceeds-total-vram")
  \cup Advises(Vram(demand) /\ demand.estimated_size_mb # None
               /\ ~Larger(demand, facts.total_vram_mb), "vram-residency-runtime-verified")
  \cup Advises(Multi(demand), "ollama-multi-gpu-spread")

\* The environment of `ollama serve`.
OllamaCommand(gpus, p) ==
       {<<"options", p.options>>}
  \cup Flag(gpus # <<>>, "CUDA_VISIBLE_DEVICES", gpus)
  \cup Flag(p.sched_spread, "OLLAMA_SCHED_SPREAD", TRUE)
=============================================================================
