------------------------------ MODULE SetupPlan ------------------------------
(***************************************************************************)
(* The setup planner (setup/planner.py) and the approval of a plan         *)
(* (setup/apply.py, setup/tui.py).  A plan is the sequence of its actions; *)
(* an action is named for its kind, and for the directory it makes where a *)
(* plan has several of the kind.  A wish is what the planner is given.     *)
(***************************************************************************)
EXTENDS Integers, Sequences

Preparations == {"reference_only", "download", "convert"}

Wish == [goal : {"activate", "release"},
         package : BOOLEAN,         \* the intent names a package
         gpu : BOOLEAN,             \* systemd deployment of a Worker with GPUs
         configuration : BOOLEAN,   \* the intent has a configuration
         tabby : BOOLEAN,           \* and that includes a TabbyAPI configuration
         preparation : Preparations,
         reconcile : BOOLEAN]       \* reconcile_existing_worker

Only(condition, actions) == IF condition THEN actions ELSE << >>

\* The action that makes the model available, by the intent's preparation policy.
ModelAction(w) ==
    CASE w.preparation = "reference_only" -> "verify_model_reference"
      [] w.preparation = "download" -> "download_model"
      [] w.preparation = "convert" -> "convert_model"

build_runtime_setup_plan(w) ==
    <<"config", "state", "cache">>
        \o Only(w.package, <<"ensure_package">>)
        \o Only(w.gpu, <<"ensure_nvidia_driver_bridge">>)
        \o Only(w.configuration, <<"render_config">>)
        \o <<ModelAction(w)>>
        \o Only(w.reconcile, <<"worker_stop", "reconcile_worker_execution">>)
        \o <<"preflight", "runtime_start", "health_check">>

build_runtime_release_plan == <<"runtime_stop", "runtime_release">>

PlanOf(w) ==
    IF w.goal = "activate" THEN build_runtime_setup_plan(w) ELSE build_runtime_release_plan

Directories == {"config", "state", "cache"}
Reversible == {"ensure_nvidia_driver_bridge", "render_config", "worker_stop",
               "reconcile_worker_execution", "runtime_start", "runtime_stop"}

HasAny(plan, actions) == \E i \in 1 .. Len(plan) : plan[i] \in actions

\* What the operator must allow before the plan may be applied.  Every plan here has
\* privileged actions: each provider's intent asks for privilege.
Permissions == {"privileged", "network", "confirmation", "download", "convert"}
Required(plan) ==
    {"privileged"}
        \cup (IF HasAny(plan, {"ensure_package", "download_model"}) THEN {"network"} ELSE {})
        \cup (IF HasAny(plan, {"download_model", "convert_model"})
              THEN {"confirmation"} ELSE {})
        \cup (IF HasAny(plan, {"download_model"}) THEN {"download"} ELSE {})
        \cup (IF HasAny(plan, {"convert_model"}) THEN {"convert"} ELSE {})

\* _validate_approval, for an approval of this very plan: its digest is the plan's.
Approved(plan, granted) == Required(plan) \subseteq granted
=============================================================================
