----------------------------- MODULE SetupApply -----------------------------
(***************************************************************************)
(* apply_plan (setup/apply.py) driving SystemdSetupDriver                  *)
(* (setup/systemd.py) on a live host.  Every write of a file and every     *)
(* systemctl call is a step of its own: it succeeds, or it raises before   *)
(* or after it took effect, or the setup process is killed around it.      *)
(*                                                                         *)
(* Files are told apart by what they say: the Worker TOML and unit by      *)
(* their execution mode, where the unit "prior" is the runtime unit from   *)
(* before the driver bridge, and a rendered file by whether it is the      *)
(* reviewed one ("new").  systemd acts on the unit it has loaded, which is *)
(* the one in the file only after a reload.                                *)
(***************************************************************************)
EXTENDS Integers, SequencesExt, SetupPlan

CONSTANTS
    Wishes,     \* the plans an operator may review
    FactSets,   \* what the host may offer: sets of facts
    Trouble,    \* bound on failed steps, kills, Worker crashes and operator edits
    Applies     \* bound on applies

ASSUME SetupAssumption ==
    Wishes \subseteq Wish /\ Trouble \in Nat /\ Applies \in Nat \ {0}

Facts == {"installer", "verifier", "driver_library", "model_file", "gpu_set", "isolation"}
Modes == {"smoke", "runtime"}
Units == {"smoke", "prior", "runtime"}
Targets == {"manifest", "tabby"}
Contents == {"none", "old", "new", "edited"}
Bridges == {"no_directory", "none", "old", "new"}

VARIABLES
    toml, unit, loaded,   \* Worker TOML, unit file, and the unit systemd has loaded
    files, link, made,    \* rendered files, driver bridge, irreversible prerequisites
    svc, running, ready,  \* the Worker service, what its process was started with, /ready
    wish, facts,          \* the reviewed plan's inputs and what the host offers
    phase, at, step,      \* where apply_plan is: which action, and where in its handler
    items, previous,      \* locals of the handler: files written, the host it began on
    fresh,                \* write_text: the file still has the identity it had
    receipts,             \* applied: the receipts of reversible actions that changed something
    restart_safe,         \* _worker_restart_safe
    reported,             \* the actions whose result is ROLLBACK_FAILED
    trouble, applies,     \* counters of the bounds
    before,               \* history: the host when this apply began
    spoiled,              \* history: what the action that raised had changed and left so
    disturbed,            \* history: others acted on the host
    edits                 \* history: rendered files edited where the restoring could notice

authority == <<toml, unit, loaded>>
content == <<files, link, made>>
service == <<svc, running, ready>>
place == <<phase, at, step>>
memory == <<items, previous, fresh, receipts, restart_safe, reported>>
fixed == <<wish, facts, applies, before>>
history == <<spoiled, disturbed, edits>>
vars == <<authority, content, service, place, memory, fixed, trouble, history>>

Plan == PlanOf(wish)
Act == Plan[at]
Undo == receipts[at]

UnitMode(u) == IF u = "smoke" THEN "smoke" ELSE "runtime"
Process(t, u, m) == [toml |-> t, unit |-> u, manifest |-> m]
NoProcess == Process("none", "none", "none")

\* run_worker: exactly one of [executor] and a manifest, which --runtime-manifest also gives.
Doomed(p) ==
    \/ p.toml = "edited"
    \/ p.toml = "smoke" /\ UnitMode(p.unit) = "runtime"
    \/ p.toml = "runtime" /\ p.manifest = "none"

Snapshot == [toml |-> toml, unit |-> unit, loaded |-> loaded, files |-> files, link |-> link,
             active |-> svc = "active"]

\* Hosts the setup is run on: a canonical Worker for reconciliation, and for the
\* first run the runtime Worker that the installer wrote and did not start.
Init ==
    /\ wish \in Wishes /\ facts \in FactSets
    /\ toml \in Modes /\ unit \in Units /\ loaded = unit
    /\ UnitMode(unit) = toml
    /\ files \in [Targets -> {"none", "old", "new"}]
    /\ (toml = "runtime") = (files["manifest"] # "none")
    /\ ~wish.reconcile => unit = "runtime"
    /\ ~wish.tabby => files["tabby"] = "none"
    /\ link \in {"no_directory", "old"} /\ made = {}
    /\ svc \in (IF wish.reconcile THEN {"inactive", "active"} ELSE {"inactive"})
    /\ running = IF svc = "active" THEN Process(toml, loaded, files["manifest"]) ELSE NoProcess
    /\ ready = (svc = "active")
    /\ phase = "idle" /\ at = 0 /\ step = "none"
    /\ items = << >> /\ previous = Snapshot /\ fresh = FALSE /\ receipts = << >>
    /\ restart_safe = TRUE /\ reported = {}
    /\ trouble = 0 /\ applies = 0 /\ before = Snapshot
    /\ spoiled = {} /\ disturbed = FALSE /\ edits = {}

-----------------------------------------------------------------------------
\* What inspect() answers for each kind of action.

Contract ==   \* load_installed_worker_contract; anything else raises
    IF toml \in Modes /\ UnitMode(unit) = toml THEN toml ELSE "unrecognized"

RenderTargets ==   \* _render_targets, in their order
    IF wish.tabby THEN <<"manifest", "tabby">> ELSE <<"manifest">>
Rendered == \A i \in DOMAIN RenderTargets : files[RenderTargets[i]] = "new"

\* A Worker the reviewed plan may not take over: unrecognized or mixed, or one that
\* already runs another deployment.
Foreign(settled) ==
    Contract = "unrecognized" \/ (Contract = "runtime" /\ ~settled)

Needed(condition) == IF condition THEN "needs_apply" ELSE "satisfied"

\* The path of "prerequisite" actions: without an installer or model command there is
\* nothing to run, without a verifier nothing proves what it did.
InspectPrerequisite(name) ==
    IF name \in made THEN "satisfied"
    ELSE IF {"installer", "verifier"} \subseteq facts THEN "needs_apply" ELSE "blocked"

InspectBridge ==
    IF "driver_library" \notin facts THEN "blocked" ELSE Needed(link # "new")

InspectRender ==
    IF wish.reconcile /\ Foreign(Rendered) THEN "blocked" ELSE Needed(~Rendered)

InspectModelReference == IF "model_file" \in facts THEN "satisfied" ELSE "blocked"

InspectWorkerStop ==
    IF Foreign(files["manifest"] = "new") THEN "blocked"
    ELSE Needed(unit # "runtime" /\ svc = "active")

\* Mutant: a runtime TOML is taken for the whole migration.
Mut_InspectWorkerExecution ==
    IF Foreign(files["manifest"] = "new") THEN "blocked" ELSE Needed(toml # "runtime")
InspectWorkerExecution ==
    IF Foreign(files["manifest"] = "new") THEN "blocked"
    ELSE Needed(unit # "runtime")

InspectPreflight ==
    IF wish.gpu /\ facts \cap {"gpu_set", "isolation"} = {}
    THEN "blocked"
    ELSE Needed(files["manifest"] = "none")

Inspection(a) ==
    CASE a \in Directories -> Needed(a \notin made)
      [] a \in {"ensure_package", "download_model", "convert_model"} -> InspectPrerequisite(a)
      [] a = "ensure_nvidia_driver_bridge" -> InspectBridge
      [] a = "render_config" -> InspectRender
      [] a = "verify_model_reference" -> InspectModelReference
      [] a = "worker_stop" -> InspectWorkerStop
      [] a = "reconcile_worker_execution" -> InspectWorkerExecution
      [] a = "preflight" -> InspectPreflight
      [] a = "runtime_start" -> Needed(svc # "active")
      [] a = "health_check" -> Needed(~ready)
      [] a \in {"runtime_stop", "runtime_release"} -> Needed(svc = "active")

-----------------------------------------------------------------------------
\* Where apply_plan goes next.

Running == phase \in {"applying", "rolling"}
In(action, name) == phase = "applying" /\ step = name /\ at <= Len(Plan) /\ Act = action
Undoing(action) == phase = "rolling" /\ step = "undo" /\ at > 0 /\ Undo.action = action

Goto(name) == step' = name /\ UNCHANGED <<phase, at>>
Advance == at' = at + 1 /\ step' = "inspect" /\ UNCHANGED phase
\* Mutant: the rollback misses the last receipt.
Mut_Raise ==
    /\ phase' = "rolling" /\ step' = "undo"
    /\ at' = IF receipts = << >> THEN 0 ELSE Len(receipts) - 1
Raise == phase' = "rolling" /\ at' = Len(receipts) /\ step' = "undo"
Undone == at' = at - 1 /\ step' = "undo" /\ UNCHANGED phase
Leave == IF phase = "applying" THEN Raise ELSE Undone
Report == reported' = reported \cup {Undo.action}

Calm == UNCHANGED trouble
Fault == trouble < Trouble /\ trouble' = trouble + 1
Spoil(what, changed) == spoiled' = IF changed THEN spoiled \cup {what} ELSE spoiled

\* A restoring that raises.  A rollback records that it failed; an apply that was cleaning up
\* behind itself records only that the apply failed, and what it did not restore stays.
GiveUp(left) ==
    /\ Leave
    /\ \/ phase = "rolling" /\ Report /\ UNCHANGED spoiled
       \/ phase = "applying" /\ spoiled' = spoiled \cup left /\ UNCHANGED reported

\* The receipt of the action, with what its rollback_data remembers of the host before it.
Receipt(paths, host) == [action |-> Act, items |-> paths, previous |-> host]
Changed(paths, host) == receipts' = Append(receipts, Receipt(paths, host))

\* systemctl.  A start is of the unit systemd has loaded, and none if already active.
StopService ==
    /\ svc' = IF svc = "failed" THEN "failed" ELSE "inactive"
    /\ running' = NoProcess /\ ready' = FALSE
StartService ==
    IF svc = "active" THEN UNCHANGED service
    ELSE /\ svc' = "active" /\ ready' = FALSE
         /\ running' = Process(toml, loaded, files["manifest"])

\* apply_runtime_tui_plan: the dry run of the plan is not blocked, the operator approves
\* it, and a new driver begins.
Begin(granted) ==
    /\ ~Running /\ applies < Applies
    /\ \A i \in DOMAIN Plan : Inspection(Plan[i]) # "blocked"
    /\ Approved(Plan, granted)
    /\ applies' = applies + 1 /\ before' = Snapshot
    /\ phase' = "applying" /\ at' = 1 /\ step' = "inspect"
    /\ items' = << >> /\ previous' = Snapshot /\ fresh' = FALSE /\ receipts' = << >>
    /\ restart_safe' = TRUE /\ reported' = {} /\ spoiled' = {}
    /\ disturbed' = (disturbed /\ (svc # "inactive" \/ toml = "edited"))
    /\ UNCHANGED <<authority, content, service, wish, facts, trouble, edits>>

\* apply_plan inspects an action immediately before it applies it.
Inspect ==
    /\ phase = "applying" /\ step = "inspect" /\ at <= Len(Plan)
    /\ \/ Calm /\ Inspection(Act) = "satisfied" /\ Advance
       \/ Calm /\ Inspection(Act) = "blocked" /\ Raise
       \/ Calm /\ Inspection(Act) = "needs_apply" /\ Goto("apply")
       \/ Fault /\ Raise
    /\ UNCHANGED <<authority, content, service, memory, fixed, history>>

Finish ==
    /\ \/ phase = "applying" /\ at > Len(Plan) /\ phase' = "succeeded"
       \/ phase = "rolling" /\ step = "undo" /\ at = 0 /\ phase' = "failed"
    /\ step' = "none" /\ at' = 0
    /\ UNCHANGED <<authority, content, service, memory, fixed, trouble, history>>

-----------------------------------------------------------------------------
\* apply() of the driver, by kind.  A step that raises may have taken effect.

\* Directories, packages and models: nothing undoes them.
ApplyPrerequisite(a) ==
    /\ In(a, "apply")
    /\ \/ Calm /\ made' = made \cup {a} /\ Advance
       \/ Fault /\ made' \in {made, made \cup {a}} /\ Raise
    /\ UNCHANGED <<authority, files, link, service, memory, fixed, history>>

ApplyBridge ==
    /\ In("ensure_nvidia_driver_bridge", "apply")
    /\ \/ Calm /\ link' = "new" /\ Changed(<< >>, Snapshot) /\ Advance /\ UNCHANGED spoiled
       \/ /\ Fault /\ Raise
          /\ link' \in {link, IF link = "no_directory" THEN "none" ELSE link, "new"}
          /\ Spoil("link", link' # link) /\ UNCHANGED receipts
    /\ UNCHANGED <<authority, files, made, service, items, previous, fresh, restart_safe,
                   reported, fixed, disturbed, edits>>

\* RENDER_CONFIG reads every target before it writes the first; what was edited until then
\* is what it goes back to.
ApplyRender ==
    /\ In("render_config", "apply")
    /\ \/ InspectRender = "blocked" /\ Raise /\ UNCHANGED <<items, previous, edits>>
       \/ /\ InspectRender # "blocked"
          /\ items' = << >> /\ previous' = Snapshot /\ edits' = {} /\ Goto("write")
    /\ UNCHANGED <<authority, content, service, fresh, receipts, restart_safe, reported, fixed,
                   trouble, spoiled, disturbed>>

\* The targets that differ and are not written yet, as positions in RenderTargets.
ToWrite == {i \in DOMAIN RenderTargets :
               previous.files[RenderTargets[i]] # "new" /\ RenderTargets[i] \notin ToSet(items)}
WriteRendered ==
    /\ In("render_config", "write")
    /\ \E i \in ToWrite :
          LET p == RenderTargets[i]
              written == [files EXCEPT ![p] = "new"]
          IN /\ \A k \in ToWrite : i <= k
             /\ \/ /\ Calm /\ files' = written /\ items' = Append(items, p)
                   /\ IF ToWrite = {i}
                      THEN Changed(items', previous) /\ Advance
                      ELSE Goto("write") /\ UNCHANGED receipts
                   /\ UNCHANGED spoiled
                \/ /\ Fault /\ files' \in {files, written} /\ Spoil(p, files' # files)
                   /\ Goto("compare") /\ UNCHANGED <<items, receipts>>
    /\ UNCHANGED <<authority, link, made, service, previous, fresh, restart_safe, reported,
                   fixed, disturbed, edits>>

\* _restore_rendered_files, last file first.  It refuses a file that is not the one
\* installed.  Then write_text takes the file's identity, which any change of the file
\* renews, prepares the old content and looks whether the identity is still the same, and
\* remove_file reads the file and compares it again; the rename or unlink is the step after.
\* Each of these may raise, which is how RestoreRendered fails without effect.
AtHand == Last(items)
CompareRendered ==
    /\ Running /\ step = "compare"
    /\ \/ items = << >> /\ Leave /\ UNCHANGED <<reported, spoiled>>
       \/ items # << >> /\ files[AtHand] # "new" /\ GiveUp(ToSet(items))
       \/ /\ items # << >> /\ files[AtHand] = "new" /\ UNCHANGED <<reported, spoiled>>
          /\ Goto(IF previous.files[AtHand] = "none" THEN "check" ELSE "stat")
    /\ UNCHANGED <<authority, content, service, items, previous, fresh, receipts, restart_safe,
                   fixed, trouble, disturbed, edits>>
StatRendered ==
    /\ Running /\ step = "stat" /\ Goto("check") /\ fresh' = TRUE
    /\ UNCHANGED <<authority, content, service, items, previous, receipts, restart_safe,
                   reported, fixed, trouble, history>>
\* Mutant: the file is replaced without a second look at its identity.
Mut_CheckRendered ==
    /\ Running /\ step = "check" /\ fresh' = FALSE
    /\ LET same == previous.files[AtHand] = "none" => files[AtHand] = "new"
       IN \/ same /\ Goto("restore") /\ UNCHANGED <<reported, spoiled>>
          \/ ~same /\ GiveUp(ToSet(items))
    /\ UNCHANGED <<authority, content, service, items, previous, receipts, restart_safe, fixed,
                   trouble, disturbed, edits>>
CheckRendered ==
    /\ Running /\ step = "check" /\ fresh' = FALSE
    /\ LET same == IF previous.files[AtHand] = "none" THEN files[AtHand] = "new" ELSE fresh
       IN \/ same /\ Goto("restore") /\ UNCHANGED <<reported, spoiled>>
          \/ ~same /\ GiveUp(ToSet(items))
    /\ UNCHANGED <<authority, content, service, items, previous, receipts, restart_safe, fixed,
                   trouble, disturbed, edits>>
RestoreRendered ==
    /\ Running /\ step = "restore"
    /\ LET restored == [files EXCEPT ![AtHand] = previous.files[AtHand]]
       IN \/ /\ Calm /\ files' = restored /\ items' = Front(items)
             /\ Goto("compare") /\ UNCHANGED <<reported, spoiled>>
          \/ /\ Fault /\ files' \in {files, restored} /\ GiveUp(ToSet(items))
             /\ UNCHANGED items
    /\ UNCHANGED <<authority, link, made, service, previous, fresh, receipts, restart_safe,
                   fixed, disturbed, edits>>

\* WORKER_STOP inspects again, then stops the service.
ApplyWorkerStop ==
    /\ In("worker_stop", "apply")
    /\ \/ /\ InspectWorkerStop # "needs_apply" /\ Calm
          /\ IF InspectWorkerStop = "blocked" THEN Raise ELSE Advance
          /\ UNCHANGED <<service, receipts, spoiled>>
       \/ /\ InspectWorkerStop = "needs_apply" /\ Calm
          /\ StopService /\ Changed(<< >>, Snapshot) /\ Advance /\ UNCHANGED spoiled
       \/ /\ InspectWorkerStop = "needs_apply" /\ Fault
          /\ StopService \/ UNCHANGED service
          /\ Spoil("service", svc' # svc) /\ Raise /\ UNCHANGED receipts
    /\ UNCHANGED <<authority, content, items, previous, fresh, restart_safe, reported, fixed,
                   disturbed, edits>>

\* RECONCILE_WORKER_EXECUTION: TOML, unit, reload, only while the service is not active;
\* until all three are done the Worker is not safe to restart.
ApplyReconcile ==
    /\ In("reconcile_worker_execution", "apply")
    /\ \/ /\ InspectWorkerExecution # "needs_apply" \/ svc = "active"
          /\ IF InspectWorkerExecution = "satisfied" THEN Advance ELSE Raise
          /\ UNCHANGED <<previous, restart_safe>>
       \/ /\ InspectWorkerExecution = "needs_apply" /\ svc # "active"
          /\ previous' = Snapshot /\ restart_safe' = FALSE /\ Goto("toml")
    /\ UNCHANGED <<authority, content, service, items, fresh, receipts, reported, fixed,
                   trouble, history>>
ReconcileToml ==
    /\ In("reconcile_worker_execution", "toml")
    /\ LET desired == IF previous.toml = "runtime" THEN toml ELSE "runtime"
       IN \/ Calm /\ toml' = desired /\ Goto("unit")
          \/ Fault /\ toml' \in {toml, desired} /\ Goto("undo_toml")
    /\ UNCHANGED <<unit, loaded, content, service, memory, fixed, history>>
ReconcileUnit ==
    /\ In("reconcile_worker_execution", "unit")
    /\ \/ Calm /\ unit' = "runtime" /\ Goto("reload")
       \/ Fault /\ unit' \in {unit, "runtime"} /\ Goto("undo_toml")
    /\ UNCHANGED <<toml, loaded, content, service, memory, fixed, history>>
ReconcileReload ==
    /\ In("reconcile_worker_execution", "reload")
    /\ \/ /\ Calm /\ loaded' = unit /\ restart_safe' = TRUE
          /\ Changed(<< >>, previous) /\ Advance
       \/ /\ Fault /\ loaded' \in {loaded, unit} /\ Goto("undo_toml")
          /\ UNCHANGED <<receipts, restart_safe>>
    /\ UNCHANGED <<toml, unit, content, service, items, previous, fresh, reported, fixed,
                   history>>

\* The way back, for an apply that raised and for a rollback: TOML, unit, reload.
\* Only when all three are done is the Worker safe to restart.
GiveUpUndoing == GiveUp({"authority"}) /\ restart_safe' = FALSE
UndoToml ==
    /\ Running /\ step = "undo_toml"
    /\ LET old == IF phase = "applying" /\ previous.toml = "runtime" THEN toml ELSE previous.toml
       IN \/ /\ Calm /\ toml' = old /\ Goto("undo_unit")
             /\ UNCHANGED <<restart_safe, reported, spoiled>>
          \/ Fault /\ toml' \in {toml, old} /\ GiveUpUndoing
    /\ UNCHANGED <<unit, loaded, content, service, items, previous, fresh, receipts, fixed,
                   disturbed, edits>>
UndoUnit ==
    /\ Running /\ step = "undo_unit"
    /\ \/ /\ Calm /\ unit' = previous.unit /\ Goto("undo_reload")
          /\ UNCHANGED <<restart_safe, reported, spoiled>>
       \/ Fault /\ unit' \in {unit, previous.unit} /\ GiveUpUndoing
    /\ UNCHANGED <<toml, loaded, content, service, items, previous, fresh, receipts, fixed,
                   disturbed, edits>>
UndoReload ==
    /\ Running /\ step = "undo_reload"
    /\ \/ /\ Calm /\ loaded' = unit /\ Leave /\ restart_safe' = TRUE
          /\ UNCHANGED <<reported, spoiled>>
       \/ Fault /\ loaded' \in {loaded, unit} /\ GiveUpUndoing
    /\ UNCHANGED <<toml, unit, content, service, items, previous, fresh, receipts, fixed,
                   disturbed, edits>>

\* PREFLIGHT and VERIFY_MODEL_REFERENCE change nothing: they must be satisfied by now.
ApplyCheck(a) ==
    /\ In(a, "apply")
    /\ IF Inspection(a) = "satisfied" THEN Advance ELSE Raise
    /\ UNCHANGED <<authority, content, service, memory, fixed, trouble, history>>

\* systemctl enable --now: enable, which reloads, then start.  A start that fails leaves
\* the service waiting for its automatic restart.
ApplyStart ==
    /\ In("runtime_start", "apply")
    /\ \/ Calm /\ loaded' = unit /\ Goto("start")
       \/ Fault /\ loaded' \in {loaded, unit} /\ Raise
    /\ UNCHANGED <<toml, unit, content, service, memory, fixed, history>>
StartRuntime ==
    /\ In("runtime_start", "start")
    /\ \/ /\ Calm /\ StartService /\ Changed(<< >>, Snapshot) /\ Advance
          /\ UNCHANGED spoiled
       \/ /\ Fault /\ Raise /\ UNCHANGED receipts
          /\ \/ StartService
             \/ /\ svc' = IF svc = "active" THEN svc ELSE "restarting"
                /\ UNCHANGED <<running, ready>>
          /\ Spoil("service", TRUE)
    /\ UNCHANGED <<authority, content, items, previous, fresh, restart_safe, reported, fixed,
                   disturbed, edits>>

\* _wait_ready polls until /ready, a failed service or the deadline; the last may pass any time.
ApplyHealth ==
    /\ In("health_check", "apply")
    /\ \/ ready /\ Advance
       \/ ~ready /\ Raise
    /\ UNCHANGED <<authority, content, service, memory, fixed, trouble, history>>

ApplyStop(a) ==
    /\ In(a, "apply")
    /\ \/ svc # "active" /\ Calm /\ Advance /\ UNCHANGED <<service, receipts, spoiled>>
       \/ /\ svc = "active" /\ Calm /\ StopService /\ Advance /\ UNCHANGED spoiled
          /\ IF a \in Reversible THEN Changed(<< >>, Snapshot) ELSE UNCHANGED receipts
       \/ /\ svc = "active" /\ Fault /\ Raise /\ UNCHANGED receipts
          /\ StopService \/ UNCHANGED service
          /\ Spoil("service", svc' # svc)
    /\ UNCHANGED <<authority, content, items, previous, fresh, restart_safe, reported, fixed,
                   disturbed, edits>>

-----------------------------------------------------------------------------
\* rollback() of the driver, by kind; _rollback goes on after one that fails.

UndoBridge ==
    /\ Undoing("ensure_nvidia_driver_bridge") /\ Undone
    /\ LET old == Undo.previous.link
       IN \/ link # "new" /\ Calm /\ Report /\ UNCHANGED link
          \/ link = "new" /\ Calm /\ link' = old /\ UNCHANGED reported
          \/ /\ link = "new" /\ Fault /\ Report
             /\ link' \in {link, old, IF old = "no_directory" THEN "none" ELSE old}
    /\ UNCHANGED <<authority, files, made, service, items, previous, fresh, receipts,
                   restart_safe, fixed, history>>

UndoRender ==
    /\ Undoing("render_config")
    /\ items' = Undo.items /\ previous' = Undo.previous /\ Goto("compare")
    /\ UNCHANGED <<authority, content, service, fresh, receipts, restart_safe, reported,
                   fixed, trouble, history>>

\* The service is stopped before its authority is given back.
UndoReconcile ==
    /\ Undoing("reconcile_worker_execution")
    /\ restart_safe' = FALSE /\ previous' = Undo.previous
    /\ \/ /\ Calm /\ Goto("undo_toml") /\ UNCHANGED reported
          /\ IF svc = "active" THEN StopService ELSE UNCHANGED service
       \/ /\ svc = "active" /\ Fault /\ Undone /\ Report
          /\ StopService \/ UNCHANGED service
    /\ UNCHANGED <<authority, content, items, fresh, receipts, fixed, history>>

\* A Worker that was stopped is started again only under a smoke authority that is
\* installed and known to be loaded.  Otherwise it is left stopped, and the action is
\* recorded as ROLLED_BACK all the same.
\* Mutant: the files alone decide whether the Worker is safe to start.
Mut_UndoWorkerStop ==
    /\ Undoing("worker_stop") /\ Undone /\ Calm
    /\ IF Contract = "smoke" THEN StartService ELSE UNCHANGED service
    /\ UNCHANGED <<authority, content, items, previous, fresh, receipts, restart_safe, reported,
                   fixed, history>>
UndoWorkerStop ==
    /\ Undoing("worker_stop") /\ Undone
    /\ \/ /\ ~(restart_safe /\ Contract = "smoke") /\ Calm
          /\ UNCHANGED <<service, reported>>
       \/ /\ restart_safe /\ Contract = "smoke" /\ Calm
          /\ StartService /\ UNCHANGED reported
       \/ /\ restart_safe /\ Contract = "smoke" /\ Fault
          /\ Report /\ (StartService \/ UNCHANGED service)
    /\ UNCHANGED <<authority, content, items, previous, fresh, receipts, restart_safe, fixed,
                   history>>

UndoStart ==
    /\ Undoing("runtime_start") /\ Undone
    /\ \/ Calm /\ StopService /\ UNCHANGED reported
       \/ Fault /\ Report /\ (StopService \/ UNCHANGED service)
    /\ UNCHANGED <<authority, content, items, previous, fresh, receipts, restart_safe, fixed,
                   history>>

\* RUNTIME_STOP is declared reversible; the driver changes nothing and the action is
\* recorded as ROLLED_BACK.
UndoStop ==
    /\ Undoing("runtime_stop") /\ Undone
    /\ UNCHANGED <<authority, content, service, memory, fixed, trouble, history>>

-----------------------------------------------------------------------------
\* What happens around the setup: the process is killed, the Worker service lives its
\* own life under Restart=on-failure, an operator edits a file.

Kill ==
    /\ Running /\ Fault
    /\ phase' = "idle" /\ at' = 0 /\ step' = "none"
    /\ UNCHANGED <<authority, content, service, memory, fixed, history>>

WorkerReady ==
    /\ svc = "active" /\ ~ready /\ ~Doomed(running)
    /\ ready' = TRUE
    /\ UNCHANGED <<authority, content, svc, running, place, memory, fixed, trouble, history>>

WorkerFails ==
    /\ svc = "active" /\ (IF Doomed(running) THEN Calm ELSE Fault)
    /\ svc' = "restarting" /\ running' = NoProcess /\ ready' = FALSE
    /\ disturbed' = TRUE
    /\ UNCHANGED <<authority, content, place, memory, fixed, spoiled, edits>>

\* RestartSec has passed, or systemd gives up.
AutoRestart ==
    /\ svc = "restarting"
    /\ \/ StartService
       \/ svc' = "failed" /\ UNCHANGED <<running, ready>>
    /\ disturbed' = TRUE
    /\ UNCHANGED <<authority, content, place, memory, fixed, trouble, spoiled, edits>>

\* Nothing notices an edit of a file that is read and not yet written, of one that is
\* compared and whose identity is not yet taken, or of one about to be renamed over.
Unnoticed(p) ==
    \/ step = "write" /\ \E i \in ToWrite : p = RenderTargets[i]
    \/ step \in {"stat", "restore"} /\ p = AtHand
EditRendered(p) ==
    /\ files[p] # "none" /\ Fault
    /\ files' = [files EXCEPT ![p] = "edited"]
    /\ fresh' = (fresh /\ ~(step = "check" /\ p = AtHand))
    /\ edits' = IF Unnoticed(p) THEN edits ELSE edits \cup {p}
    /\ disturbed' = TRUE
    /\ UNCHANGED <<authority, link, made, service, place, items, previous, receipts,
                   restart_safe, reported, fixed, spoiled>>

EditBridge ==
    /\ link = "new" /\ Fault
    /\ link' = "old" /\ disturbed' = TRUE
    /\ UNCHANGED <<authority, files, made, service, place, memory, fixed, spoiled, edits>>

EditToml ==
    /\ toml # "edited" /\ Fault
    /\ toml' = "edited" /\ disturbed' = TRUE
    /\ UNCHANGED <<unit, loaded, content, service, place, memory, fixed, spoiled, edits>>

Step ==
    \/ Inspect \/ Finish
    \/ \E a \in Directories \cup {"ensure_package", "download_model", "convert_model"} :
          ApplyPrerequisite(a)
    \/ ApplyBridge \/ ApplyRender \/ WriteRendered
    \/ CompareRendered \/ StatRendered \/ CheckRendered \/ RestoreRendered
    \/ ApplyWorkerStop
    \/ ApplyReconcile \/ ReconcileToml \/ ReconcileUnit \/ ReconcileReload
    \/ UndoToml \/ UndoUnit \/ UndoReload
    \/ \E a \in {"preflight", "verify_model_reference"} : ApplyCheck(a)
    \/ ApplyStart \/ StartRuntime \/ ApplyHealth
    \/ \E a \in {"runtime_stop", "runtime_release"} : ApplyStop(a)
    \/ UndoBridge \/ UndoRender \/ UndoReconcile \/ UndoWorkerStop \/ UndoStart \/ UndoStop

Next ==
    \/ \E granted \in SUBSET Permissions : Begin(granted)
    \/ Step
    \/ Kill \/ WorkerReady \/ WorkerFails \/ AutoRestart
    \/ \E p \in Targets : EditRendered(p)
    \/ EditBridge \/ EditToml

Spec == Init /\ [][Next]_vars

-----------------------------------------------------------------------------
TypeOK ==
    /\ toml \in Modes \cup {"edited"} /\ unit \in Units /\ loaded \in Units
    /\ files \in [Targets -> Contents] /\ link \in Bridges
    /\ svc \in {"inactive", "active", "restarting", "failed"}
    /\ (svc = "active") = (running # NoProcess)
    /\ ready => svc = "active"
    /\ phase \in {"idle", "applying", "rolling", "succeeded", "failed"}
    /\ at \in 0 .. Len(Plan) + 1 /\ Len(receipts) <= Len(Plan)

\* A failed apply whose result has no ROLLBACK_FAILED, on a host nobody else acted on, has
\* put back everything reversible: the execution authority, the rendered files, the bridge
\* and the Worker.  It leaves only what the action that raised had changed itself and
\* could not clean up (spoiled), and a Worker stopped that it may not start again: one not
\* in smoke mode, one whose authority it could not restore, one a release stopped.
LeftStopped ==
    /\ svc # "active"
    /\ before.unit # "smoke" \/ "authority" \in spoiled \/ wish.goal = "release"
RollbackRestores ==
    phase = "failed" /\ ~disturbed /\ reported = {} =>
        /\ \/ "authority" \in spoiled
           \/ /\ toml = before.toml /\ unit = before.unit
              /\ loaded \in {before.loaded, before.unit}
        /\ \A p \in Targets \ spoiled : files[p] = before.files[p]
        /\ "link" \in spoiled \/ link = before.link
        /\ "service" \in spoiled \/ (svc = "active") = before.active \/ LeftStopped

\* A successful activation leaves the Worker running and ready under the reviewed
\* deployment, as long as nobody else acted on the host.
SuccessRunsReviewed ==
    phase = "succeeded" /\ wish.goal = "activate" /\ ~disturbed =>
        /\ svc = "active" /\ ready
        /\ running = Process("runtime", "runtime", "new")
        /\ \A i \in DOMAIN RenderTargets : files[RenderTargets[i]] = "new"
        /\ wish.gpu => link = "new"

\* An operator's edit of a rendered file outlives the apply that installed the file, its
\* clean-up and its rollback, unless it falls where nothing looks at the file any more
\* before it is replaced (Unnoticed).
EditsKept == \A p \in edits : files[p] = "edited"

\* The promise about the Worker's execution authority.
Fitting(t, u) == IF t \in Modes /\ UnitMode(u) = t THEN u ELSE "mixed"
Authority == INSTANCE ExecutionAuthority WITH
    Whole <- Units, Broken <- "mixed", Stopped <- "stopped",
    authority <- Fitting(toml, loaded),
    worker <- IF running = NoProcess THEN "stopped" ELSE Fitting(running.toml, running.unit),
    alone <- ~disturbed
AuthorityRefined == Authority!Spec
=============================================================================
