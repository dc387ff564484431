---------------------------- MODULE ManagedRuntime ----------------------------
(***************************************************************************)
(* The runtime process that a Worker daemon owns: the ManagedRuntime and   *)
(* process controller of a provider, the RuntimeLifecycleManager, and the  *)
(* life of run_worker around them.  The five providers repeat one          *)
(* structure; Ollama alone also loads and unloads its model, so a provider *)
(* is "ollama" or "other" here.                                            *)
(*                                                                         *)
(* Requests go to the configured endpoint, whoever listens there: the      *)
(* owned process or a foreign server that took the port.  A request may    *)
(* also fail or time out.  Its answer is fixed in one step and used in a   *)
(* later one, and the owned process may exit in between.                   *)
(***************************************************************************)
EXTENDS Naturals, FiniteSets

VARIABLES
    provider,   \* "ollama" or "other"
    child,      \* the process last spawned: "none", "booting", "serving", "exited"
    held,       \* _process is not None
    foreign,    \* the foreign server: "none", "same_model" or "other_model"
    at,         \* where the daemon is in its code, "down" when there is no daemon
    ctx,        \* the caller to return to
    reply,      \* the answer of the last request
    closed,     \* _closed of the runtime
    released,   \* _released of the lifecycle manager
    gate,       \* the supervisor's gate is open
    draining,   \* _draining of the Worker
    job,        \* "none", "claiming" (the request is out) or "running"
    sig,        \* "none", "term" (SIGTERM came) or "stop" (request_stop)
    failing,    \* an exception is on its way out of run_worker
    exit,       \* how the last daemon ended: "clean" or "failed"
    offline,    \* Control was told OFFLINE
    unloaded    \* history: who was sent an unload request by release()

processVars == <<child, held>>
workerVars == <<gate, draining, job, sig>>
endVars == <<closed, released, failing, exit, offline, unloaded>>
runtimeVars == <<provider, processVars, foreign, at, ctx, reply, workerVars, endVars>>

RuntimeTypeOK ==
    /\ provider \in {"ollama", "other"}
    /\ child \in {"none", "booting", "serving", "exited"}
    /\ foreign \in {"none", "same_model", "other_model"}
    /\ reply \in {"none", "no", "yes", "missing"}
    /\ job \in {"none", "claiming", "running"} /\ sig \in {"none", "term", "stop"}
    /\ exit \in {"clean", "failed"}
    /\ closed = released /\ (released => ~ held) /\ (held => child # "none")
    /\ {held, closed, released, gate, draining, failing, offline} \subseteq BOOLEAN

RuntimeInit ==
    /\ provider \in {"ollama", "other"}
    /\ child = "none" /\ held = FALSE /\ foreign = "none"
    /\ at = "down" /\ ctx = "none" /\ reply = "none"
    /\ gate = TRUE /\ draining = FALSE /\ job = "none" /\ sig = "none"
    /\ closed = FALSE /\ released = FALSE /\ failing = FALSE
    /\ exit = "clean" /\ offline = FALSE /\ unloaded = {}

Alive == child \in {"booting", "serving"}   \* a process with the model on the GPU

\* The property running of the process controller.
running == held /\ Alive

Listener ==
    CASE foreign # "none"  -> "foreign"
      [] child = "serving" -> "own"
      [] OTHER             -> "nobody"

-----------------------------------------------------------------------------
\* Processes.

\* The child has loaded its model; it serves, or it exits as the port is taken.
ChildBinds ==
    /\ child = "booting"
    /\ child' = IF foreign = "none" THEN "serving" ELSE "exited"
    /\ UNCHANGED <<provider, held, foreign, at, ctx, reply, workerVars, endVars>>

\* The child exits, on a signal or by itself.
ChildExits ==
    /\ Alive
    /\ child' = "exited"
    /\ UNCHANGED <<provider, held, foreign, at, ctx, reply, workerVars, endVars>>

ForeignComes ==
    /\ Listener = "nobody"
    /\ foreign' \in {"same_model", "other_model"}
    /\ UNCHANGED <<provider, processVars, at, ctx, reply, workerVars, endVars>>

ForeignGoes ==
    /\ foreign # "none"
    /\ foreign' = "none"
    /\ UNCHANGED <<provider, processVars, at, ctx, reply, workerVars, endVars>>

-----------------------------------------------------------------------------
\* Requests.

Goto(next) == at' = next

\* _server_reachable(): nobody answers, or whoever listens does unless it hangs.
AskReachable(next) ==
    /\ Goto(next)
    /\ reply' \in {"no"} \cup (IF Listener = "nobody" THEN {} ELSE {"yes"})
    /\ UNCHANGED <<provider, processVars, foreign, ctx, workerVars, endVars>>

\* models(): fails, or says whether the configured model is there.
AskModels(next) ==
    /\ Goto(next)
    /\ reply' \in {"no"} \cup
         CASE Listener = "nobody"    -> {}
           [] foreign = "same_model" -> {"yes"}
           [] foreign = "other_model" -> {"missing"}
           [] OTHER                  -> {"yes", "missing"}
    /\ UNCHANGED <<provider, processVars, foreign, ctx, workerVars, endVars>>

Step(from, next) ==
    /\ at = from /\ Goto(next) /\ reply' = "none"
    /\ UNCHANGED <<provider, processVars, foreign, ctx, workerVars, endVars>>

-----------------------------------------------------------------------------
\* run_worker around the lifecycle manager.

\* A new daemon process: a new runtime, lifecycle manager and Worker.
Boot ==
    /\ at = "down"
    /\ Goto("health") /\ ctx' = "before" /\ reply' = "none"
    /\ held' = FALSE /\ closed' = FALSE /\ released' = FALSE /\ failing' = FALSE
    /\ gate' = TRUE /\ draining' = FALSE /\ job' = "none" /\ sig' = "none"
    /\ offline' = FALSE
    /\ UNCHANGED <<provider, child, foreign, exit, unloaded>>

\* The daemon process is gone.
Gone(code) ==
    /\ Goto("down") /\ ctx' = "none" /\ reply' = "none"
    /\ exit' = code
    /\ held' = FALSE /\ gate' = TRUE /\ draining' = FALSE /\ job' = "none" /\ sig' = "none"
    /\ closed' = FALSE /\ released' = FALSE /\ failing' = FALSE
    /\ UNCHANGED <<provider, child, foreign, offline, unloaded>>

\* The handlers of SIGTERM and SIGUSR1 are installed and the Worker runs.
Serving == ctx = "watch"

\* ensure_ready returned: the Worker and the supervisor of the runtime start.
Serve ==
    /\ Goto("sleep") /\ ctx' = "watch" /\ reply' = "none"
    /\ UNCHANGED <<provider, processVars, foreign, workerVars, endVars>>

\* shutdown_owned is called: by run_forever ("worker") or by run_worker ("daemon").
shutdown_owned(caller) == Goto(IF released THEN "shut" ELSE "stop") /\ ctx' = caller

\* An exception leaves ensure_ready: the finally of run_worker runs.
Raise ==
    /\ shutdown_owned("daemon")
    /\ failing' = TRUE /\ reply' = "none"
    /\ UNCHANGED <<provider, processVars, foreign, workerVars, closed, released, exit,
                   offline, unloaded>>

-----------------------------------------------------------------------------
\* health() of the runtime, called by ensure_ready and by the supervisor.

\* Mutant: the owned process is not asked for.
Mut_Verdict(models) ==
    CASE reply = "no" /\ ~ models -> IF running THEN "STARTING" ELSE "STOPPED"
      [] reply = "yes" /\ ~ models -> "ask"
      [] reply = "no" /\ models   -> "DEGRADED"
      [] reply = "missing"        -> "FAILED"
      [] OTHER                    -> "READY"

\* What health() concludes from an answer, after _server_reachable() or after models().
Verdict(models) ==
    CASE reply = "no" /\ ~ models -> IF running THEN "STARTING" ELSE "STOPPED"
      [] reply = "yes" /\ ~ models -> IF running THEN "ask" ELSE "FAILED"
      [] reply = "no" /\ models   -> "DEGRADED"
      [] reply = "missing"        -> "FAILED"
      [] OTHER                    -> IF running THEN "READY" ELSE "STOPPED"

\* The supervisor latches what is not READY and goes on or to sleep.
Supervised(v) ==
    /\ Goto(IF v = "READY" THEN "sleep" ELSE "quarantine")
    /\ gate' = (gate /\ v = "READY") /\ reply' = "none"
    /\ UNCHANGED <<provider, processVars, foreign, ctx, draining, job, sig, endVars>>

\* ensure_ready goes on with a health report.
Reported(v) ==
    \/ v = "READY" /\ Serve
    \/ v = "FAILED" /\ Raise
    \/ /\ v = "STOPPED" /\ ctx = "before"
       /\ Goto("start") /\ ctx' = "poll" /\ reply' = "none"
       /\ UNCHANGED <<provider, processVars, foreign, workerVars, endVars>>
    \/ /\ v \in {"STARTING", "DEGRADED"} \/ (v = "STOPPED" /\ ctx = "poll")
       /\ \/ ctx = "poll" /\ Raise                 \* the deadline has passed
          \/ /\ Goto("health") /\ ctx' = "poll" /\ reply' = "none"
             /\ UNCHANGED <<provider, processVars, foreign, workerVars, endVars>>

Concluded(models) ==
    LET v == Verdict(models) IN
    IF v = "ask" THEN Step(at, "models")
    ELSE IF Serving THEN Supervised(v) ELSE Reported(v)

health ==
    \/ at = "health" /\ AskReachable("reached")
    \/ at = "reached" /\ Concluded(FALSE)
    \/ at = "models" /\ AskModels("listed")
    \/ at = "listed" /\ Concluded(TRUE)

\* The sleep of the supervisor is over.
Watch == Serving /\ Step("sleep", "health")

-----------------------------------------------------------------------------
\* start() of the runtime.  ensure_ready calls it only when health() said STOPPED,
\* and nobody else starts the process, so it is started here or not at all.

\* The process is spawned, or create_subprocess_exec fails.
Spawn ==
    /\ at = "start_checked" /\ reply = "no"
    /\ \/ /\ Goto("start_wait")
          /\ child' = "booting" /\ held' = TRUE
          /\ UNCHANGED <<provider, foreign, ctx, reply, workerVars, endVars>>
       \/ Raise

\* The except clause of start(): clean up what was started, then raise.
StartFails ==
    /\ Goto(IF provider = "ollama" THEN "cleanup" ELSE "stop")
    /\ ctx' = "start_failed" /\ reply' = "none"
    /\ UNCHANGED <<provider, processVars, foreign, workerVars, endVars>>

start ==
    \/ at = "start" /\ AskReachable("start_checked")
    \/ at = "start_checked" /\ reply = "yes" /\ Raise   \* an external server
    \/ Spawn
    \/ at = "start_wait" /\ IF running THEN AskReachable("start_waited") ELSE StartFails
    \/ at = "start_waited" /\ reply = "yes" /\ Step(at, "start_models")
    \/ at = "start_waited" /\ reply = "no" /\ (StartFails \/ Step(at, "start_wait"))
    \/ at = "start_models" /\ AskModels("start_listed")
    \/ at = "start_listed" /\ reply # "yes" /\ StartFails
    \/ at = "start_listed" /\ reply = "yes" /\ provider = "other" /\ Step(at, "health")

\* Ollama loads the model at the endpoint and verifies where it resides; a failed
\* start asks whoever listens to unload the model.
ollama_start ==
    \/ at = "start_listed" /\ reply = "yes" /\ provider = "ollama" /\ Step(at, "load")
    \/ at = "load" /\ Listener # "nobody" /\ Step(at, "health")
    \/ at = "load" /\ StartFails
    \/ at = "cleanup" /\ Step(at, "stop")

-----------------------------------------------------------------------------
\* stop() of the process controller, and what its caller does next.

\* SIGTERM.  Whether and when the child obeys is up to it (ChildExits).
Terminate == Step("stop", "stop_wait")

\* The process has exited and is forgotten.
Reaped ==
    /\ held' = FALSE /\ Goto("stopped")
    /\ UNCHANGED <<provider, child, foreign, ctx, reply, workerVars, endVars>>

\* The process did not obey SIGTERM in time.
Kill == Step("stop_wait", "stop_kill")

stop ==
    \/ at = "stop" /\ IF running THEN Terminate ELSE Reaped
    \/ at = "stop_wait" /\ IF Alive THEN Kill ELSE Reaped
    \/ at = "stop_kill" /\ ~ Alive /\ Reaped

\* start() raises after its cleanup.
StartRaises == at = "stopped" /\ ctx = "start_failed" /\ Raise

\* Mutant: release() of Ollama asks only whether a server answers.
Mut_MayUnload == TRUE

\* release() of Ollama unloads from a server only while the owned process runs.
MayUnload == running

\* release() of the runtime, the rest of the budget of shutdown_owned.
release ==
    /\ at = "stopped" /\ ctx \in {"worker", "daemon"}
    /\ unloaded' = IF provider = "ollama" /\ MayUnload /\ Listener # "nobody" /\ ~ closed
                   THEN unloaded \cup {Listener} ELSE unloaded
    /\ closed' = TRUE /\ released' = TRUE /\ Goto("shut")
    /\ UNCHANGED <<provider, processVars, foreign, ctx, reply, workerVars, failing, exit, offline>>

\* Mutant: an expired budget ends like a finished shutdown.
Mut_BudgetExpires ==
    /\ Goto("shut")
    /\ UNCHANGED <<provider, processVars, foreign, ctx, reply, workerVars, endVars>>

\* shutdown_owned: the budget is spent and the cleanup is cancelled where it stands.
BudgetExpires ==
    IF ctx = "worker"
    THEN /\ shutdown_owned("daemon")
         /\ UNCHANGED <<provider, processVars, foreign, reply, workerVars, endVars>>
    ELSE Gone("failed")

ShutdownTimesOut ==
    /\ ctx \in {"worker", "daemon"} /\ at \in {"stop_wait", "stop_kill", "stopped"}
    /\ BudgetExpires

\* run_forever tells Control after the runtime is gone; run_worker then finds it released.
GoesOffline ==
    /\ at = "shut" /\ ctx = "worker"
    /\ offline' = TRUE
    /\ shutdown_owned("daemon")
    /\ UNCHANGED <<provider, processVars, foreign, reply, workerVars, closed, released, failing,
                   exit, unloaded>>

DaemonEnds == at = "shut" /\ ctx = "daemon" /\ Gone(IF failing THEN "failed" ELSE "clean")

-----------------------------------------------------------------------------
\* The Worker while it serves.

jobless == <<provider, processVars, foreign, at, ctx, reply, gate, draining, sig, endVars>>

\* The Worker claims only while it is ready.
Claim == Serving /\ gate /\ ~ draining /\ job = "none" /\ job' = "claiming" /\ UNCHANGED jobless

\* The claim is answered.  A job is executed unless the gate has failed, and also when a drain
\* or stop was requested meanwhile.
Claimed ==
    /\ job = "claiming"
    /\ job' \in {"none"} \cup (IF gate THEN {"running"} ELSE {})
    /\ UNCHANGED jobless

\* execute() ends with a result or an error.
Executed == job = "running" /\ job' = "none" /\ UNCHANGED jobless

\* The gate has failed: the execution is cancelled and joined.
Cancelled == job = "running" /\ ~ gate /\ job' = "none" /\ UNCHANGED jobless

\* run_worker after SIGTERM: drain, give an active job its grace, request_stop.
StopRequested ==
    /\ Serving /\ sig = "term"
    /\ sig' = "stop" /\ draining' = TRUE
    /\ job' = IF job = "running" THEN "none" ELSE job   \* the grace is over
    /\ UNCHANGED <<provider, processVars, foreign, at, ctx, reply, gate, endVars>>

\* run_forever ends: the supervisor is closed, whatever it does, and the runtime stopped.
WorkerEnds ==
    /\ Serving /\ sig = "stop" /\ job = "none"
    /\ shutdown_owned("worker") /\ reply' = "none"
    /\ UNCHANGED <<provider, processVars, foreign, workerVars, endVars>>

\* run_forever fails, for instance in registration or with the health server.
WorkerFails ==
    /\ Serving /\ sig # "stop"
    /\ sig' = "stop" /\ draining' = TRUE /\ failing' = TRUE /\ job' = "none"
    /\ UNCHANGED <<provider, processVars, foreign, at, ctx, reply, gate, closed, released, exit,
                   offline, unloaded>>

\* The steps of the daemon's own code that do not wait for anything outside it.
DaemonStep ==
    \/ health \/ Watch \/ start \/ ollama_start \/ stop \/ StartRaises \/ release
    \/ GoesOffline \/ DaemonEnds \/ StopRequested \/ WorkerEnds

RuntimeNext ==
    \/ ChildBinds \/ ChildExits \/ ForeignComes \/ ForeignGoes
    \/ Claim \/ Claimed \/ Executed \/ Cancelled \/ WorkerFails
    \/ ShutdownTimesOut \/ DaemonStep

-----------------------------------------------------------------------------
\* "Control is marked OFFLINE only after owned-runtime cleanup succeeds": when Control may give
\* the GPU of this Worker to another, no process that run_worker started still holds it.
OfflineMeansReleased == offline /\ at # "down" => ~ Alive

\* However a daemon ends by itself, through a failed start, a failed Worker or a stop, either no
\* process it started is left or it has ended with a failure, which systemd cleans up after.
NoProcessLeft == at = "shut" /\ ctx = "daemon" => ~ Alive

\* Nobody is told that the runtime is gone before it is: neither Control nor the caller of the
\* daemon's shutdown.
ReleasedWhenOver == OfflineMeansReleased /\ NoProcessLeft

\* release() of Ollama sends no unload request to a foreign server at the endpoint.
UnloadsOwnOnly == "foreign" \notin unloaded

\* A Worker whose runtime process has died, even if another server answers in its place,
\* closes its gate or is stopped.
DeadRuntimeNoticed == (Serving /\ child = "exited") ~> (~ Serving \/ ~ gate)
=============================================================================
