------------------------ MODULE BorrowableMode_proofs ------------------------
(***************************************************************************)
(* Safety of the managed runtime and of the lending of the GPU, proved     *)
(* along one statement per place in the daemon's code.                     *)
(***************************************************************************)
EXTENDS BorrowableMode, TLAPS

\* Where the supervisor can be, in its loop or in health().
WatchPlaces == {"sleep", "health", "reached", "models", "listed", "quarantine"}

\* The daemon and its runtime process.  A live process is known to the daemon; stop() has
\* forgotten it only when it is gone; release() is the last thing before "shut", and Control
\* is told between the two calls of shutdown_owned.
RuntimeInv ==
    /\ at = "down" <=> ctx = "none"
    /\ at # "down" /\ Alive => held
    /\ at = "stopped" => ~ held
    /\ released <=> at = "shut"
    /\ at = "shut" => ctx \in {"worker", "daemon"} /\ ~ held
    /\ offline /\ at # "down" => at = "shut" /\ ctx = "daemon"
    /\ unloaded = {}
    /\ Serving => at \in WatchPlaces
    /\ job # "none" => Serving
    /\ at = "down" => sig = "none"

-----------------------------------------------------------------------------
\* An exception leads to the shutdown of run_worker.
LEMMA RaiseKeeps ==
    ASSUME RuntimeInv, Raise, at \notin {"down", "shut"}, ~ Serving
    PROVE  RuntimeInv'
BY DEF RuntimeInv, Raise, shutdown_owned, Goto, Alive, Serving, workerVars, processVars

\* A step that only moves on within a call, or from one call to the next.
LEMMA MoveKeeps ==
    ASSUME RuntimeInv, at \notin {"down", "shut"},
           at' \notin {"down", "shut", "stopped"},
           ctx' = ctx \/ (~ Serving /\ ctx' # "none"), Serving' => at' \in WatchPlaces,
           UNCHANGED <<processVars, job, endVars>>
    PROVE  RuntimeInv'
BY DEF RuntimeInv, Alive, Serving, processVars, endVars

\* A step that changes neither the place of the daemon nor what it has released.
LEMMA StayKeeps ==
    ASSUME RuntimeInv, UNCHANGED <<at, ctx, held, released, offline, unloaded>>,
           at # "down" => (Alive' => Alive),
           job' # "none" => Serving,
           at = "down" => sig' = sig
    PROVE  RuntimeInv'
BY DEF RuntimeInv, Serving

\* health() and what its caller concludes.
LEMMA HealthKeeps ==
    ASSUME RuntimeInv, health
    PROVE  RuntimeInv'
<1>1. CASE at = "health" /\ AskReachable("reached")
  BY <1>1, MoveKeeps DEF Serving, WatchPlaces, AskReachable, Goto, workerVars
<1>2. CASE at = "models" /\ AskModels("listed")
  BY <1>2, MoveKeeps DEF Serving, WatchPlaces, AskModels, Goto, workerVars
<1>3. ASSUME NEW m \in BOOLEAN, at \in {"reached", "listed"}, Concluded(m)
      PROVE  RuntimeInv'
  <2> DEFINE v == Verdict(m)
  <2>1. CASE Step(at, "models")
    BY <1>3, <2>1, MoveKeeps DEF Serving, WatchPlaces, Step, Goto, workerVars
  <2>2. CASE Serving /\ Supervised(v)
    BY <1>3, <2>2, MoveKeeps DEF Serving, WatchPlaces, Supervised, Goto
  <2>3. CASE ~ Serving /\ Reported(v)
    <3>1. CASE Serve
      BY <1>3, <2>3, <3>1, MoveKeeps DEF Serving, WatchPlaces, Serve, Goto, workerVars
    <3>2. CASE Raise
      BY <1>3, <2>3, <3>2, RaiseKeeps
    <3>3. CASE /\ \/ Goto("start") \/ Goto("health")
               /\ ctx' = "poll"
               /\ UNCHANGED <<provider, processVars, foreign, workerVars, endVars>>
      BY <1>3, <2>3, <3>3, MoveKeeps DEF Serving, WatchPlaces, Goto, workerVars
    <3> QED
      BY <2>3, <3>1, <3>2, <3>3 DEF Reported
  <2> QED
    BY <1>3, <2>1, <2>2, <2>3 DEF Concluded
<1> QED
  BY <1>1, <1>2, <1>3 DEF health

\* start(), with Ollama's load and the cleanup of a failed start.
LEMMA StartKeeps ==
    ASSUME RuntimeInv, start \/ ollama_start
    PROVE  RuntimeInv'
<1>0. ~ Serving
  BY DEF RuntimeInv, WatchPlaces, start, ollama_start, Spawn
<1>1. CASE at # "shut" /\ at # "down" /\ Raise
  BY <1>0, <1>1, RaiseKeeps
<1>2. CASE at = "start_checked" /\ Spawn /\ ~ Raise
  BY <1>0, <1>2 DEF Spawn, RuntimeInv, Goto, Alive, Serving, workerVars, endVars
<1>3. CASE at # "shut" /\ at # "down" /\ StartFails
  BY <1>0, <1>3, MoveKeeps DEF Serving, WatchPlaces, StartFails, Goto, workerVars
<1>4. ASSUME NEW next \in {"start_checked", "start_waited", "start_listed"},
             at # "shut" /\ at # "down", AskReachable(next) \/ AskModels(next)
      PROVE  RuntimeInv'
  BY <1>0, <1>4, MoveKeeps DEF Serving, WatchPlaces, AskReachable, AskModels, Goto, workerVars
<1>5. ASSUME NEW next \in {"start_models", "start_wait", "health", "load", "stop"},
             at # "shut" /\ at # "down", Step(at, next)
      PROVE  RuntimeInv'
  BY <1>0, <1>5, MoveKeeps DEF Serving, WatchPlaces, Step, Goto, workerVars
<1> QED
  BY <1>1, <1>2, <1>3, <1>4, <1>5 DEF start, ollama_start, Spawn

\* stop() forgets the process only when it is gone.
LEMMA StopKeeps ==
    ASSUME RuntimeInv, stop
    PROVE  RuntimeInv'
<1>0. ~ Serving /\ at \notin {"down", "shut", "stopped"}
  BY DEF RuntimeInv, WatchPlaces, stop
<1>1. CASE Terminate \/ (at = "stop_wait" /\ Kill)
  BY <1>0, <1>1, MoveKeeps DEF Serving, WatchPlaces, Terminate, Kill, Step, Goto, workerVars
<1>2. CASE ~ Alive /\ Reaped
  BY <1>0, <1>2 DEF RuntimeInv, Reaped, Goto, Alive, Serving, workerVars, endVars
<1>3. CASE at = "stop" /\ ~ running /\ Reaped
  BY <1>0, <1>2, <1>3 DEF RuntimeInv, running
<1> QED
  BY <1>1, <1>2, <1>3 DEF stop

\* release(), the report to Control and the end of the daemon.
LEMMA EndKeeps ==
    ASSUME RuntimeInv, StartRaises \/ release \/ GoesOffline \/ DaemonEnds \/ ShutdownTimesOut
    PROVE  RuntimeInv'
<1>0. ~ Serving
  BY DEF RuntimeInv, WatchPlaces, StartRaises, release, GoesOffline, DaemonEnds, ShutdownTimesOut,
         Serving
<1>1. CASE StartRaises
  BY <1>0, <1>1, RaiseKeeps DEF StartRaises
<1>2. CASE release
  <2>1. unloaded' = unloaded
    BY <1>2 DEF RuntimeInv, release, MayUnload, running
  <2> QED
    BY <1>0, <1>2, <2>1 DEF RuntimeInv, release, Goto, Alive, Serving, workerVars, processVars
<1>3. CASE GoesOffline
  BY <1>0, <1>3
  DEF RuntimeInv, GoesOffline, shutdown_owned, Goto, Alive, Serving, workerVars, processVars
<1>4. ASSUME NEW code, Gone(code) PROVE RuntimeInv'
  BY <1>4 DEF RuntimeInv, Gone, Goto, Alive, Serving
<1>5. CASE ShutdownTimesOut /\ ctx = "worker"
  BY <1>0, <1>5
  DEF RuntimeInv, ShutdownTimesOut, BudgetExpires, shutdown_owned, Goto, Alive, Serving,
      workerVars, processVars, endVars
<1> QED
  BY <1>1, <1>2, <1>3, <1>4, <1>5 DEF DaemonEnds, ShutdownTimesOut, BudgetExpires

\* The Worker and the surroundings of the daemon.
LEMMA OthersKeep ==
    ASSUME RuntimeInv,
           \/ ChildBinds \/ ChildExits \/ ForeignComes \/ ForeignGoes
           \/ Claim \/ Claimed \/ Executed \/ Cancelled
           \/ StopRequested \/ WorkerFails \/ WorkerEnds \/ Watch
    PROVE  RuntimeInv'
<1>1. CASE ChildBinds \/ ChildExits \/ ForeignComes \/ ForeignGoes
  BY <1>1, StayKeeps
  DEF RuntimeInv, ChildBinds, ChildExits, ForeignComes, ForeignGoes, Alive, processVars,
      workerVars, endVars
<1>2. CASE Claim \/ Claimed \/ Executed \/ Cancelled
  BY <1>2, StayKeeps
  DEF RuntimeInv, Claim, Claimed, Executed, Cancelled, jobless, Alive, processVars, endVars
<1>3. CASE StopRequested \/ WorkerFails
  BY <1>3, StayKeeps
  DEF RuntimeInv, StopRequested, WorkerFails, Serving, Alive, processVars, endVars
<1>4. CASE WorkerEnds
  BY <1>4
  DEF RuntimeInv, WorkerEnds, WatchPlaces, shutdown_owned, Goto, Alive, Serving, workerVars,
      processVars, endVars
<1>5. CASE Watch
  BY <1>5, MoveKeeps DEF Watch, Step, Serving, WatchPlaces, Goto, workerVars
<1> QED
  BY <1>1, <1>2, <1>3, <1>4, <1>5

\* Every step of the daemon and of its surroundings keeps the invariant.
LEMMA RuntimeNextKeeps ==
    ASSUME RuntimeInv, RuntimeNext
    PROVE  RuntimeInv'
BY HealthKeeps, StartKeeps, StopKeeps, EndKeeps, OthersKeep DEF RuntimeNext, DaemonStep

-----------------------------------------------------------------------------
\* The service, the command and the developers.  The GPU is cleaned before a daemon starts,
\* and a command that starts one has found the GPU free.
ModeInv ==
    /\ at = "down" <=> service # "active"
    /\ service \in {"inactive", "auto_restart"} => child = "none"
    /\ stopping => mat = "stopping" /\ service \in {"active", "deactivating"}
    /\ lent => mat = "idle"
    /\ mat = "start" => ~ dev
    /\ mat = "idle" <=> cmd = "none"

\* As long as daemons end only on a systemctl stop, none is restarted by itself, and there
\* is none on a GPU that is lent or used by developers.
LentInv ==
    ~ died =>
      /\ service # "auto_restart"
      /\ service = "deactivating" => stopping
      /\ dev \/ lent => service # "active" /\ ~ Alive

\* The Worker has no job and gets none any more.
Quiet == job # "running" /\ (draining \/ ~ gate) /\ (job = "claiming" => ~ gate)

\* The service is asked to stop only when its Worker is quiet, and it stays so.
JobInv ==
    /\ sig = "term" => stopping
    /\ ~ raced /\ ~ died =>
         /\ job = "claiming" /\ draining => ~ gate
         /\ (mat = "stop" \/ stopping) /\ service = "active" => Quiet
         /\ ~ cut

IInv == RuntimeInv /\ ModeInv /\ LentInv /\ JobInv

\* Initially no daemon, no command and no developer is there.
LEMMA InitIInv == Init => IInv
BY DEF Init, RuntimeInit, IInv, RuntimeInv, ModeInv, LentInv, JobInv, Alive, Serving, WatchPlaces

-----------------------------------------------------------------------------
\* The Worker is not touched, but for its gate, which may fail.
WorkerKept == UNCHANGED <<job, draining, sig>> /\ (gate' => gate)

\* A step of the daemon leaves the Worker alone, is one of the Worker's own, or ends the daemon.
LEMMA WorkerSteps ==
    ASSUME RuntimeNext
    PROVE  \/ WorkerKept \/ at' = "down"
           \/ Claim \/ Claimed \/ Executed \/ Cancelled \/ StopRequested \/ WorkerFails
<1> USE DEF WorkerKept, workerVars
<1>1. CASE health
  <2>1. ASSUME NEW m, Concluded(m) PROVE WorkerKept
    BY <2>1 DEF Concluded, Step, Supervised, Reported, Serve, Raise
  <2> QED
    BY <1>1, <2>1 DEF health, AskReachable, AskModels
<1>2. CASE Watch \/ start \/ ollama_start
  BY <1>2
  DEF Watch, Step, start, ollama_start, Spawn, StartFails, Raise, AskReachable, AskModels
<1>3. CASE stop \/ StartRaises \/ release \/ GoesOffline
  BY <1>3 DEF stop, Terminate, Kill, Step, Reaped, StartRaises, Raise, release, GoesOffline
<1>4. CASE DaemonEnds \/ ShutdownTimesOut
  BY <1>4 DEF DaemonEnds, ShutdownTimesOut, BudgetExpires, Gone, Goto
<1>5. CASE WorkerEnds \/ ChildBinds \/ ChildExits \/ ForeignComes \/ ForeignGoes
  BY <1>5 DEF WorkerEnds, ChildBinds, ChildExits, ForeignComes, ForeignGoes
<1> QED
  BY <1>1, <1>2, <1>3, <1>4, <1>5 DEF RuntimeNext, DaemonStep

\* A Worker that is quiet stays quiet.
LEMMA QuietStays ==
    ASSUME RuntimeNext, Quiet, at' # "down"
    PROVE  Quiet'
<1>1. CASE WorkerKept
  BY <1>1 DEF Quiet, WorkerKept
<1>2. CASE Claimed
  <2>1. ~ gate /\ job' = "none"
    BY <1>2 DEF Quiet, Claimed
  <2> QED
    BY <1>2, <2>1 DEF Quiet, Claimed, jobless
<1>3. CASE Executed \/ Cancelled \/ Claim
  BY <1>3 DEF Quiet, Claim, Executed, Cancelled
<1>4. CASE StopRequested \/ WorkerFails
  BY <1>4 DEF Quiet, StopRequested, WorkerFails
<1> QED
  BY <1>1, <1>2, <1>3, <1>4, WorkerSteps

\* Without a daemon, nothing happens but that processes which were left behind go on or exit.
LEMMA DownSteps ==
    ASSUME RuntimeInv, RuntimeNext, at = "down"
    PROVE  ChildBinds \/ ChildExits \/ ForeignComes \/ ForeignGoes
<1>1. ctx = "none" /\ ~ Serving /\ job = "none"
  BY DEF RuntimeInv, Serving
<1> QED
  BY <1>1
  DEF RuntimeNext, DaemonStep, health, Watch, start, Spawn, ollama_start, stop, StartRaises,
      release, GoesOffline, DaemonEnds, StopRequested, WorkerEnds, Claim, Claimed, Executed,
      Cancelled, WorkerFails, ShutdownTimesOut

\* A step of the daemon or of its surroundings.
LEMMA RunsKeeps ==
    ASSUME IInv, Runs
    PROVE  IInv'
<1>0. /\ RuntimeNext /\ RuntimeInv /\ RuntimeInv'
      /\ UNCHANGED <<stopping, cmd, mat, lent, dev, raced>>
  BY RuntimeNextKeeps DEF IInv, Runs, modeVars
<1>1. at = "down" => /\ at' = "down"
                     /\ child = "none" => child' = "none"
                     /\ Alive' => Alive
  BY <1>0, DownSteps
  DEF ChildBinds, ChildExits, ForeignComes, ForeignGoes, processVars, Alive
<1>2. /\ at' = "down" <=> service' # "active"
      /\ at # "down" /\ at' = "down" => service' = "deactivating"
      /\ ~ (at # "down" /\ at' = "down") => service' = service
  BY <1>1 DEF IInv, ModeInv, Runs
<1>3. ModeInv'
  BY <1>0, <1>1, <1>2 DEF IInv, ModeInv
<1>4. ~ died' => ~ died /\ (at # "down" /\ at' = "down" => stopping)
  BY DEF Runs
<1>5. LentInv'
  BY <1>0, <1>1, <1>2, <1>4 DEF IInv, LentInv, ModeInv
<1>6. at' = "down" => job' = "none" /\ sig' = "none"
  BY <1>0 DEF RuntimeInv, Serving
<1>7. sig' = "term" => sig = "term"
  BY <1>0, <1>6, WorkerSteps
  DEF WorkerKept, Claim, Claimed, Executed, Cancelled, StopRequested, WorkerFails, jobless
<1>8. ASSUME ~ raced', ~ died' PROVE (mat' = "stop" \/ stopping') /\ service' = "active" => Quiet'
  BY <1>0, <1>2, <1>4, <1>8, QuietStays DEF IInv, JobInv, ModeInv
<1>9. ASSUME StopRequested, ~ raced, ~ died PROVE Quiet
  BY <1>9 DEF IInv, JobInv, ModeInv, RuntimeInv, StopRequested, Serving, WatchPlaces
<1>10. ASSUME ~ raced', ~ died' PROVE job' = "claiming" /\ draining' => ~ gate'
  <2>0. ~ raced /\ ~ died /\ (job = "claiming" /\ draining => ~ gate)
    BY <1>0, <1>4, <1>10 DEF IInv, JobInv
  <2>1. CASE WorkerKept
    BY <2>0, <2>1 DEF WorkerKept
  <2>2. CASE Claim
    BY <2>2 DEF Claim, jobless
  <2>3. CASE Claimed \/ Executed \/ Cancelled \/ WorkerFails
    BY <2>3 DEF Claimed, Executed, Cancelled, WorkerFails
  <2>4. CASE StopRequested
    BY <1>9, <2>0, <2>4 DEF StopRequested, Quiet
  <2> QED
    BY <1>0, <1>6, <2>1, <2>2, <2>3, <2>4, WorkerSteps
<1>11. ~ raced' /\ ~ died' => ~ cut'
  BY <1>0, <1>4, <1>9 DEF IInv, JobInv, Runs, Quiet
<1> QED
  BY <1>0, <1>3, <1>5, <1>7, <1>8, <1>10, <1>11 DEF IInv, JobInv

\* What is left when the daemon process is gone.
LEMMA DiesFacts ==
    ASSUME RuntimeInv, NEW code, Dies(code)
    PROVE  /\ RuntimeInv'
           /\ at' = "down" /\ sig' = "none" /\ job' = "none"
           /\ service' = "deactivating" /\ child' = child
BY DEF Dies, Gone, RuntimeInv, Goto, Alive, Serving, WatchPlaces

\* The daemon is killed, by whoever does it.
LEMMA CrashKeeps ==
    ASSUME IInv, Crash \/ StopTimesOut
    PROVE  IInv'
<1>0. PICK code : Dies(code) /\ service = "active" /\ RuntimeInv
  BY DEF Crash, StopTimesOut, is_active, IInv
<1>1. /\ RuntimeInv' /\ at' = "down" /\ sig' = "none" /\ job' = "none"
      /\ service' = "deactivating" /\ child' = child
  BY <1>0, DiesFacts
<1>2. /\ UNCHANGED <<stopping, cmd, mat, lent, dev, raced>>
      /\ ~ died' => stopping /\ ~ died
      /\ cut' => cut \/ died' \/ (stopping /\ job = "running")
  <2>1. CASE Crash
    BY <2>1 DEF Crash, modeVars
  <2>2. CASE StopTimesOut
    BY <2>2 DEF StopTimesOut, modeVars
  <2> QED
    BY <2>1, <2>2
<1>3. ModeInv'
  BY <1>0, <1>1, <1>2 DEF IInv, ModeInv
<1>4. LentInv'
  BY <1>0, <1>1, <1>2 DEF IInv, LentInv
<1>5. JobInv'
  <2>1. ~ raced' /\ ~ died' => ~ cut'
    BY <1>0, <1>2 DEF IInv, JobInv, Quiet
  <2> QED
    BY <1>1, <2>1 DEF JobInv
<1> QED
  BY <1>1, <1>3, <1>4, <1>5 DEF IInv

\* The unit is inactive, or waits for its restart.
LEMMA CleanedKeeps ==
    ASSUME IInv, Cleaned
    PROVE  IInv'
<1>0. /\ service = "deactivating" /\ child' = "none" /\ ~ stopping'
      /\ service' = IF exit = "failed" /\ ~ stopping THEN "auto_restart" ELSE "inactive"
      /\ UNCHANGED <<held, at, ctx, gate, draining, job, sig, released, offline, unloaded,
                     cmd, mat, lent, dev, died, raced, cut>>
  BY DEF Cleaned, workerVars, modeVars
<1>1. at = "down" /\ service' \in {"inactive", "auto_restart"}
  BY <1>0 DEF IInv, ModeInv
<1>2. RuntimeInv'
  BY <1>0, <1>1 DEF IInv, RuntimeInv, Alive, Serving
<1>3. ModeInv'
  BY <1>0, <1>1 DEF IInv, ModeInv
<1>4. LentInv'
  <2>1. ~ died => stopping
    BY <1>0 DEF IInv, LentInv
  <2> QED
    BY <1>0, <1>1, <2>1 DEF IInv, LentInv, Alive
<1>5. JobInv'
  BY <1>0, <1>1 DEF IInv, JobInv, RuntimeInv
<1> QED
  BY <1>2, <1>3, <1>4, <1>5 DEF IInv

\* A new daemon starts on a GPU that the old one has left.
LEMMA BootFacts ==
    ASSUME RuntimeInv, child = "none", Boot
    PROVE  /\ RuntimeInv' /\ at' = "health" /\ child' = "none"
           /\ job' = "none" /\ sig' = "none"
BY DEF Boot, Goto, RuntimeInv, Alive, Serving

\* The service is started, by systemd after a failure or by the command.
LEMMA BootKeeps ==
    ASSUME IInv, AutoRestart \/ StartIssued
    PROVE  IInv'
<1>1. ASSUME Boot, service \in {"inactive", "auto_restart"}, service' = "active",
             UNCHANGED <<stopping, cmd, lent, dev, died, raced, cut>>,
             \/ service = "auto_restart" /\ mat' = mat
             \/ mat = "start" /\ mat' = "starting"
      PROVE  IInv'
  <2>0. /\ RuntimeInv' /\ at' = "health" /\ child' = "none" /\ job' = "none" /\ sig' = "none"
        /\ ~ stopping
    BY <1>1, BootFacts DEF IInv, ModeInv
  <2>1. ModeInv'
    BY <1>1, <2>0 DEF IInv, ModeInv
  <2>2. died \/ (mat = "start" /\ ~ dev /\ ~ lent)
    BY <1>1 DEF IInv, LentInv, ModeInv
  <2>3. LentInv'
    BY <1>1, <2>0, <2>2 DEF LentInv, Alive
  <2>4. JobInv'
    BY <1>1, <2>0, <2>2 DEF IInv, JobInv, Quiet
  <2> QED
    BY <2>0, <2>1, <2>3, <2>4 DEF IInv
<1>2. CASE mat = "start" /\ Modes("starting")
  BY <1>2
  DEF IInv, Modes, Mode, RuntimeInv, ModeInv, LentInv, JobInv, Quiet, Alive, Serving, runtimeVars,
      serviceVars, processVars, workerVars, endVars
<1> QED
  BY <1>1, <1>2 DEF AutoRestart, StartIssued, Mode, modeVars

\* A step of the command or of the developers that leaves the service and its daemon alone.
LEMMA ModeOnly ==
    ASSUME IInv, UNCHANGED <<runtimeVars, serviceVars, died, raced, cut>>,
           mat' = "idle" <=> cmd' = "none",
           lent' => mat' = "idle",
           mat' = "start" => ~ dev',
           stopping => mat' = "stopping",
           ~ died /\ (dev' \/ lent') => service # "active" /\ ~ Alive,
           ~ raced /\ ~ died /\ mat' = "stop" /\ service = "active" => Quiet
    PROVE  IInv'
<1>1. UNCHANGED <<child, held, at, ctx, gate, draining, job, sig, released, offline, unloaded,
                  service, stopping>>
  BY DEF runtimeVars, serviceVars, processVars, workerVars, endVars
<1>2. RuntimeInv'
  BY <1>1 DEF IInv, RuntimeInv, Alive, Serving
<1>3. ModeInv'
  BY <1>1 DEF IInv, ModeInv
<1>4. LentInv'
  BY <1>1 DEF IInv, LentInv, Alive
<1>5. JobInv'
  BY <1>1 DEF IInv, JobInv, Quiet
<1> QED
  BY <1>2, <1>3, <1>4, <1>5 DEF IInv

\* The steps of the command that ask the service nothing.
LEMMA CommandKeeps ==
    ASSUME IInv,
           \/ Command("development") \/ Command("astrumweaver")
           \/ Begin \/ WaitDrained \/ StopDone \/ Check \/ WaitReady
    PROVE  IInv'
<1>0. /\ mat = "idle" <=> cmd = "none"
      /\ lent => mat = "idle"
      /\ stopping => mat = "stopping" /\ service \in {"active", "deactivating"}
      /\ ~ died /\ (dev \/ lent) => service # "active" /\ ~ Alive
  BY DEF IInv, ModeInv, LentInv
<1>1. ASSUME NEW c \in {"development", "astrumweaver"}, Command(c) PROVE IInv'
  BY <1>0, <1>1, ModeOnly DEF Command
<1>2. ASSUME Ends(FALSE), ~ stopping PROVE IInv'
  BY <1>0, <1>2, ModeOnly DEF Ends
<1>3. ASSUME NEW next \in {"check", "drain", "draining", "existing"}, Modes(next),
             mat # "idle", ~ stopping
      PROVE  IInv'
  BY <1>0, <1>3, ModeOnly DEF Modes, Mode
<1>4. CASE Begin
  BY <1>0, <1>2, <1>3, <1>4 DEF Begin
<1>5. CASE WaitDrained
  <2>1. CASE drained /\ is_active /\ Modes("stop")
    <3>1. ~ raced /\ ~ died => Quiet
      BY <2>1 DEF IInv, JobInv, drained, SaysDraining, SaysIdle, Quiet
    <3> QED
      BY <1>0, <1>5, <2>1, <3>1, ModeOnly DEF WaitDrained, Modes, Mode
  <2> QED
    BY <1>0, <1>2, <1>3, <1>5, <2>1 DEF WaitDrained
<1>6. CASE StopDone
  BY <1>0, <1>3, <1>6 DEF StopDone
<1>7. CASE Check
  <2>1. CASE GpuIdle /\ ~ is_active /\ Ends(TRUE)
    BY <1>0, <1>7, <2>1, ModeOnly DEF Check, GpuIdle, Busy, is_active, Ends
  <2>2. CASE GpuIdle /\ Modes("start")
    BY <1>0, <1>7, <2>2, ModeOnly DEF Check, GpuIdle, Busy, Modes, Mode
  <2> QED
    BY <1>0, <1>2, <1>7, <2>1, <2>2 DEF Check
<1>8. CASE WaitReady
  BY <1>0, <1>2, <1>8 DEF WaitReady
<1> QED
  BY <1>1, <1>4, <1>5, <1>6, <1>7, <1>8

\* Developers come only to a GPU that is lent.
LEMMA DevKeeps ==
    ASSUME IInv, DevComes \/ DevGoes
    PROVE  IInv'
<1>0. /\ mat = "idle" <=> cmd = "none"
      /\ lent => mat = "idle"
      /\ mat = "start" => ~ dev
      /\ stopping => mat = "stopping"
      /\ ~ died /\ (dev \/ lent) => service # "active" /\ ~ Alive
      /\ ~ raced /\ ~ died /\ mat = "stop" /\ service = "active" => Quiet
  BY DEF IInv, ModeInv, LentInv, JobInv
<1> QED
  BY <1>0, ModeOnly DEF DevComes, DevGoes, modeVars

\* SIGUSR1: the Worker drains, or a daemon that has no handler yet ends.
LEMMA DrainKeeps ==
    ASSUME IInv, request_drain
    PROVE  IInv'
<1>0. mat = "drain" /\ ~ stopping /\ cmd # "none" /\ ~ lent
  BY DEF request_drain, IInv, ModeInv
<1>1. CASE is_active /\ Serving /\ Mode("draining") /\ draining'
  <2>1. /\ UNCHANGED <<child, held, at, ctx, gate, job, sig, released, offline, unloaded,
                       service, stopping, dev, died, cut, cmd, lent>>
        /\ mat' = "draining"
        /\ ~ raced' => ~ raced /\ job # "claiming"
    BY <1>1
    DEF request_drain, Mode, Dies, Ends, processVars, endVars, serviceVars
  <2>2. RuntimeInv'
    BY <2>1 DEF IInv, RuntimeInv, Alive, Serving
  <2>3. ModeInv' /\ LentInv'
    BY <1>0, <1>1, <2>1 DEF IInv, ModeInv, LentInv, Alive
  <2>4. JobInv'
    BY <1>0, <2>1 DEF IInv, JobInv
  <2> QED
    BY <2>2, <2>3, <2>4 DEF IInv
<1>2. CASE is_active /\ Mode("draining") /\ Dies("failed") /\ died' /\ UNCHANGED <<stopping, dev>>
  <2>1. /\ RuntimeInv' /\ at' = "down" /\ sig' = "none" /\ child' = child
        /\ service' = "deactivating"
    BY <1>2, DiesFacts DEF IInv
  <2>2. mat' = "draining" /\ cmd' = cmd /\ lent' = lent
    BY <1>2 DEF Mode
  <2> QED
    BY <1>0, <1>2, <2>1, <2>2 DEF IInv, ModeInv, LentInv, JobInv
<1>3. CASE Ends(FALSE)
  BY <1>0, <1>3, ModeOnly DEF Ends, IInv, LentInv
<1> QED
  BY <1>1, <1>2, <1>3 DEF request_drain

\* SIGTERM, to a Worker that is quiet.
LEMMA StopIssuedKeeps ==
    ASSUME IInv, StopIssued
    PROVE  IInv'
<1>0. /\ mat = "stop" /\ service = "active" /\ stopping' /\ mat' = "stopping"
      /\ UNCHANGED <<cmd, lent, dev, died, raced, cut>>
      /\ cmd # "none" /\ ~ lent
  BY DEF StopIssued, is_active, Mode, IInv, ModeInv
<1>1. CASE Dies("clean")
  <2>1. /\ RuntimeInv' /\ at' = "down" /\ sig' = "none" /\ job' = "none" /\ child' = child
        /\ service' = "deactivating"
    BY <1>1, DiesFacts DEF IInv
  <2>2. ModeInv' /\ LentInv'
    BY <1>0, <2>1 DEF IInv, ModeInv, LentInv, Alive
  <2>3. JobInv'
    BY <1>0, <2>1 DEF IInv, JobInv
  <2> QED
    BY <2>1, <2>2, <2>3 DEF IInv
<1>2. CASE ~ Dies("clean")
  <2>1. /\ UNCHANGED <<child, held, at, ctx, gate, draining, job, released, offline, unloaded,
                       service>>
        /\ at # "down"
    BY <1>0, <1>2
    DEF StopIssued, runtimeVars, processVars, workerVars, endVars, IInv, ModeInv
  <2>2. RuntimeInv'
    BY <2>1 DEF IInv, RuntimeInv, Alive, Serving
  <2>3. ModeInv' /\ LentInv'
    BY <1>0, <2>1 DEF IInv, ModeInv, LentInv, Alive
  <2>4. JobInv'
    BY <1>0, <2>1 DEF IInv, JobInv, Quiet
  <2> QED
    BY <2>2, <2>3, <2>4 DEF IInv
<1> QED
  BY <1>1, <1>2

\* Every step keeps the invariant.
LEMMA NextIInv == IInv /\ [Next]_vars => IInv'
<1> SUFFICES ASSUME IInv, [Next]_vars PROVE IInv'
  OBVIOUS
<1>1. CASE UNCHANGED vars
  BY <1>1
  DEF vars, IInv, RuntimeInv, ModeInv, LentInv, JobInv, Quiet, Alive, Serving, runtimeVars,
      processVars, workerVars, endVars, serviceVars, modeVars
<1>2. CASE Next
  BY <1>2, RunsKeeps, CrashKeeps, CleanedKeeps, BootKeeps, CommandKeeps, DevKeeps, DrainKeeps,
     StopIssuedKeeps
  DEF Next, Systemd, ModeStep
<1> QED
  BY <1>1, <1>2

\* The invariant holds in every state of every behaviour.
LEMMA Inductive == Spec => []IInv
BY InitIInv, NextIInv, PTL DEF Spec

-----------------------------------------------------------------------------
\* Control is told OFFLINE, and the daemon ends by itself, only when no process that it
\* started is left, wherever a start, a stop or a deadline breaks off.
THEOREM ReleasedFirst == Spec => []ReleasedWhenOver
<1>1. IInv => ReleasedWhenOver
  BY DEF IInv, RuntimeInv, ReleasedWhenOver, OfflineMeansReleased, NoProcessLeft
<1> QED
  BY <1>1, Inductive, PTL

\* release() of Ollama never unloads a model at a foreign server.
THEOREM ForeignModelsKept == Spec => []UnloadsOwnOnly
<1>1. IInv => UnloadsOwnOnly
  BY DEF IInv, RuntimeInv, UnloadsOwnOnly
<1> QED
  BY <1>1, Inductive, PTL

\* Developers and the Worker are never on the GPU together, as long as no daemon ended by itself.
THEOREM HandoverExclusive == Spec => []ExclusiveHandover
<1>1. IInv => ExclusiveHandover
  BY DEF IInv, LentInv, ModeInv, RuntimeInv, ExclusiveHandover
<1> QED
  BY <1>1, Inductive, PTL

\* As long as no daemon died and no claim was out when a drain was requested, the service is
\* stopped only after its job has finished.
THEOREM StoppedAfterJob == Spec => []JobsFinish
<1>1. IInv => JobsFinish
  BY DEF IInv, JobInv, JobsFinish
<1> QED
  BY <1>1, Inductive, PTL
=============================================================================
