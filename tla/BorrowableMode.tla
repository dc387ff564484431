---------------------------- MODULE BorrowableMode ----------------------------
(***************************************************************************)
(* BorrowableWorkerController (worker/mode.py): an operator lends the GPU   *)
(* to development and takes it back, while systemd runs the Worker daemon  *)
(* of ManagedRuntime as a service with Restart=on-failure, and developers  *)
(* run their own processes on a GPU they were lent.                        *)
(***************************************************************************)
EXTENDS ManagedRuntime

VARIABLES
    service,    \* "inactive", "active", "deactivating" or "auto_restart"
    stopping,   \* a systemctl stop is under way
    cmd,        \* the command: "none", "development" or "astrumweaver"
    mat,        \* where the command is in its code
    patient,    \* the command was given no drain timeout, the default
    lent,       \* the last command to succeed was development, and none has begun since
    dev,        \* a development process is on the GPU
    died,       \* history: a daemon ended, not on a systemctl stop
    raced,      \* history: a drain was requested while a claim was out
    cut         \* history: a job was ended because of a systemctl stop

serviceVars == <<service, stopping>>
modeVars == <<cmd, mat, patient, lent>>
vars == <<runtimeVars, serviceVars, modeVars, dev, died, raced, cut>>

TypeOK ==
    /\ RuntimeTypeOK
    /\ service \in {"inactive", "active", "deactivating", "auto_restart"}
    /\ (service = "active") = (at # "down")
    /\ (cmd = "none") = (mat = "idle")
    /\ {stopping, patient, lent, dev, died, raced, cut} \subseteq BOOLEAN

Init ==
    /\ RuntimeInit
    /\ service = "inactive" /\ stopping = FALSE
    /\ cmd = "none" /\ mat = "idle" /\ patient = FALSE /\ lent = FALSE
    /\ dev = FALSE /\ died = FALSE /\ raced = FALSE /\ cut = FALSE

\* systemctl is-active: an exit code of 3 while the unit deactivates or waits to restart.
is_active == service = "active"

\* nvidia-smi pmon: any process on the GPU, whoever owns it.
Busy == Alive \/ dev

-----------------------------------------------------------------------------
\* systemd.

\* A step of the daemon or of its surroundings; systemd sees its main process exit.
Runs ==
    /\ RuntimeNext
    /\ service' = IF at # "down" /\ at' = "down" THEN "deactivating" ELSE service
    /\ died' = (died \/ (at # "down" /\ at' = "down" /\ ~ stopping))
    /\ cut' = (cut \/ (StopRequested /\ job = "running"))
    /\ UNCHANGED <<stopping, modeVars, dev, raced>>

\* The daemon is killed, or a signal arrives for which it has no handler yet.
Dies(code) == Gone(code) /\ service' = "deactivating"

Crash ==
    /\ is_active /\ Dies("failed")
    /\ died' = TRUE
    /\ UNCHANGED <<stopping, modeVars, dev, raced, cut>>

\* What is left in the control group is killed before the unit is inactive.
Cleaned ==
    /\ service = "deactivating"
    /\ child' = "none" /\ exit' = "clean"
    /\ service' = IF exit = "failed" /\ ~ stopping THEN "auto_restart" ELSE "inactive"
    /\ stopping' = FALSE
    /\ UNCHANGED <<provider, held, foreign, at, ctx, reply, workerVars, closed, released, failing,
                   offline, unloaded, modeVars, dev, died, raced, cut>>

\* TimeoutStopSec has passed.
StopTimesOut ==
    /\ is_active /\ stopping /\ Dies("failed")
    /\ cut' = (cut \/ job = "running")
    /\ UNCHANGED <<stopping, modeVars, dev, died, raced>>

\* RestartSec has passed.
AutoRestart ==
    /\ service = "auto_restart" /\ Boot
    /\ service' = "active"
    /\ UNCHANGED <<stopping, modeVars, dev, died, raced, cut>>

-----------------------------------------------------------------------------
\* The controller.

Command(c) ==
    /\ cmd = "none" /\ cmd' = c /\ mat' = "begin" /\ patient' \in BOOLEAN /\ lent' = FALSE
    /\ UNCHANGED <<runtimeVars, serviceVars, dev, died, raced, cut>>

\* The drain timeout is looked at in the wait for the drain and is forgotten behind it.
Mode(next) ==
    /\ mat' = next /\ patient' = (patient /\ next \in {"drain", "draining"})
    /\ UNCHANGED <<cmd, lent>>
Modes(next) == Mode(next) /\ UNCHANGED <<runtimeVars, serviceVars, dev, died, raced, cut>>

\* The command ends, with a ModeReport or an error.
Ends(lends) ==
    /\ cmd' = "none" /\ mat' = "idle" /\ patient' = FALSE /\ lent' = lends
    /\ UNCHANGED <<runtimeVars, serviceVars, dev, died, raced, cut>>

\* GET /health answers while the Worker serves; the failed gate of its runtime also drains it.
SaysDraining == Serving /\ (draining \/ ~ gate)
SaysIdle == Serving /\ job # "running"

\* Mutant: the Worker has drained as soon as it says so.
Mut_drained == ~ is_active \/ SaysDraining

\* The predicate drained() of both commands.
drained == ~ is_active \/ (SaysDraining /\ SaysIdle)

\* request_drain: SIGUSR1, which ends a daemon that has no handler for it yet.
request_drain ==
    /\ mat = "drain"
    /\ \/ /\ is_active /\ Serving /\ Mode("draining")
          /\ draining' = TRUE /\ raced' = (raced \/ job = "claiming")
          /\ UNCHANGED <<provider, processVars, foreign, at, ctx, reply, gate, job, sig, endVars,
                         serviceVars, dev, died, cut>>
       \/ /\ is_active /\ ~ Serving /\ Mode("draining")
          /\ Dies("failed") /\ died' = TRUE
          /\ UNCHANGED <<stopping, dev, raced, cut>>
       \/ ~ is_active /\ Ends(FALSE)

\* systemctl stop: SIGTERM, which ends a daemon without a handler; the command waits.
StopIssued ==
    /\ mat = "stop" /\ is_active
    /\ stopping' = TRUE /\ Mode("stopping")
    /\ IF Serving
       THEN /\ sig' = IF sig = "none" THEN "term" ELSE sig
            /\ UNCHANGED <<provider, processVars, foreign, at, ctx, reply, gate, draining, job,
                           endVars, service>>
       ELSE IF ctx \in {"worker", "daemon"}     \* on its way out already
       THEN UNCHANGED <<runtimeVars, service>>
       ELSE Dies("clean")
    /\ UNCHANGED <<dev, died, raced, cut>>

\* The branches of to_development and to_astrumweaver on is_active().
Begin ==
    /\ mat = "begin"
    /\ \/ ~ is_active /\ Modes("check")
       \/ is_active /\ cmd = "development" /\ Modes("drain")
       \/ is_active /\ cmd = "astrumweaver" /\ Modes(IF SaysDraining THEN "draining" ELSE "existing")

\* Mutant: a drain timeout that was given is not looked at.
Mut_WaitDrained == mat = "draining" /\ drained /\ Modes(IF is_active THEN "stop" ELSE "check")

\* _wait(drained), for as long as it takes or up to the drain timeout, and the stop that
\* follows.
WaitDrained ==
    /\ mat = "draining"
    /\ \/ drained /\ Modes(IF is_active THEN "stop" ELSE "check")
       \/ ~ drained /\ ~ patient /\ Ends(FALSE)

\* The service stopped by itself before systemctl stop, or is inactive after it.
StopDone ==
    /\ \/ mat = "stop" /\ ~ is_active
       \/ mat = "stopping" /\ service \in {"inactive", "auto_restart"}
    /\ Modes("check")

\* Mutant: only a Worker that is lent is asked for the processes on its GPU.
Mut_GpuIdle == cmd = "astrumweaver" \/ ~ Busy

\* active_processes() is empty on the GPUs of the Worker.
GpuIdle == ~ Busy

\* The checks behind both commands: still active (development only), identity, busy GPU.
Check ==
    /\ mat = "check"
    /\ \/ GpuIdle /\ (cmd = "development" => ~ is_active) /\ cmd = "development" /\ Ends(TRUE)
       \/ GpuIdle /\ cmd = "astrumweaver" /\ Modes("start")
       \/ Ends(FALSE)      \* busy, active again, or the GPU cannot be inspected

\* systemctl start, which also ends the wait for an automatic restart.
StartIssued ==
    /\ mat = "start"
    /\ \/ /\ service \in {"inactive", "auto_restart"} /\ Boot
          /\ service' = "active" /\ Mode("starting")
          /\ UNCHANGED <<stopping, dev, died, raced, cut>>
       \/ service \in {"active", "deactivating"} /\ Modes("starting")

\* _wait(is_active), _wait(ready): the Worker is ready, or the start timeout has passed.
WaitReady == mat \in {"starting", "existing"} /\ Ends(FALSE)

ModeStep ==
    \/ Begin \/ request_drain \/ WaitDrained \/ StopIssued \/ StopDone
    \/ Check \/ StartIssued \/ WaitReady

\* Developers use the GPU only while it is lent to them, and may stay longer.
DevComes ==
    /\ lent /\ ~ dev /\ dev' = TRUE
    /\ UNCHANGED <<runtimeVars, serviceVars, modeVars, died, raced, cut>>

DevGoes ==
    /\ dev /\ dev' = FALSE
    /\ UNCHANGED <<runtimeVars, serviceVars, modeVars, died, raced, cut>>

Systemd == Cleaned \/ StopTimesOut \/ AutoRestart

Next ==
    \/ Runs \/ Crash \/ Systemd
    \/ Command("development") \/ Command("astrumweaver") \/ ModeStep
    \/ DevComes \/ DevGoes

DaemonRuns == Runs /\ DaemonStep

Spec == Init /\ [][Next]_vars
FairSpec == Spec /\ WF_vars(DaemonRuns) /\ WF_vars(ModeStep) /\ WF_vars(Cleaned) /\ WF_vars(StopTimesOut)

-----------------------------------------------------------------------------
\* docs/borrowable-worker.md, "an exclusive ownership handoff": when developers keep to what they
\* are lent, their processes and those of the Worker are never on the GPU together, unless a
\* daemon ended by itself and is restarted (see LentGpuStaysFree).
ExclusiveHandover == ~ died => ~ (dev /\ Alive)

\* The same without that exception: "The mode switch succeeds only when the relevant transition
\* can be verified", so a GPU that was lent stays free of the Worker.
LentGpuStaysFree == ~ (dev /\ Alive)

\* A service that had no claim out when the drain was requested, and whose daemon did not die,
\* is stopped only after its job has finished.
JobsFinish == ~ raced /\ ~ died => ~ cut

\* Violated.  docs/borrowable-worker.md:27,34: the active job is allowed "to finish normally"
\* and the command does not "force a long-running job", whatever was on its way when the
\* operator gave it.
NoJobForced == ~ died => ~ cut

\* A command with a drain timeout ends, also when the Worker does not stop by itself.  One
\* without ends or stays in the wait for the drain for good; nothing else holds it up.
CommandEnds ==
    (cmd # "none") ~> (cmd = "none" \/ [](patient /\ mat = "draining"))
=============================================================================
