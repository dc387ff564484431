---------------------------- MODULE WorkerRuntime ----------------------------
(***************************************************************************)
(* One Worker process and Control: WorkerRuntime (worker/runtime.py), the  *)
(* calls of ControlClient (worker/client.py), the shutdown of the daemon   *)
(* (worker/daemon.py), Control's handlers (control/api.py) on the tables   *)
(* of ControlContract, and the health gate.                                *)
(*                                                                         *)
(* A step is what a coroutine does between two awaits.  Every call of the  *)
(* client is made under _control_lock and nothing else is awaited there,   *)
(* so the lock is held exactly while a call is under way: rpc # NoRpc.     *)
(* A call that is given up may still be executed by Control later.         *)
(***************************************************************************)
EXTENDS ControlContract, HealthGate

CONSTANTS
    Me,                 \* the worker's id
    MySpec,             \* its WorkerSpec
    OtherSpec,          \* the WorkerSpec of the other workers, which are enrolled
    HeartbeatInterval,  \* heartbeat_interval_seconds
    RequestTimeout,     \* request_timeout_seconds
    MaxSignals,         \* bound: SIGUSR1 signals
    MaxLate             \* bound: abandoned requests that are still on their way

ASSUME WorkerAssumption ==
    /\ Me \in WorkerIds /\ MySpec \in Specs /\ OtherSpec \in Specs
    /\ HeartbeatInterval \in Nat \ {0} /\ RequestTimeout \in Nat \ {0}
    /\ MaxSignals \in Nat /\ MaxLate \in Nat

VARIABLES
    main,              \* where run_forever is
    exec,              \* the executor's task
    active,            \* _active
    draining, stop,    \* _draining, _stop
    registered, control_state, valid_until, next_heartbeat_at,
    rpc,               \* the call under way
    late_requests,     \* abandoned requests that Control has not executed yet
    drain,             \* the calls of drain(), by the signal loop and the daemon
    usr1, signals,     \* drain_signal is set; signals so far
    daemon,            \* where run_worker is
    process            \* the owned runtime process holds the GPU: "running"

ack == <<registered, control_state, valid_until, next_heartbeat_at>>
intent == <<draining, stop>>
drains == <<drain, usr1, signals>>
wvars == <<vars, gate, main, exec, active, intent, ack, rpc, late_requests, drains,
           daemon, process>>

Drainers == {"signal", "daemon"}
Outcomes == {"result", "error", "invalid"}
NoClaim == [job |-> 0, token |-> NoToken]
NoRpc == [by |-> "nobody", kind |-> "none", state |-> "none", claim |-> NoClaim,
          sent_at |-> 0, reply |-> "none"]

\* Attempts that end: with the reason, in the finally of _execute_claim.
Cleanups == {"written", "return", "unavailable", "abandon", "abandon_missing", "cancelled"}

\* Control has no row for this worker yet and has jobs in its queue.
WInit ==
    /\ workers = [w \in WorkerIds |->
           IF w = Me THEN NoWorkerRecord
           ELSE [NoWorkerRecord EXCEPT !.spec = OtherSpec, !.max_concurrency = 1,
                                       !.state = "online"]]
    /\ \E s \in Submissions : jobs = [j \in JobIds |-> NewJob(s, 0)]
    /\ leases_issued = 0 /\ clock = 0
    /\ GateInit
    /\ main = "starting" /\ exec = "none" /\ active = NoClaim
    /\ draining = FALSE /\ stop = FALSE
    /\ registered = FALSE /\ control_state = "none"
    /\ valid_until = 0 /\ next_heartbeat_at = 0
    /\ rpc = NoRpc /\ late_requests = {}
    /\ drain = [d \in Drainers |-> "idle"] /\ usr1 = FALSE /\ signals = 0
    /\ daemon = "running" /\ process = "running"

-----------------------------------------------------------------------------
(* Calls                                                                   *)

LockFree == rpc = NoRpc
Unlock == rpc' = NoRpc

Call(by, kind, state, claim) ==
    rpc' = [by |-> by, kind |-> kind, state |-> state, claim |-> claim,
            sent_at |-> clock, reply |-> "pending"]

\* The call that by made is answered, refused or given up.
Answered(by) == rpc.by = by /\ rpc.reply # "pending"

Errors == {"conflict", "missing", "unavailable"}   \* 409, 404, 0 and 5xx
Refused == rpc.reply \in Errors

\* _acknowledge_control counts the validity from the start of the request.
AckValidUntil == rpc.sent_at + HeartbeatInterval + RequestTimeout

ControlFailed(code) ==
    /\ valid_until' = 0
    /\ registered' = (registered /\ code # "missing")
    /\ next_heartbeat_at' = clock + HeartbeatInterval
    /\ UNCHANGED control_state

\* The end of register() or _heartbeat_locked().
Acknowledge ==
    IF Refused THEN ControlFailed(rpc.reply)
    ELSE /\ registered' = TRUE
         /\ control_state' = rpc.reply
         /\ valid_until' = AckValidUntil
         /\ next_heartbeat_at' = clock + HeartbeatInterval

Due == clock >= next_heartbeat_at

\* _heartbeat_locked, with the acknowledgement it looks at.
heartbeat(by, valid, state) ==
    Call(by, "heartbeat",
         IF (draining \/ gate = "failed") /\ clock < valid /\ state # "offline"
         THEN "draining" ELSE "unchanged",
         active)

\* Mutant: the local drain request is forgotten.
Mut_Ready(known, valid, state) ==
    ~ stop /\ known /\ clock < valid /\ state = "online" /\ gate = "ready"

\* The property ready.
Ready(known, valid, state) ==
    ~ stop /\ known /\ ~ draining /\ clock < valid /\ state = "online" /\ gate = "ready"

-----------------------------------------------------------------------------
(* run_forever                                                             *)

\* The supervisor has made its first probe.
Started ==
    /\ main = "starting" /\ gate # "starting"
    /\ main' = IF gate = "ready" THEN "register" ELSE "stop_wait"
    /\ UNCHANGED <<rpc, ack, exec, active>>

StopAwaited ==
    /\ main = "stop_wait" /\ stop
    /\ main' = "closing"
    /\ UNCHANGED <<rpc, ack, exec, active>>

register ==
    /\ main = "register" /\ LockFree
    /\ Call("owner", "register", "online", NoClaim)
    /\ main' = "registering"
    /\ UNCHANGED <<ack, exec, active>>

\* A worker that is draining already says so at once, under the same lock.
RegisterAnswered ==
    /\ main = "registering" /\ Answered("owner")
    /\ Acknowledge
    /\ IF Refused THEN Unlock /\ main' = "closing"
       ELSE IF draining
       THEN heartbeat("owner", AckValidUntil, rpc.reply) /\ main' = "register_hb"
       ELSE Unlock /\ main' = "loop"
    /\ UNCHANGED <<exec, active>>

RegisterHeartbeatAnswered ==
    /\ main = "register_hb" /\ Answered("owner")
    /\ Acknowledge /\ Unlock
    /\ main' = IF Refused THEN "closing" ELSE "loop"
    /\ UNCHANGED <<exec, active>>

\* The condition of the loop.
Loop ==
    /\ main = "loop"
    /\ main' = IF stop THEN "closing" ELSE "beat"
    /\ UNCHANGED <<rpc, ack, exec, active>>

\* _heartbeat_if_due
HeartbeatIfDue ==
    /\ main = "beat" /\ LockFree
    /\ IF Due THEN heartbeat("owner", valid_until, control_state) /\ main' = "loop_hb"
       ELSE main' = "claim" /\ UNCHANGED rpc
    /\ UNCHANGED <<ack, exec, active>>

LoopHeartbeatAnswered ==
    /\ main = "loop_hb" /\ Answered("owner")
    /\ Acknowledge /\ Unlock
    /\ main' = IF Refused THEN "poll" ELSE "claim"
    /\ UNCHANGED <<exec, active>>

SendClaim == Call("owner", "claim", "none", NoClaim) /\ main' = "claiming"

\* Ready is looked at again under the lock.
Claim ==
    /\ main = "claim" /\ LockFree
    /\ IF ~ Ready(registered, valid_until, control_state)
       THEN main' = "poll" /\ UNCHANGED rpc
       ELSE IF Due THEN heartbeat("owner", valid_until, control_state) /\ main' = "claim_hb"
       ELSE SendClaim
    /\ UNCHANGED <<ack, exec, active>>

ClaimHeartbeatAnswered ==
    /\ main = "claim_hb" /\ Answered("owner")
    /\ Acknowledge
    /\ IF Refused THEN Unlock /\ main' = "poll"
       ELSE IF Ready(TRUE, AckValidUntil, rpc.reply) THEN SendClaim
       ELSE Unlock /\ main' = "loop"
    /\ UNCHANGED <<exec, active>>

\* A claimed job is executed if the runtime is still well.
ClaimAnswered ==
    /\ main = "claiming" /\ Answered("owner")
    /\ Unlock
    /\ IF Refused THEN ControlFailed(rpc.reply) ELSE UNCHANGED ack
    /\ IF rpc.reply = "job" /\ gate = "ready"
       THEN active' = rpc.claim /\ exec' = "running" /\ main' = "exec"
       ELSE main' = "poll" /\ UNCHANGED <<active, exec>>

\* _wait_for_poll ends: stopped, or the poll interval or the heartbeat is over.
Polled ==
    /\ main = "poll"
    /\ main' = "loop"
    /\ UNCHANGED <<rpc, ack, exec, active>>

-----------------------------------------------------------------------------
(* _execute_claim                                                          *)

\* Mutant: an attempt is not given up while Control cannot be reached.
Mut_AfterError ==
    main' = CASE rpc.reply = "conflict" -> "inspect"
              [] rpc.reply = "missing" -> "abandon_missing"
              [] OTHER -> "exec"

\* Where a refused call leads.
AfterError ==
    main' = CASE rpc.reply = "conflict" -> "inspect"
              [] rpc.reply = "missing" -> "abandon_missing"
              [] OTHER -> "abandon"

\* _require_runtime
RuntimeLost ==
    /\ main = "exec" /\ gate # "ready"
    /\ main' = "unavailable"
    /\ UNCHANGED <<rpc, ack, exec, active>>

ExecHeartbeat ==
    /\ main = "exec" /\ exec = "running" /\ gate = "ready"
    /\ Due /\ LockFree
    /\ heartbeat("owner", valid_until, control_state)
    /\ main' = "exec_hb"
    /\ UNCHANGED <<ack, exec, active>>

ExecHeartbeatAnswered ==
    /\ main = "exec_hb" /\ Answered("owner")
    /\ Acknowledge /\ Unlock
    /\ IF Refused THEN AfterError ELSE main' = "exec"
    /\ UNCHANGED <<exec, active>>

\* The executor's task is done; after an error the runtime is probed first.
Executed ==
    /\ main = "exec" /\ exec \in Outcomes /\ gate = "ready"
    /\ main' = IF exec = "error" THEN "probe" ELSE "final"
    /\ UNCHANGED <<rpc, ack, exec, active>>

Probed ==
    /\ main = "probe"
    /\ main' = IF gate = "ready" THEN "final" ELSE "unavailable"
    /\ UNCHANGED <<rpc, ack, exec, active>>

\* The terminal write, if runtime and authority are confirmed.
Write(valid) ==
    IF gate # "ready" THEN Unlock /\ main' = "unavailable"
    ELSE IF clock >= valid THEN Unlock /\ main' = "abandon"
    ELSE /\ Call("owner", IF exec = "result" THEN "complete" ELSE "fail", exec, active)
         /\ main' = "writing"

Final ==
    /\ main = "final" /\ LockFree
    /\ IF Due THEN heartbeat("owner", valid_until, control_state) /\ main' = "final_hb"
       ELSE Write(valid_until)
    /\ IF main' = "abandon" THEN ControlFailed("unavailable") ELSE UNCHANGED ack
    /\ UNCHANGED <<exec, active>>

FinalHeartbeatAnswered ==
    /\ main = "final_hb" /\ Answered("owner")
    /\ IF Refused THEN Unlock /\ AfterError ELSE Write(AckValidUntil)
    /\ IF main' = "abandon" THEN ControlFailed("unavailable") ELSE Acknowledge
    /\ UNCHANGED <<exec, active>>

\* Mutant: the attempt is left to the cleanup.
Mut_Written == UNCHANGED active

\* A waiting drain must not renew the lease that is over.
Written == active' = NoClaim

WriteAnswered ==
    /\ main = "writing" /\ Answered("owner")
    /\ Unlock
    /\ IF Refused THEN ControlFailed(rpc.reply) /\ AfterError /\ UNCHANGED active
       ELSE Written /\ main' = "written" /\ UNCHANGED ack
    /\ UNCHANGED exec

\* After a conflict: was the job cancelled?
Inspect ==
    /\ main = "inspect" /\ LockFree
    /\ Call("owner", "inspect", "none", active)
    /\ main' = "inspecting"
    /\ UNCHANGED <<ack, exec, active>>

InspectAnswered ==
    /\ main = "inspecting" /\ Answered("owner")
    /\ Unlock
    /\ main' = CASE rpc.reply = "cancelled" -> "return"
                 [] rpc.reply = "missing" -> "abandon_missing"
                 [] OTHER -> "abandon"
    /\ UNCHANGED <<ack, exec, active>>

\* The finally of _execute_claim, with the handlers of run_forever's loop.
Cleanup ==
    /\ main \in Cleanups
    /\ exec' = "none" /\ active' = NoClaim
    /\ main' = CASE main \in {"written", "return"} -> "loop"
                 [] main = "cancelled" -> "closing"
                 [] OTHER -> "poll"
    /\ CASE main = "abandon" -> ControlFailed("unavailable")
         [] main = "abandon_missing" -> ControlFailed("missing")
         [] OTHER -> UNCHANGED ack
    /\ UNCHANGED rpc

-----------------------------------------------------------------------------
(* The finally of run_forever                                              *)

Closing ==
    /\ main = "closing"
    /\ stop' = TRUE /\ draining' = TRUE
    /\ valid_until' = 0
    /\ gate' = "stopped"
    /\ main' = "release"
    /\ UNCHANGED <<registered, control_state, next_heartbeat_at, rpc, exec, active, process>>

\* Mutant: the GPU's reservation is given back although the process still runs.
Mut_Release ==
    /\ main = "release"
    /\ process' \in {"running", "stopped"}
    /\ main' = "offline"
    /\ UNCHANGED <<gate, intent, ack, rpc, exec, active>>

\* shutdown_owned: when it fails, OFFLINE is not reported.
Release ==
    /\ main = "release"
    /\ process' \in {"running", "stopped"}
    /\ main' = IF process' = "stopped" THEN "offline" ELSE "ended"
    /\ UNCHANGED <<gate, intent, ack, rpc, exec, active>>

ReportOffline ==
    /\ main = "offline" /\ LockFree
    /\ IF registered
       THEN Call("owner", "set_state", "offline", NoClaim) /\ main' = "offlining"
       ELSE main' = "ended" /\ UNCHANGED rpc
    /\ UNCHANGED <<gate, intent, ack, exec, active, process>>

OfflineReported ==
    /\ main = "offlining" /\ Answered("owner")
    /\ Unlock
    /\ registered' = FALSE
    /\ main' = "ended"
    /\ UNCHANGED <<gate, intent, control_state, valid_until, next_heartbeat_at, exec, active,
                   process>>

Owner ==
    /\ \/ /\ \/ Started \/ StopAwaited \/ register \/ RegisterAnswered
             \/ RegisterHeartbeatAnswered \/ Loop \/ HeartbeatIfDue
             \/ LoopHeartbeatAnswered \/ Claim \/ ClaimHeartbeatAnswered \/ ClaimAnswered
             \/ Polled \/ RuntimeLost
             \/ ExecHeartbeat \/ ExecHeartbeatAnswered \/ Executed \/ Probed \/ Final
             \/ FinalHeartbeatAnswered \/ WriteAnswered \/ Inspect \/ InspectAnswered
             \/ Cleanup
          /\ UNCHANGED <<gate, intent, process>>
       \/ Closing \/ Release \/ ReportOffline \/ OfflineReported
    /\ UNCHANGED <<vars, late_requests, drains, daemon>>

\* The executor's task ends by itself; it may also run forever.
ExecutionEnds ==
    /\ exec = "running"
    /\ exec' \in Outcomes
    /\ UNCHANGED <<vars, gate, main, active, intent, ack, rpc, late_requests, drains, daemon,
                   process>>

-----------------------------------------------------------------------------
(* Signals and the daemon                                                  *)

\* SIGUSR1: request_drain, and the event for the signal loop.
Usr1 ==
    /\ signals < MaxSignals /\ daemon # "ended"
    /\ signals' = signals + 1
    /\ usr1' = TRUE /\ draining' = TRUE
    /\ UNCHANGED <<vars, gate, main, exec, active, stop, ack, rpc, late_requests, drain,
                   daemon, process>>

SignalLoop ==
    /\ usr1 /\ drain["signal"] = "idle" /\ daemon # "ended"
    /\ usr1' = FALSE
    /\ drain' = [drain EXCEPT !["signal"] = "waiting"]
    /\ UNCHANGED <<rpc, ack, signals, stop, draining, daemon, main, late_requests, process>>

\* drain(): a heartbeat of its own.
DrainCall(d) ==
    /\ drain[d] = "waiting" /\ LockFree
    /\ IF registered /\ ~ stop
       THEN /\ heartbeat(d, valid_until, control_state)
            /\ drain' = [drain EXCEPT ![d] = "calling"]
       ELSE drain' = [drain EXCEPT ![d] = "idle"] /\ UNCHANGED rpc
    /\ UNCHANGED <<ack, usr1, signals, stop, draining, daemon, main, late_requests, process>>

\* Its failure is suppressed by both callers.
DrainAnswered(d) ==
    /\ drain[d] = "calling" /\ Answered(d)
    /\ Acknowledge /\ Unlock
    /\ drain' = [drain EXCEPT ![d] = "idle"]
    /\ UNCHANGED <<usr1, signals, stop, draining, daemon, main, late_requests, process>>

\* SIGTERM or SIGINT
Sigterm ==
    /\ daemon = "running"
    /\ draining' = TRUE
    /\ IF registered
       THEN /\ daemon' = "draining"
            /\ drain' = [drain EXCEPT !["daemon"] = "waiting"]
            /\ UNCHANGED stop
       ELSE daemon' = "joining" /\ stop' = TRUE /\ UNCHANGED drain
    /\ UNCHANGED <<vars, gate, main, exec, active, ack, rpc, late_requests, usr1, signals,
                   process>>

\* A call whose caller goes away: its request is lost, or stays on its way.
GiveUp ==
    late_requests' \in {late_requests} \cup
        (IF rpc.reply = "pending" /\ Cardinality(late_requests) < MaxLate
         THEN {late_requests \cup {[rpc EXCEPT !.by = "nobody", !.sent_at = 0]}} ELSE {})

\* worker_task.cancel(), in an attempt.  The cleanup of one that ends already may
\* swallow it.
CancelOwner ==
    /\ main' \in (IF main \in Cleanups THEN {main} ELSE {}) \cup {"cancelled"}
    /\ IF rpc.by = "owner" THEN Unlock /\ GiveUp ELSE UNCHANGED <<rpc, late_requests>>

\* Mutant: the grace period ends without the forced cancel.
Mut_GraceOver ==
    /\ daemon = "draining" /\ drain["daemon"] = "idle"
    /\ stop' = TRUE /\ draining' = TRUE
    /\ daemon' = "joining"
    /\ UNCHANGED <<main, rpc, late_requests, ack, drains, process>>

\* The attempt is over, or the grace period is: then it is cancelled.
GraceOver ==
    /\ daemon = "draining" /\ drain["daemon"] = "idle"
    /\ stop' = TRUE /\ draining' = TRUE
    /\ daemon' = "joining"
    /\ IF active # NoClaim THEN CancelOwner ELSE UNCHANGED <<main, rpc, late_requests>>
    /\ UNCHANGED <<ack, drains, process>>

\* run_worker ends with the worker's task and stops the runtime once more.
DaemonEnds ==
    /\ main = "ended" /\ daemon \in {"running", "joining"}
    /\ daemon' = "ended"
    /\ stop' = TRUE /\ draining' = TRUE
    /\ drain' = [drain EXCEPT !["signal"] = "idle"]
    /\ IF rpc.by = "signal" THEN Unlock /\ GiveUp ELSE UNCHANGED <<rpc, late_requests>>
    /\ process' \in {process, "stopped"}
    /\ UNCHANGED <<ack, usr1, signals, main>>

Daemon ==
    /\ \/ SignalLoop
       \/ \E d \in Drainers : DrainCall(d) \/ DrainAnswered(d)
       \/ GraceOver \/ DaemonEnds
    /\ UNCHANGED <<vars, gate, exec, active>>

-----------------------------------------------------------------------------
(* Control and the network                                                 *)

ReplyTo(r, reply) == IF r = rpc THEN rpc' = [rpc EXCEPT !.reply = reply] ELSE UNCHANGED rpc

HeartbeatFits(r) ==
    /\ HeartbeatAllowed(Me, r.state)
    /\ r.claim # NoClaim => assert_running(r.claim.job, Me, r.claim.token, clock)

\* Control's handlers.
Handle(r) ==
    \/ /\ r.kind = "register"
       /\ IF gpu_ownership_available(Me, MySpec)
          THEN register_worker(Me, MySpec, 1, clock) /\ ReplyTo(r, "online")
          ELSE UNCHANGED vars /\ ReplyTo(r, "conflict")
    \/ /\ r.kind = "heartbeat"
       /\ IF HeartbeatFits(r)
          THEN /\ IF r.claim = NoClaim THEN heartbeat_worker(Me, r.state, clock)
                  ELSE heartbeat_lease(Me, r.state, r.claim.job, r.claim.token, clock)
               /\ ReplyTo(r, HeartbeatState(Me, r.state))
          ELSE UNCHANGED vars /\ ReplyTo(r, "conflict")
    \/ /\ r.kind = "claim"
       /\ \E j \in JobIds : claim_next_job(j, Me, clock)
             /\ rpc' = IF r = rpc
                       THEN [rpc EXCEPT !.reply = "job",
                                        !.claim = [job |-> j, token |-> leases_issued']]
                       ELSE rpc
    \/ /\ r.kind = "claim"
       /\ ~ (Claiming(Me, clock) /\ \E j \in JobIds : eligible(j, Me, clock))
       /\ IF Stale(workers[Me], clock) /\ workers[Me].state \in LiveStates
          THEN retire_claimer(Me) ELSE UNCHANGED vars
       /\ ReplyTo(r, "empty")
    \/ /\ r.kind \in {"complete", "fail"}
       /\ IF assert_running(r.claim.job, Me, r.claim.token, clock)
          THEN /\ IF r.kind = "complete"
                  THEN complete_job(r.claim.job, Me, r.claim.token, clock)
                  ELSE fail_job(r.claim.job, Me, r.claim.token, r.state = "error", clock)
               /\ ReplyTo(r, "ok")
          ELSE UNCHANGED vars /\ ReplyTo(r, "conflict")
    \/ /\ r.kind = "inspect"
       /\ ReplyTo(r, IF jobs[r.claim.job].assigned_worker_id \notin {NoWorker, Me} THEN "missing"
                     ELSE IF jobs[r.claim.job].status = "cancelled" THEN "cancelled"
                     ELSE "other")
       /\ UNCHANGED vars
    \/ /\ r.kind = "set_state"
       /\ set_worker_state(Me, "offline", clock)
       /\ ReplyTo(r, "ok")

Serve ==
    /\ rpc # NoRpc /\ rpc.reply = "pending"
    /\ Handle(rpc)
    /\ UNCHANGED late_requests

ServeLate ==
    \E r \in late_requests : Handle(r) /\ late_requests' = late_requests \ {r}

\* The request or its answer is lost, or the request times out.
Unanswered ==
    /\ rpc # NoRpc /\ rpc.reply # "unavailable"
    /\ rpc' = [rpc EXCEPT !.reply = "unavailable"]
    /\ GiveUp
    /\ UNCHANGED vars

\* The maintenance loop, a client's cancel, an operator and another worker.
Others ==
    /\ \/ expire_stale_workers({Me}, clock)
       \/ \E j \in JobIds : recover_expired_jobs({j}, clock) \/ cancel_job(j)
       \/ \E s \in RequestedStates : set_worker_state(Me, s, clock)
       \/ \E j \in JobIds, w \in WorkerIds \ {Me} :
             \/ claim_next_job(j, w, clock)
             \/ complete_job(j, w, jobs[j].lease_token, clock)
    /\ UNCHANGED <<rpc, late_requests>>

Control ==
    /\ Serve \/ ServeLate \/ Unanswered \/ Others
    /\ UNCHANGED <<gate, main, exec, active, intent, ack, drains, daemon, process>>

Health ==
    /\ Opens \/ Fails
    /\ UNCHANGED <<vars, main, exec, active, intent, ack, rpc, late_requests, drains, daemon,
                   process>>

\* A step of the event loop that is due: a call at its timeout, a heartbeat, the end of
\* an attempt.  A reply may be on its way for as long as the timeout allows.
Lagging ==
    \/ rpc # NoRpc /\ clock >= rpc.sent_at + RequestTimeout
    \/ main = "exec" /\ LockFree /\ Due
    \/ main = "inspect" /\ LockFree
    \/ main \in Cleanups
    \/ LockFree /\ \E d \in Drainers : drain[d] = "waiting"

Older(time, oldest) == IF time > oldest THEN time - 1 ELSE time

\* Time passes: every timestamp gets older, as long as a comparison can tell.
WTick ==
    /\ ~ Lagging
    /\ workers' = [w \in WorkerIds |-> [workers[w] EXCEPT !.last_seen_at =
           IF w = Me /\ Registered(w) THEN Older(@, -(WorkerTtl + 1)) ELSE @]]
    /\ jobs' = [j \in JobIds |-> [jobs[j] EXCEPT !.lease_expires_at =
           IF jobs[j].status = "running" THEN Older(@, 0) ELSE @]]
    /\ valid_until' = Older(valid_until, 0)
    /\ next_heartbeat_at' = Older(next_heartbeat_at, 0)
    /\ rpc' = IF LockFree THEN rpc ELSE [rpc EXCEPT !.sent_at = Older(@, -RequestTimeout)]
    /\ UNCHANGED <<leases_issued, clock, gate, main, exec, active, intent, registered,
                   control_state, late_requests, drains, daemon, process>>

WNext ==
    Owner \/ ExecutionEnds \/ Usr1 \/ Sigterm \/ Daemon \/ Control \/ Health \/ WTick

WSpec == WInit /\ [][WNext]_wvars

\* A coroutine that can run is run, the supervisor's first probe and every request
\* come to an end (both have a time limit), and so does the grace period.
WFairness ==
    /\ WF_wvars(Owner) /\ WF_wvars(Daemon) /\ WF_wvars(Health /\ gate = "starting")
    /\ WF_wvars(Unanswered /\ Control)
WFairSpec == WSpec /\ WFairness

-----------------------------------------------------------------------------
(* Properties                                                              *)

\* A lease outlasts what an attempt may have to wait for after its last renewal.  The
\* answer to the renewal may take a timeout; then the interval passes.  Each call of
\* drain() that fails puts the next heartbeat off, by its timeout and one more interval
\* (one call for SIGTERM, one for each SIGUSR1); the heartbeat takes a timeout to fail.
\* Or the heartbeat ends in a conflict, and the inspection of the job waits for a
\* timeout, behind the drains.
LeaseOutlasts ==
    /\ LeaseSeconds > 2 * HeartbeatInterval + 3 * RequestTimeout
                      + MaxSignals * (HeartbeatInterval + RequestTimeout)
    /\ LeaseSeconds > HeartbeatInterval + 4 * RequestTimeout + MaxSignals * RequestTimeout

\* An attempt is executed only while Control leases it to this very attempt, or
\* after a client cancelled it: the owner's heartbeats and the cancellation after a
\* failed one (_execute_claim) keep ahead of lease expiry, recovery and the next
\* claim, through lost and late calls.  For an event loop that is responsive and
\* timings with LeaseOutlasts.
ExecutesOnlyLeased ==
    exec = "running" =>
        LET job == jobs[active.job] IN
        \/ job.status = "running" /\ job.lease_token = active.token
        \/ job.status = "cancelled"

\* Control gives the worker's GPUs up (the state becomes OFFLINE) only when the
\* runtime process is gone, or when the worker was silent for longer than the TTL:
\* the order of the finally of run_forever, also for calls that arrive late.
OfflineAfterRelease ==
    [][workers[Me].state \in LiveStates /\ workers'[Me].state = "offline"
       => process = "stopped" \/ Stale(workers[Me], clock)]_wvars

\* The lease of an acknowledged terminal write is not used again by the heartbeat
\* of a drain() that waited for the lock meanwhile.
TerminalLeaseNotReused ==
    [][main = "written" => rpc' = rpc \/ rpc'.claim = NoClaim]_wvars

\* No claim is sent once SIGUSR1 or SIGTERM asked for a drain, although the answer to
\* an earlier call may still say ONLINE and whoever held the lock meanwhile.
NoClaimWhileDraining ==
    [][rpc'.kind = "claim" /\ rpc.kind # "claim" => ~ draining]_wvars

\* A SIGTERM ends the process: no lock, no call without an answer, no drain and no
\* executor that never ends keeps run_worker from its end.
ShutdownCompletes == (daemon # "running") ~> (daemon = "ended")
=============================================================================
