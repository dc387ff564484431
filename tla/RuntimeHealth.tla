---------------------------- MODULE RuntimeHealth ----------------------------
(***************************************************************************)
(* RuntimeHealthSupervisor (worker/supervision.py): the monitor task and   *)
(* the Worker, after an executor error, probe the runtime under one lock,  *)
(* each within a time budget that includes the wait for the lock.          *)
(*                                                                         *)
(* Time is kept as what is left of each deadline, so it needs no bound.    *)
(* The event loop may be late: a deadline that has passed stays at 0 until *)
(* its coroutine runs.  late records that this has happened, for the       *)
(* properties that speak of a responsive event loop.                       *)
(***************************************************************************)
EXTENDS Integers, SequencesExt

CONSTANTS
    Interval,   \* interval_seconds
    Timeout     \* timeout_seconds

ASSUME HealthAssumption == Interval \in Nat \ {0} /\ Timeout \in Nat \ {0}

VARIABLES
    closed,       \* _closed
    failed,       \* the event failed
    initialized,  \* the event initialized
    valid_for,    \* time left until _valid_until, Unset where that is 0.0
    monitor,      \* where _run is: not started, in check, asleep or over
    sleep_for,    \* time left of the monitor's sleep
    check,        \* prober -> its call of check()
    waiters,      \* the probers that wait for _probe_lock, an asyncio.Lock, in order
    runtime,      \* what runtime.health() answers, "hung" when it does not
    proof_age,    \* history: time since the start of the last good probe
    dead_for,     \* history: time since the runtime was last ready
    late,         \* history: a coroutine was not run when it was due
    excuse        \* history: something happened that may fail the gate

vars == <<closed, failed, initialized, valid_for, monitor, sleep_for, check, waiters,
          runtime, proof_age, dead_for, late, excuse>>

gateVars == <<closed, failed, valid_for>>
history == <<proof_age, dead_for, late, excuse>>

Unset == -1
Fresh == Interval + Timeout   \* how long one good probe counts
Probers == {"monitor", "worker"}
Answers == {"ready", "not_ready"}

Calls == [step : {"idle", "waiting", "probing"}, budget : 0 .. Timeout, elapsed : 0 .. Timeout]
Call(s, b, e) == [step |-> s, budget |-> b, elapsed |-> e]
IdleCheck == Call("idle", 0, 0)

Init ==
    /\ closed = FALSE /\ failed = FALSE /\ initialized = FALSE
    /\ valid_for = Unset
    /\ monitor = "none" /\ sleep_for = 0
    /\ check = [p \in Probers |-> IdleCheck]
    /\ waiters = << >>
    /\ runtime \in Answers \cup {"hung"}
    /\ proof_age = 0 /\ dead_for = 0 /\ late = FALSE
    /\ excuse = (runtime # "ready")

-----------------------------------------------------------------------------
\* The property available, which also fails a health proof that has expired.
Available == ~ closed /\ ~ failed /\ valid_for > 0

\* _fail: the first failure is latched, unless the supervisor is closed.
fail ==
    /\ failed' = (failed \/ ~ closed)
    /\ valid_for' = IF closed THEN valid_for ELSE Unset
    /\ UNCHANGED closed

\* p no longer waits for the lock, if it did.
Leaves(p) ==
    \/ p \notin ToSet(waiters) /\ UNCHANGED waiters
    \/ \E i \in DOMAIN waiters : waiters[i] = p /\ waiters' = RemoveAt(waiters, i)

\* check() ends for p.  The monitor then goes to sleep, or ends when it failed.
Ended(p) ==
    /\ check' = [check EXCEPT ![p] = IdleCheck]
    /\ Leaves(p)
    /\ IF p = "monitor"
       THEN /\ initialized' = TRUE
            /\ monitor' = IF failed' THEN "ended" ELSE "sleep"
            /\ sleep_for' = IF failed' THEN 0 ELSE Interval
       ELSE UNCHANGED <<initialized, monitor, sleep_for>>

\* The budget of check() starts before the lock is free.
Begin(p) ==
    /\ waiters' = Append(waiters, p)
    /\ check' = [check EXCEPT ![p] = Call("waiting", Timeout, 0)]

\* start(): the first check of the monitor.
start ==
    /\ monitor = "none" /\ ~ closed
    /\ monitor' = "check"
    /\ Begin("monitor")
    /\ UNCHANGED <<gateVars, initialized, sleep_for, runtime, history>>

\* _run: the sleep is over.
WakeUp ==
    /\ monitor = "sleep" /\ sleep_for = 0
    /\ IF failed
       THEN monitor' = "ended" /\ UNCHANGED <<check, waiters>>
       ELSE monitor' = "check" /\ Begin("monitor")
    /\ UNCHANGED <<gateVars, initialized, sleep_for, runtime, history>>

\* The Worker probes after an executor error, having seen the gate open.
ProbeAfterError ==
    /\ initialized /\ Available
    /\ check["worker"].step = "idle"
    /\ Begin("worker")
    /\ UNCHANGED <<gateVars, initialized, monitor, sleep_for, runtime, history>>

LockFree == \A p \in Probers : check[p].step # "probing"

\* The lock is free: look again, then call runtime.health().
Acquire(p) ==
    /\ check[p].step = "waiting" /\ LockFree /\ Head(waiters) = p
    /\ IF closed \/ failed THEN UNCHANGED gateVars /\ Ended(p)
       ELSE IF valid_for = 0 THEN fail /\ Ended(p)
       ELSE /\ check' = [check EXCEPT ![p] = Call("probing", check[p].budget, 0)]
            /\ Leaves(p)
            /\ UNCHANGED <<gateVars, initialized, monitor, sleep_for>>
    /\ UNCHANGED <<runtime, history>>

\* Mutant: the probe counts from the arrival of its answer.
Mut_Renewed(p) == Fresh

\* Mutant: a good probe counts for the timeout only, as if there were no sleep.
Mut_RenewedShort(p) == Timeout - check[p].elapsed

\* A good probe counts from its start.
Renewed(p) == Fresh - check[p].elapsed

\* Mutant: the gate is not looked at again when the answer arrives.
Mut_StillOpen == TRUE

\* Nobody failed, closed or outwaited the gate while the probe was under way.
StillOpen == ~ closed /\ ~ failed /\ valid_for # 0

\* runtime.health() answered, raised or returned something else.
Answer(p) ==
    /\ check[p].step = "probing" /\ runtime \in Answers
    /\ IF StillOpen /\ check[p].elapsed < Timeout /\ runtime = "ready"
       THEN /\ valid_for' = Renewed(p)
            /\ proof_age' = check[p].elapsed
            /\ UNCHANGED <<closed, failed, dead_for, late, excuse>>
       ELSE fail /\ UNCHANGED history
    /\ Ended(p)
    /\ UNCHANGED runtime

\* Mutant: a probe that timed out is given up without a failure.
Mut_TimedOut(p) ==
    /\ check[p].step # "idle" /\ check[p].budget = 0
    /\ UNCHANGED <<gateVars, runtime, history>>
    /\ Ended(p)

\* asyncio.timeout ends the wait for the lock or for the answer.
TimedOut(p) ==
    /\ check[p].step # "idle" /\ check[p].budget = 0
    /\ fail
    /\ Ended(p)
    /\ UNCHANGED <<runtime, history>>

\* Someone reads available (ready, /health, /ready) after the proof expired.
ReadExpired ==
    /\ valid_for = 0
    /\ fail
    /\ UNCHANGED <<initialized, monitor, sleep_for, check, waiters, runtime, history>>

\* close(), by the Worker, whose own probe was cancelled before.
close ==
    /\ ~ closed
    /\ closed' = TRUE /\ valid_for' = Unset
    /\ check' = [check EXCEPT !["worker"] = IdleCheck] /\ Leaves("worker")
    /\ UNCHANGED <<failed, initialized, monitor, sleep_for, runtime, history>>

\* The monitor task is cancelled: by close(), or unexpectedly.
MonitorCancelled ==
    /\ monitor \in {"check", "sleep"}
    /\ monitor' = "ended" /\ initialized' = TRUE /\ sleep_for' = 0
    /\ check' = [check EXCEPT !["monitor"] = IdleCheck] /\ Leaves("monitor")
    /\ IF closed THEN UNCHANGED gateVars ELSE fail
    /\ excuse' = (excuse \/ ~ closed)
    /\ UNCHANGED <<runtime, proof_age, dead_for, late>>

\* External: the runtime gets ready, breaks or hangs.
RuntimeChanges ==
    /\ runtime' \in (Answers \cup {"hung"}) \ {runtime}
    /\ dead_for' = IF runtime' = "ready" THEN 0 ELSE dead_for
    /\ excuse' = TRUE
    /\ UNCHANGED <<gateVars, initialized, monitor, sleep_for, check, waiters, proof_age, late>>

Less(n) == IF n > 0 THEN n - 1 ELSE n
Upto(n, max) == IF n < max THEN n ELSE max

\* A coroutine is due and has not run yet.
Due ==
    \/ monitor = "sleep" /\ sleep_for = 0
    \/ \E p \in Probers : check[p].step # "idle" /\ check[p].budget = 0
    \/ waiters # << >> /\ LockFree
    \/ \E p \in Probers : check[p].step = "probing" /\ runtime = "not_ready"

\* A probe that goes on now will take half of its budget or longer.
SlowProbe(p) == check[p].step = "probing" /\ 2 * (check[p].elapsed + 1) >= Timeout

\* Time passes.
Tick ==
    /\ late' = (late \/ Due)
    /\ excuse' = (excuse \/ late' \/ \E p \in Probers : SlowProbe(p))
    /\ valid_for' = Less(valid_for)
    /\ sleep_for' = Less(sleep_for)
    /\ check' = [p \in Probers |->
           Call(check[p].step, Less(check[p].budget),
                IF check[p].step = "probing" THEN Upto(check[p].elapsed + 1, Timeout)
                ELSE check[p].elapsed)]
    /\ proof_age' = Upto(proof_age + 1, Fresh)
    /\ dead_for' = IF runtime = "ready" THEN 0 ELSE Upto(dead_for + 1, Fresh + 1)
    /\ UNCHANGED <<closed, failed, initialized, monitor, waiters, runtime>>

Probe(p) == Acquire(p) \/ Answer(p) \/ TimedOut(p)

Next ==
    \/ start \/ WakeUp \/ ProbeAfterError
    \/ \E p \in Probers : Probe(p)
    \/ ReadExpired \/ close \/ MonitorCancelled
    \/ RuntimeChanges \/ Tick

\* Time passes, and a coroutine that can run is run at some time.
Fairness ==
    /\ WF_vars(Tick)
    /\ WF_vars(WakeUp)
    /\ \A p \in Probers : WF_vars(Probe(p))

Spec == Init /\ [][Next]_vars
FairSpec == Spec /\ Fairness

-----------------------------------------------------------------------------
(* Properties                                                              *)

TypeOK ==
    /\ closed \in BOOLEAN /\ failed \in BOOLEAN /\ initialized \in BOOLEAN
    /\ valid_for \in Unset .. Fresh
    /\ monitor \in {"none", "check", "sleep", "ended"}
    /\ sleep_for \in 0 .. Interval
    /\ check \in [Probers -> Calls]
    /\ waiters \in Seq(Probers)
    /\ runtime \in Answers \cup {"hung"}
    /\ proof_age \in 0 .. Fresh /\ dead_for \in 0 .. Fresh + 1
    /\ late \in BOOLEAN /\ excuse \in BOOLEAN

\* The gate is open only while a probe that was answered "ready" lies at most
\* interval + timeout back, counted from its start, however late the event loop.
OpenOnFreshProof == Available => proof_age < Fresh

\* The supervisor implements the gate: a failure, also one that only the expiry of
\* the proof shows, is never undone by a probe that answers late.
gate ==
    IF closed THEN "stopped"
    ELSE IF failed \/ valid_for = 0 THEN "failed"
    ELSE IF valid_for > 0 THEN "ready"
    ELSE "starting"
Gate == INSTANCE HealthGate
GateRefined == Gate!GateSpec

\* A fault is noticed within the interval and the budget of one probe, as long as
\* the event loop is responsive (docs/runtime-supervision.md).
FaultNoticedInTime ==
    initialized /\ ~ late /\ ~ closed /\ ~ failed => dead_for <= Interval + Timeout

\* No false alarm, which only a restart would clear: the gate does not fail while
\* the runtime is ready, its answers take less than half of the budget, nobody
\* cancels the monitor and the event loop is responsive.  (Two probes in a row
\* that take half of the budget each outlast the proof of the first.)
NoFalseAlarm == failed => excuse

\* A runtime that stays unready is noticed or the supervisor is closed, also when
\* the event loop is late.
FaultNoticed ==
    (monitor # "none" /\ [](runtime # "ready")) ~> (failed \/ closed)
=============================================================================
