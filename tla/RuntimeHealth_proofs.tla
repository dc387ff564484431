------------------------ MODULE RuntimeHealth_proofs ------------------------
(* Theorems about RuntimeHealth, for every interval and timeout. *)
EXTENDS RuntimeHealth, TLAPS

\* The inductive invariant: what is left of the validity and the age of the good
\* probe it stands for add up to at most Fresh, and a gate that failed or was
\* closed has no validity left that could expire or be extended.
GateTyped ==
    /\ closed \in BOOLEAN /\ failed \in BOOLEAN
    /\ valid_for \in Unset .. Fresh
    /\ proof_age \in 0 .. Fresh
    /\ check \in [Probers -> Calls]

ProofCounted == valid_for > 0 => valid_for + proof_age <= Fresh
NothingLeft == failed \/ closed => valid_for = Unset

HInv == GateTyped /\ ProofCounted /\ NothingLeft

\* A prober that has no call under way.
LEMMA IdleCall == IdleCheck \in Calls
  BY HealthAssumption DEF IdleCheck, Call, Calls

\* The gate that has just been made satisfies the invariant.
LEMMA HInit == Init => HInv
<1> SUFFICES ASSUME Init PROVE HInv OBVIOUS
<1>1. check \in [Probers -> Calls]
  BY IdleCall DEF Init
<1>2. closed = FALSE /\ failed = FALSE /\ valid_for = -1 /\ proof_age = 0
  BY DEF Init, Unset
<1>3. Fresh \in Nat
  BY HealthAssumption DEF Fresh
<1>4. valid_for \in Unset .. Fresh /\ proof_age \in 0 .. Fresh /\ ~(valid_for > 0)
  BY <1>2, <1>3, SMT DEF Unset
<1>5. closed \in BOOLEAN /\ failed \in BOOLEAN /\ NothingLeft
  BY <1>2, Zenon DEF NothingLeft
<1> QED BY <1>1, <1>4, <1>5, Zenon DEF HInv, GateTyped, ProofCounted

\* A failure leaves nothing to expire, and takes the gate where Fails takes it.
LEMMA FailStep ==
  ASSUME HInv, fail, UNCHANGED proof_age, check' \in [Probers -> Calls]
  PROVE  HInv' /\ (gate' = gate \/ Gate!Fails)
<1>1. HInv'
  BY HealthAssumption DEF HInv, GateTyped, ProofCounted, NothingLeft, fail, Unset, Fresh
<1>2. gate' = gate \/ Gate!Fails
  BY HealthAssumption DEF HInv, GateTyped, NothingLeft, fail, Unset, Fresh, gate, Gate!Fails
<1> QED BY <1>1, <1>2

\* A step that leaves gate and proof alone keeps the invariant.
LEMMA GateUnchanged ==
  ASSUME HInv, UNCHANGED <<gateVars, proof_age>>, check' \in [Probers -> Calls]
  PROVE  HInv' /\ gate' = gate
  BY DEF HInv, GateTyped, ProofCounted, NothingLeft, gateVars, gate, Fresh, Unset

\* The end of a call of check() leaves the calls well typed.
LEMMA EndedTyped ==
  ASSUME GateTyped, NEW p \in Probers, Ended(p)
  PROVE  check' \in [Probers -> Calls]
  BY IdleCall DEF GateTyped, Ended

\* So does the start of one.
LEMMA BeginTyped ==
  ASSUME GateTyped, NEW p \in Probers, Begin(p)
  PROVE  check' \in [Probers -> Calls]
  BY HealthAssumption DEF GateTyped, Begin, Call, Calls

\* A probe's steps: only an answer to a gate that is still open extends it.
LEMMA ProbeStep ==
  ASSUME HInv, NEW p \in Probers, Probe(p)
  PROVE  HInv' /\ (gate' = gate \/ Gate!GateNext)
<1>1. GateTyped BY DEF HInv
<1>2. CASE Acquire(p)
  <2>1. CASE (closed \/ failed)
    <3>1. UNCHANGED <<gateVars, proof_age>> /\ Ended(p)
      BY <1>2, <2>1 DEF Acquire, history
    <3> QED BY <3>1, <1>1, EndedTyped, GateUnchanged
  <2>2. CASE ~(closed \/ failed) /\ valid_for = 0
    <3>1. fail /\ UNCHANGED proof_age /\ Ended(p)
      BY <1>2, <2>2 DEF Acquire, history
    <3> QED BY <3>1, <1>1, EndedTyped, FailStep DEF Gate!GateNext
  <2>3. CASE ~(closed \/ failed) /\ valid_for # 0
    <3>1. /\ UNCHANGED <<gateVars, proof_age>>
          /\ check' = [check EXCEPT ![p] = Call("probing", check[p].budget, 0)]
      BY <1>2, <2>3 DEF Acquire, history
    <3>2. check' \in [Probers -> Calls]
      BY <3>1, <1>1, HealthAssumption DEF GateTyped, Call, Calls
    <3> QED BY <3>1, <3>2, GateUnchanged
  <2> QED BY <2>1, <2>2, <2>3
<1>3. CASE Answer(p)
  <2> DEFINE good == StillOpen /\ check[p].elapsed < Timeout /\ runtime = "ready"
  <2>0. Ended(p) BY <1>3 DEF Answer
  <2>1. CASE good
    <3>1. /\ valid_for' = Fresh - check[p].elapsed
          /\ proof_age' = check[p].elapsed
          /\ UNCHANGED <<closed, failed>>
      BY <1>3, <2>1 DEF Answer, Renewed
    <3>2. check[p].elapsed \in 0 .. Timeout /\ check[p].elapsed < Timeout
      BY <1>1, <2>1 DEF GateTyped, Calls
    <3>3. valid_for' \in 1 .. Fresh /\ valid_for' + proof_age' = Fresh /\ proof_age' \in 0 .. Fresh
      BY <3>1, <3>2, HealthAssumption DEF Fresh
    <3>4. ~closed /\ ~failed /\ valid_for # 0
      BY <2>1 DEF StillOpen
    <3>5. HInv'
      BY <3>1, <3>3, <3>4, <2>0, <1>1, EndedTyped, HealthAssumption
      DEF HInv, GateTyped, ProofCounted, NothingLeft, Unset, Fresh
    <3>6. gate' = "ready"
      BY <3>1, <3>3, <3>4, HealthAssumption DEF gate, Fresh
    <3>7. gate \in {"starting", "ready"}
      BY <3>4, <1>1 DEF gate
    <3> QED BY <3>5, <3>6, <3>7 DEF Gate!GateNext, Gate!Opens
  <2>2. CASE ~good
    <3>1. fail /\ UNCHANGED proof_age
      BY <1>3, <2>2 DEF Answer, history
    <3> QED BY <3>1, <2>0, <1>1, EndedTyped, FailStep DEF Gate!GateNext
  <2> QED BY <2>1, <2>2
<1>4. CASE TimedOut(p)
  <2>1. fail /\ UNCHANGED proof_age /\ Ended(p)
    BY <1>4 DEF TimedOut, history
  <2> QED BY <2>1, <1>1, EndedTyped, FailStep DEF Gate!GateNext
<1> QED BY <1>2, <1>3, <1>4 DEF Probe

\* The passing of time only uses validity up.
LEMMA TickStep ==
  ASSUME HInv, Tick
  PROVE  HInv' /\ (gate' = gate \/ Gate!GateNext)
<1>1. UNCHANGED <<closed, failed>> /\ valid_for' = Less(valid_for)
      /\ proof_age' = Upto(proof_age + 1, Fresh)
  BY DEF Tick
<1>2. check' \in [Probers -> Calls]
  <2>1. ASSUME NEW q \in Probers
        PROVE  check[q] \in Calls /\ Less(check[q].budget) \in 0 .. Timeout
               /\ Upto(check[q].elapsed + 1, Timeout) \in 0 .. Timeout
    BY HealthAssumption DEF HInv, GateTyped, Calls, Less, Upto
  <2> QED BY <2>1 DEF Tick, Call, Calls
<1>3. HInv'
  BY <1>1, <1>2, HealthAssumption
  DEF HInv, GateTyped, ProofCounted, NothingLeft, Less, Upto, Fresh, Unset
<1>4. gate' = gate \/ Gate!Fails
  BY <1>1, HealthAssumption DEF HInv, GateTyped, gate, Gate!Fails, Less, Fresh, Unset
<1> QED BY <1>3, <1>4 DEF Gate!GateNext

\* Every step of the supervisor keeps the invariant and is a step of the gate.
LEMMA HNext == HInv /\ [Next]_vars => HInv' /\ [Gate!GateNext]_gate
<1> SUFFICES ASSUME HInv, [Next]_vars PROVE HInv' /\ (gate' = gate \/ Gate!GateNext)
  BY DEF Gate!GateNext
<1>0. GateTyped BY DEF HInv
<1>1. CASE start
  BY <1>0, <1>1, BeginTyped, GateUnchanged DEF start, history, Probers
<1>2. CASE WakeUp
  <2>1. UNCHANGED <<gateVars, proof_age>> /\ (UNCHANGED check \/ Begin("monitor"))
    BY <1>2 DEF WakeUp, history
  <2>2. check' \in [Probers -> Calls]
    BY <2>1, <1>0, BeginTyped DEF GateTyped, Probers
  <2> QED BY <2>1, <2>2, GateUnchanged
<1>3. CASE ProbeAfterError
  BY <1>0, <1>3, BeginTyped, GateUnchanged DEF ProbeAfterError, history, Probers
<1>4. CASE \E p \in Probers : Probe(p)
  BY <1>4, ProbeStep
<1>5. CASE ReadExpired
  <2>1. fail /\ UNCHANGED <<proof_age, check>>
    BY <1>5 DEF ReadExpired, history
  <2> QED BY <2>1, <1>0, FailStep DEF GateTyped, Gate!GateNext
<1>6. CASE close
  <2>1. /\ ~closed /\ closed' = TRUE /\ valid_for' = Unset
        /\ UNCHANGED <<failed, proof_age>>
        /\ check' = [check EXCEPT !["worker"] = IdleCheck]
    BY <1>6 DEF close, history
  <2>2. HInv'
    BY <2>1, <1>0, HealthAssumption, IdleCall
    DEF HInv, GateTyped, ProofCounted, NothingLeft, Unset, Fresh, Probers
  <2>3. gate' = "stopped" /\ gate # "stopped"
    BY <2>1 DEF gate
  <2> QED BY <2>2, <2>3 DEF Gate!GateNext, Gate!Closes
<1>7. CASE MonitorCancelled
  <2>1. /\ check' = [check EXCEPT !["monitor"] = IdleCheck]
        /\ UNCHANGED proof_age
        /\ UNCHANGED gateVars \/ fail
    BY <1>7 DEF MonitorCancelled
  <2>2. check' \in [Probers -> Calls]
    BY <2>1, <1>0, IdleCall DEF GateTyped, Probers
  <2>3. CASE UNCHANGED gateVars BY <2>1, <2>2, <2>3, GateUnchanged
  <2>4. CASE fail BY <2>1, <2>2, <2>4, FailStep DEF Gate!GateNext
  <2> QED BY <2>1, <2>3, <2>4
<1>8. CASE RuntimeChanges
  BY <1>0, <1>8, GateUnchanged DEF RuntimeChanges, GateTyped
<1>9. CASE Tick BY <1>9, TickStep
<1>10. CASE UNCHANGED vars
  BY <1>0, <1>10, GateUnchanged DEF vars, gateVars, GateTyped
<1> QED BY <1>1, <1>2, <1>3, <1>4, <1>5, <1>6, <1>7, <1>8, <1>9, <1>10 DEF Next

\* The gate is open only on a good probe that is at most interval + timeout old,
\* whatever the two are and however late the event loop runs.
THEOREM OpenOnFreshProofAlways == Spec => []OpenOnFreshProof
<1>1. HInv => OpenOnFreshProof
  BY HealthAssumption DEF HInv, GateTyped, ProofCounted, OpenOnFreshProof, Available, Fresh
<1> QED BY HInit, HNext, <1>1, PTL DEF Spec

\* The supervisor implements the gate, for every interval and timeout: no failure is
\* ever undone.
THEOREM SupervisorImplementsGate == Spec => GateRefined
<1>1. Init => Gate!GateInit
  BY DEF Init, gate, Gate!GateInit, Unset
<1> QED BY HInit, HNext, <1>1, PTL DEF Spec, GateRefined, Gate!GateSpec

\* The types the two properties about the event loop need besides.
TimeTyped ==
    /\ initialized \in BOOLEAN /\ late \in BOOLEAN /\ excuse \in BOOLEAN
    /\ monitor \in {"none", "check", "sleep", "ended"} /\ sleep_for \in 0 .. Interval
    /\ runtime \in Answers \cup {"hung"} /\ dead_for \in Nat

\* Every step keeps them.
LEMMA TimeNext == HInv /\ TimeTyped /\ [Next]_vars => TimeTyped'
<1> SUFFICES ASSUME HInv, TimeTyped, [Next]_vars PROVE TimeTyped'
  OBVIOUS
<1>0. Interval \in Nat /\ Timeout \in Nat /\ Fresh \in Nat /\ failed \in BOOLEAN /\ closed \in BOOLEAN
  BY HealthAssumption DEF Fresh, HInv, GateTyped
<1>1. CASE start \/ WakeUp \/ ProbeAfterError
  <2>1. /\ UNCHANGED <<initialized, late, excuse, sleep_for, runtime, dead_for>>
        /\ monitor' \in {monitor, "check", "ended"}
    BY <1>1 DEF start, WakeUp, ProbeAfterError, history
  <2> QED
    BY <2>1 DEF TimeTyped
<1>2. ASSUME NEW p \in Probers, Ended(p), UNCHANGED <<runtime, dead_for, late, excuse>>
      PROVE  TimeTyped'
  <2>1. monitor' \in {monitor, "ended", "sleep"} /\ initialized' \in {initialized, TRUE}
    BY <1>2 DEF Ended
  <2>2. sleep_for' \in {sleep_for, 0, Interval}
    BY <1>2 DEF Ended
  <2>3. 0 \in 0 .. Interval /\ Interval \in 0 .. Interval
    BY <1>0
  <2> QED
    BY <1>2, <2>1, <2>2, <2>3 DEF TimeTyped
<1>3. ASSUME NEW p \in Probers, Probe(p) PROVE TimeTyped'
  <2>1. UNCHANGED <<runtime, dead_for, late, excuse>>
    BY <1>3 DEF Probe, Acquire, Answer, TimedOut, history
  <2>2. Ended(p) \/ UNCHANGED <<initialized, monitor, sleep_for>>
    BY <1>3 DEF Probe, Acquire, Answer, TimedOut
  <2> QED
    BY <1>2, <2>1, <2>2 DEF TimeTyped
<1>4. CASE ReadExpired \/ close
  BY <1>4 DEF ReadExpired, close, TimeTyped, history
<1>5. CASE MonitorCancelled
  BY <1>0, <1>5 DEF MonitorCancelled, TimeTyped
<1>6. CASE RuntimeChanges
  BY <1>6 DEF RuntimeChanges, TimeTyped
<1>7. CASE Tick
  <2>1. late' \in BOOLEAN /\ excuse' \in BOOLEAN
    BY <1>7 DEF Tick
  <2>2. sleep_for' \in 0 .. Interval /\ dead_for' \in Nat
    BY <1>0, <1>7 DEF Tick, TimeTyped, Less, Upto
  <2> QED
    BY <1>7, <2>1, <2>2 DEF Tick, TimeTyped
<1>8. CASE UNCHANGED vars
  BY <1>8 DEF vars, TimeTyped
<1> QED
  BY <1>1, <1>3, <1>4, <1>5, <1>6, <1>7, <1>8 DEF Next

-----------------------------------------------------------------------------
(* The fault                                                               *)

\* How long the runtime may have been unready, by where the monitor is: it was ready when the
\* last check of the monitor ended.
NoticeInv ==
    /\ runtime = "ready" => dead_for = 0
    /\ ~ late /\ ~ closed /\ ~ failed =>
          /\ initialized => monitor \in {"check", "sleep"}
          /\ monitor = "sleep" => dead_for + sleep_for <= Interval
          /\ monitor = "check" =>
                /\ check["monitor"].step # "idle"
                /\ initialized => dead_for + check["monitor"].budget <= Interval + Timeout

\* Every step keeps it.
LEMMA NoticeNext == HInv /\ TimeTyped /\ NoticeInv /\ [Next]_vars => NoticeInv'
<1> SUFFICES ASSUME HInv, TimeTyped, NoticeInv, [Next]_vars PROVE NoticeInv'
  OBVIOUS
<1>0. /\ Interval \in Nat /\ Timeout \in Nat /\ "monitor" \in Probers
      /\ failed \in BOOLEAN /\ closed \in BOOLEAN
      /\ \A p \in Probers : check[p].budget \in Nat
      /\ check \in [Probers -> Calls]
      /\ dead_for \in Nat /\ sleep_for \in Nat
  BY HealthAssumption DEF HInv, GateTyped, TimeTyped, Calls, Probers
<1>1. CASE start
  BY <1>0, <1>1 DEF start, Begin, Call, NoticeInv, gateVars, history
<1>2. CASE WakeUp
  <2>1. CASE failed
    BY <1>2, <2>1 DEF WakeUp, NoticeInv, gateVars, history
  <2>2. CASE ~ failed
    <3>1. /\ monitor = "sleep" /\ sleep_for = 0 /\ monitor' = "check"
          /\ check' = [check EXCEPT !["monitor"] = Call("waiting", Timeout, 0)]
          /\ UNCHANGED <<gateVars, initialized, runtime, dead_for, late>>
      BY <1>2, <2>2 DEF WakeUp, Begin, history
    <3>2. check'["monitor"] = Call("waiting", Timeout, 0)
      BY <1>0, <3>1
    <3> QED
      BY <1>0, <3>1, <3>2 DEF NoticeInv, gateVars, Call
  <2> QED
    BY <2>1, <2>2
<1>3. CASE ProbeAfterError
  <2>1. check'["monitor"] = check["monitor"]
    BY <1>0, <1>3 DEF ProbeAfterError, Begin
  <2> QED
    BY <1>3, <2>1 DEF ProbeAfterError, NoticeInv, gateVars, history
<1>4. ASSUME NEW p \in Probers, Probe(p) PROVE NoticeInv'
  <2>1. /\ UNCHANGED <<runtime, dead_for, late>> /\ (failed => failed') /\ (closed => closed')
    BY <1>0, <1>4 DEF Probe, Acquire, Answer, TimedOut, history, gateVars, fail
  <2>2. CASE failed' \/ closed'
    BY <2>1, <2>2 DEF NoticeInv
  <2>3. CASE ~ failed' /\ ~ closed' /\ Ended(p)
    <3>1. p = "monitor" => Answer(p) /\ runtime = "ready"
      BY <1>0, <1>4, <2>3 DEF Probe, Acquire, TimedOut, Answer, fail, gateVars, Call, Ended, IdleCheck
    <3>2. CASE p = "monitor"
      <4>1. monitor' = "sleep" /\ sleep_for' = Interval /\ dead_for' = 0
        BY <2>1, <2>3, <3>1, <3>2 DEF Ended, NoticeInv
      <4> QED
        BY <1>0, <2>1, <4>1 DEF NoticeInv
    <3>3. CASE p # "monitor"
      <4>1. check'["monitor"] = check["monitor"] /\ UNCHANGED <<initialized, monitor, sleep_for>>
        BY <1>0, <2>3, <3>3 DEF Ended
      <4> QED
        BY <2>1, <2>3, <4>1 DEF NoticeInv
    <3> QED
      BY <3>2, <3>3
  <2>4. CASE ~ failed' /\ ~ closed' /\ ~ Ended(p)
    <3>1. /\ UNCHANGED <<initialized, monitor, sleep_for>>
          /\ check' = [check EXCEPT ![p] = Call("probing", check[p].budget, 0)]
      BY <1>4, <2>4 DEF Probe, Acquire, Answer, TimedOut
    <3>2. check'["monitor"].budget = check["monitor"].budget
      BY <1>0, <3>1 DEF Call
    <3>3. check["monitor"].step # "idle" => check'["monitor"].step # "idle"
      BY <1>0, <3>1 DEF Call
    <3> QED
      BY <2>1, <2>4, <3>1, <3>2, <3>3 DEF NoticeInv
  <2> QED
    BY <2>2, <2>3, <2>4
<1>5. CASE ReadExpired
  BY <1>0, <1>5 DEF ReadExpired, fail, NoticeInv, history
<1>6. CASE close
  BY <1>6 DEF close, NoticeInv, history
<1>7. CASE MonitorCancelled
  <2>1. UNCHANGED <<runtime, dead_for>> /\ (closed' \/ failed')
    BY <1>0, <1>7 DEF MonitorCancelled, fail, gateVars
  <2> QED
    BY <2>1 DEF NoticeInv
<1>8. CASE RuntimeChanges
  BY <1>0, <1>8 DEF RuntimeChanges, NoticeInv, gateVars
<1>9. CASE Tick
  <2>1. /\ UNCHANGED <<closed, failed, initialized, monitor, runtime>>
        /\ late' = (late \/ Due) /\ sleep_for' = Less(sleep_for)
        /\ dead_for' = IF runtime = "ready" THEN 0 ELSE Upto(dead_for + 1, Fresh + 1)
    BY <1>9 DEF Tick
  <2>2. check'["monitor"].step = check["monitor"].step
        /\ check'["monitor"].budget = Less(check["monitor"].budget)
    BY <1>0, <1>9 DEF Tick, Call
  <2>3. dead_for' \in Nat /\ dead_for' <= dead_for + 1
    BY <1>0, <2>1, HealthAssumption DEF Upto, Fresh
  <2>4. ASSUME ~ late' PROVE ~ late /\ ~ Due
    BY <2>1, <2>4
  <2>5. ASSUME ~ late', monitor = "sleep" PROVE sleep_for' = sleep_for - 1
    BY <1>0, <2>1, <2>4, <2>5 DEF Due, Less
  <2>6. ASSUME ~ late', check["monitor"].step # "idle"
        PROVE  check'["monitor"].budget = check["monitor"].budget - 1
    BY <1>0, <2>2, <2>4, <2>6 DEF Due, Less
  <2> QED
    BY <1>0, <2>1, <2>2, <2>3, <2>4, <2>5, <2>6 DEF NoticeInv
<1>10. CASE UNCHANGED vars
  BY <1>10 DEF vars, NoticeInv
<1> QED
  BY <1>1, <1>2, <1>3, <1>4, <1>5, <1>6, <1>7, <1>8, <1>9, <1>10 DEF Next

\* The supervisor that has just been made.
LEMMA TimeInit == Init => TimeTyped /\ NoticeInv
<1> SUFFICES ASSUME Init PROVE TimeTyped /\ NoticeInv
  OBVIOUS
<1>1. /\ initialized = FALSE /\ late = FALSE /\ monitor = "none" /\ sleep_for = 0 /\ dead_for = 0
      /\ runtime \in Answers \cup {"hung"} /\ excuse \in BOOLEAN /\ 0 \in 0 .. Interval
  BY HealthAssumption DEF Init
<1> QED
  BY <1>1 DEF TimeTyped, NoticeInv

\* A fault of the runtime closes the gate within the interval and the budget of one probe,
\* whatever the two are, as long as the event loop is responsive.
THEOREM FaultClosesGateInTime == Spec => []FaultNoticedInTime
<1>1. HInv /\ TimeTyped /\ NoticeInv => FaultNoticedInTime
  <2> SUFFICES ASSUME HInv, TimeTyped, NoticeInv, initialized, ~ late, ~ closed, ~ failed
               PROVE  dead_for <= Interval + Timeout
    BY DEF FaultNoticedInTime
  <2>1. /\ Interval \in Nat /\ Timeout \in Nat /\ check["monitor"].budget \in Nat
        /\ dead_for \in Nat /\ sleep_for \in Nat
    BY HealthAssumption DEF HInv, GateTyped, TimeTyped, Calls, Probers
  <2> QED
    BY <2>1 DEF NoticeInv
<1> QED
  BY HInit, TimeInit, HNext, TimeNext, NoticeNext, <1>1, PTL DEF Spec

-----------------------------------------------------------------------------
(* The alarm                                                               *)

Waiting(p) == \E i \in 1 .. Len(waiters) : waiters[i] = p

\* How long p has waited for the lock.
Waited(p) == Timeout - check[p].budget - check[p].elapsed

\* The lock is first come, first served: who waits is in the queue, and who waits while the
\* other probes came after that probe began.
LockInv ==
    /\ waiters \in Seq(Probers)
    /\ \A i, j \in 1 .. Len(waiters) : waiters[i] = waiters[j] => i = j
    /\ \A p \in Probers : check[p].step = "waiting" <=> Waiting(p)
    /\ \A i \in 2 .. Len(waiters) : check[waiters[i]].budget = Timeout
    /\ \A p \in Probers : check[p].step = "waiting" => check[p].elapsed = 0
    /\ \A p \in Probers : check[p].step # "idle" => Waited(p) >= 0 /\ 2 * Waited(p) < Timeout
    /\ \A p \in Probers : check[p].step = "probing" => 2 * check[p].elapsed < Timeout
    /\ \A p, q \in Probers : p # q /\ check[q].step = "probing" =>
          /\ check[p].step # "probing"
          /\ check[p].step = "waiting" => Waited(p) <= check[q].elapsed

\* Half of a timeout more than the rest of the monitor's sleep is left of every proof: it
\* outlasts the sleep, the wait for the probe of the Worker and the probe of the monitor.
Spent == IF check["monitor"].step = "probing" THEN check["monitor"].elapsed
         ELSE IF LockFree THEN 0 ELSE Waited("monitor")
ProofInv ==
    valid_for # Unset =>
      /\ monitor \in {"check", "sleep"}
      /\ monitor = "sleep" => 2 * valid_for > 2 * sleep_for + Timeout
      /\ monitor = "check" => 2 * valid_for > Timeout - 2 * Spent

\* The monitor checks or sleeps; the Worker probes only a gate that was open.
MonitorInv ==
    /\ monitor # "ended" /\ (monitor = "check" <=> check["monitor"].step # "idle")
    /\ check["worker"].step # "idle" => valid_for # Unset

Quiet == ~ closed /\ ~ excuse
AlarmInv ==
    /\ ~ excuse => ~ failed /\ runtime = "ready"
    /\ Quiet => LockInv /\ ProofInv /\ MonitorInv

\* Two parts of a queue.
LEMMA Joined ==
    ASSUME NEW a \in Seq(Probers), NEW b \in Seq(Probers)
    PROVE  /\ a \o b \in Seq(Probers) /\ Len(a \o b) = Len(a) + Len(b)
           /\ Len(a) \in Nat /\ Len(b) \in Nat
           /\ \A k \in 1 .. Len(a) + Len(b) :
                 (a \o b)[k] = IF k <= Len(a) THEN a[k] ELSE b[k - Len(a)]
OBVIOUS

\* A queue without one of its places.
LEMMA RemoveOne ==
    ASSUME NEW s \in Seq(Probers), NEW i \in 1 .. Len(s)
    PROVE  /\ RemoveAt(s, i) \in Seq(Probers) /\ Len(RemoveAt(s, i)) = Len(s) - 1
           /\ \A k \in 1 .. Len(s) - 1 :
                 RemoveAt(s, i)[k] = IF k < i THEN s[k] ELSE s[k + 1]
<1> DEFINE a == SubSeq(s, 1, i - 1)  b == SubSeq(s, i + 1, Len(s))
<1>1. /\ Len(s) \in Nat /\ a \in Seq(Probers) /\ Len(a) = i - 1 /\ \A k \in 1 .. i - 1 : a[k] = s[k]
  OBVIOUS
<1>2. /\ b \in Seq(Probers) /\ Len(b) = Len(s) - i /\ \A k \in 1 .. Len(s) - i : b[k] = s[k + i]
  OBVIOUS
<1> HIDE DEF a, b
<1>3. /\ a \o b \in Seq(Probers) /\ Len(a \o b) = Len(s) - 1
      /\ \A k \in 1 .. Len(s) - 1 : (a \o b)[k] = IF k <= i - 1 THEN a[k] ELSE b[k - (i - 1)]
  <2>1. Len(a) + Len(b) = Len(s) - 1
    BY <1>1, <1>2
  <2>2. a \in Seq(Probers) /\ b \in Seq(Probers)
    BY <1>1, <1>2
  <2>3. /\ a \o b \in Seq(Probers) /\ Len(a \o b) = Len(a) + Len(b)
        /\ \A k \in 1 .. Len(a) + Len(b) :
              (a \o b)[k] = IF k <= Len(a) THEN a[k] ELSE b[k - Len(a)]
    BY <2>2, Joined, Zenon
  <2>4. Len(a) = i - 1
    BY <1>1
  <2> QED
    BY <2>1, <2>3, <2>4, Zenon
<1>4. ASSUME NEW k \in 1 .. Len(s) - 1
      PROVE  (a \o b)[k] = IF k < i THEN s[k] ELSE s[k + 1]
  <2>1. CASE k < i
    <3>1. k <= i - 1 /\ k \in 1 .. i - 1
      BY <1>1, <2>1
    <3> QED
      BY <1>1, <1>3, <2>1, <3>1
  <2>2. CASE ~ (k < i)
    <3>1. k - (i - 1) \in 1 .. Len(s) - i /\ (k - (i - 1)) + i = k + 1 /\ ~ (k <= i - 1)
      BY <1>1, <2>2
    <3>2. (a \o b)[k] = b[k - (i - 1)]
      BY <1>3, <3>1
    <3>3. b[k - (i - 1)] = s[k + 1]
      BY <1>2, <3>1
    <3> QED
      BY <2>2, <3>2, <3>3
  <2> QED
    BY <2>1, <2>2
<1>5. RemoveAt(s, i) = a \o b
  BY DEF RemoveAt, a, b
<1> QED
  BY <1>3, <1>4, <1>5

\* The numbers of a call.
LEMMA CallNumbers ==
    ASSUME GateTyped
    PROVE  /\ Timeout \in Nat /\ Interval \in Nat /\ valid_for \in Int
           /\ \A p \in Probers :
                 /\ check[p].budget \in Nat /\ check[p].elapsed \in Nat
                 /\ check[p].budget <= Timeout /\ check[p].elapsed <= Timeout
                 /\ check[p].step \in {"idle", "waiting", "probing"}
BY HealthAssumption DEF GateTyped, Calls, Unset, Fresh

\* A prober joins the queue.
LEMMA JoinsQueue ==
    ASSUME GateTyped, LockInv, NEW p \in Probers, check[p].step = "idle", Begin(p)
    PROVE  /\ LockInv' /\ (LockFree' <=> LockFree)
           /\ check'[p] = Call("waiting", Timeout, 0)
           /\ \A q \in Probers : q # p => check'[q] = check[q]
<1>1. /\ check'[p] = Call("waiting", Timeout, 0)
      /\ \A q \in Probers : q # p => check'[q] = check[q]
  BY DEF Begin, GateTyped
<1>2. /\ check'[p].step = "waiting" /\ check'[p].budget = Timeout /\ check'[p].elapsed = 0
  BY <1>1 DEF Call
<1>3. LockFree' <=> LockFree
  BY <1>1, <1>2 DEF LockFree
<1>4. /\ waiters \in Seq(Probers) /\ Len(waiters) \in Nat /\ waiters' \in Seq(Probers)
      /\ Len(waiters') = Len(waiters) + 1
      /\ \A i \in 1 .. Len(waiters) : waiters'[i] = waiters[i]
      /\ waiters'[Len(waiters) + 1] = p
  BY DEF LockInv, Begin
<1>5. \A i \in 1 .. Len(waiters) : waiters[i] # p /\ waiters[i] \in Probers
  BY <1>4 DEF LockInv, Waiting
<1>6. \A i \in 1 .. Len(waiters') : i \in 1 .. Len(waiters) \/ i = Len(waiters) + 1
  BY <1>4
<1>7. \A i, j \in 1 .. Len(waiters') : waiters'[i] = waiters'[j] => i = j
  BY <1>4, <1>5, <1>6 DEF LockInv
<1>8. \A q \in Probers : Waiting(q)' <=> Waiting(q) \/ q = p
  <2>1. Len(waiters) + 1 \in 1 .. Len(waiters') /\ \A i \in 1 .. Len(waiters) : i \in 1 .. Len(waiters')
    BY <1>4
  <2> QED
    BY <1>4, <1>6, <2>1 DEF Waiting
<1>9. \A i \in 2 .. Len(waiters') : check'[waiters'[i]].budget = Timeout
  <2> SUFFICES ASSUME NEW i \in 2 .. Len(waiters') PROVE check'[waiters'[i]].budget = Timeout
    OBVIOUS
  <2>1. CASE i = Len(waiters) + 1
    BY <1>2, <1>4, <2>1
  <2>2. CASE i # Len(waiters) + 1
    <3>1. i \in 2 .. Len(waiters) /\ i \in 1 .. Len(waiters)
      BY <1>4, <2>2
    <3>2. waiters'[i] = waiters[i] /\ waiters[i] # p /\ waiters[i] \in Probers
      BY <1>4, <1>5, <3>1
    <3>3. check'[waiters'[i]] = check[waiters[i]]
      BY <1>1, <3>2
    <3> QED
      BY <3>1, <3>3 DEF LockInv
  <2> QED
    BY <2>1, <2>2
<1>10. \A q \in Probers : q # p => Waited(q)' = Waited(q)
  BY <1>1 DEF Waited
<1>11. Waited(p)' = 0
  BY <1>2, CallNumbers DEF Waited
<1>12. LockInv'
  <2>1. \A q \in Probers : check'[q].step = "waiting" <=> Waiting(q)'
    BY <1>1, <1>2, <1>8 DEF LockInv
  <2>2. \A q \in Probers : check'[q].step = "waiting" => check'[q].elapsed = 0
    BY <1>1, <1>2 DEF LockInv
  <2>3. \A q \in Probers : check'[q].step # "idle" => Waited(q)' >= 0 /\ 2 * Waited(q)' < Timeout
    BY <1>1, <1>10, <1>11, HealthAssumption DEF LockInv
  <2>4. \A q \in Probers : check'[q].step = "probing" => 2 * check'[q].elapsed < Timeout
    BY <1>1, <1>2 DEF LockInv
  <2>5. ASSUME NEW q \in Probers, NEW r \in Probers, q # r, check'[r].step = "probing"
        PROVE  /\ check'[q].step # "probing"
               /\ check'[q].step = "waiting" => Waited(q)' <= check'[r].elapsed
    <3>1. r # p /\ check'[r] = check[r] /\ check[r].elapsed \in Nat
      BY <1>1, <1>2, <2>5, CallNumbers
    <3>2. CASE q = p
      BY <1>2, <1>11, <3>1, <3>2
    <3>3. CASE q # p
      BY <1>1, <1>10, <2>5, <3>1, <3>3 DEF LockInv
    <3> QED
      BY <3>2, <3>3
  <2> QED
    BY <1>4, <1>7, <1>9, <2>1, <2>2, <2>3, <2>4, <2>5 DEF LockInv
<1> QED
  BY <1>1, <1>3, <1>12

\* A call ends that held the lock.
LEMMA EndsProbe ==
    ASSUME GateTyped, LockInv, NEW p \in Probers, check[p].step = "probing", Ended(p)
    PROVE  /\ LockInv' /\ LockFree'
           /\ check'[p] = IdleCheck
           /\ \A q \in Probers : q # p => check'[q] = check[q]
<1>1. /\ check'[p] = IdleCheck /\ check'[p].step = "idle"
      /\ \A q \in Probers : q # p => check'[q] = check[q]
  BY DEF Ended, GateTyped, IdleCheck, Call
<1>2. LockFree'
  BY <1>1 DEF LockFree, LockInv
<1>3. UNCHANGED waiters
  <2>1. \A i \in DOMAIN waiters : waiters[i] # p
    BY DEF LockInv, Waiting
  <2> QED
    BY <2>1 DEF Ended, Leaves
<1>4. \A q \in Probers : (Waiting(q)' <=> Waiting(q)) /\ (q # p => Waited(q)' = Waited(q))
  BY <1>1, <1>3 DEF Waiting, Waited
<1>5. \A i \in 1 .. Len(waiters) : waiters[i] # p /\ waiters[i] \in Probers
  BY DEF LockInv, Waiting
<1>6. \A i \in 2 .. Len(waiters') : check'[waiters'[i]].budget = Timeout
  <2> SUFFICES ASSUME NEW i \in 2 .. Len(waiters) PROVE check'[waiters[i]].budget = Timeout
    BY <1>3
  <2>1. i \in 1 .. Len(waiters)
    BY DEF LockInv
  <2>2. check'[waiters[i]] = check[waiters[i]]
    BY <1>1, <1>5, <2>1
  <2> QED
    BY <2>2 DEF LockInv
<1>7. LockInv'
  BY <1>1, <1>2, <1>3, <1>4, <1>6 DEF LockInv, LockFree
<1> QED
  BY <1>1, <1>2, <1>7

\* The first in the queue gets the lock.
LEMMA TakesLock ==
    ASSUME GateTyped, LockInv, NEW p \in Probers, check[p].step = "waiting", LockFree,
           Head(waiters) = p, Leaves(p),
           check' = [check EXCEPT ![p] = Call("probing", check[p].budget, 0)]
    PROVE  LockInv'
<1>1. /\ check'[p] = Call("probing", check[p].budget, 0)
      /\ \A q \in Probers : q # p => check'[q] = check[q]
  BY DEF GateTyped
<1>2. check'[p].step = "probing" /\ check'[p].budget = check[p].budget /\ check'[p].elapsed = 0
  BY <1>1 DEF Call
<1>3. Len(waiters) \in Nat /\ Len(waiters) >= 1 /\ waiters[1] = p /\ waiters \in Seq(Probers)
  <2>1. PICK i \in 1 .. Len(waiters) : waiters[i] = p
    BY DEF LockInv, Waiting
  <2> QED
    BY <2>1 DEF LockInv
<1>4. waiters' = RemoveAt(waiters, 1)
  <2>1. p \in ToSet(waiters)
    BY <1>3 DEF ToSet
  <2>2. PICK i \in DOMAIN waiters : waiters[i] = p /\ waiters' = RemoveAt(waiters, i)
    BY <2>1 DEF Leaves
  <2>3. i = 1
    BY <1>3, <2>2 DEF LockInv
  <2> QED
    BY <2>2, <2>3
<1>5. /\ waiters' \in Seq(Probers) /\ Len(waiters') = Len(waiters) - 1
      /\ \A k \in 1 .. Len(waiters) - 1 : waiters'[k] = waiters[k + 1]
  <2>1. 1 \in 1 .. Len(waiters)
    BY <1>3
  <2>2. /\ waiters' \in Seq(Probers) /\ Len(waiters') = Len(waiters) - 1
        /\ \A k \in 1 .. Len(waiters) - 1 :
              waiters'[k] = IF k < 1 THEN waiters[k] ELSE waiters[k + 1]
    BY <1>3, <1>4, <2>1, RemoveOne, Zenon
  <2>3. \A k \in 1 .. Len(waiters) - 1 : ~ (k < 1)
    BY <1>3
  <2> QED
    BY <2>2, <2>3, Zenon
<1>6. \A k \in 1 .. Len(waiters') :
         /\ k + 1 \in 2 .. Len(waiters) /\ k + 1 \in 1 .. Len(waiters)
         /\ waiters'[k] = waiters[k + 1] /\ waiters'[k] # p /\ waiters'[k] \in Probers
  BY <1>3, <1>5 DEF LockInv
<1>7. \A i, j \in 1 .. Len(waiters') : waiters'[i] = waiters'[j] => i = j
  <2> SUFFICES ASSUME NEW i \in 1 .. Len(waiters'), NEW j \in 1 .. Len(waiters'),
                      waiters'[i] = waiters'[j] PROVE i = j
    OBVIOUS
  <2>1. i + 1 = j + 1
    BY <1>6 DEF LockInv
  <2> QED
    BY <2>1
<1>8. \A q \in Probers : Waiting(q)' <=> Waiting(q) /\ q # p
  <2>1. ASSUME NEW q \in Probers, Waiting(q), q # p PROVE Waiting(q)'
    <3>1. PICK i \in 1 .. Len(waiters) : waiters[i] = q
      BY <2>1 DEF Waiting
    <3>2. i - 1 \in 1 .. Len(waiters') /\ (i - 1) + 1 = i
      BY <1>3, <1>5, <2>1, <3>1
    <3> QED
      BY <1>6, <3>1, <3>2 DEF Waiting
  <2>2. ASSUME NEW q \in Probers, Waiting(q)' PROVE Waiting(q) /\ q # p
    <3>1. PICK i \in 1 .. Len(waiters') : waiters'[i] = q
      BY <2>2 DEF Waiting
    <3> QED
      BY <1>6, <3>1 DEF Waiting
  <2> QED
    BY <2>1, <2>2
<1>9. \A k \in 1 .. Len(waiters') : check'[waiters'[k]].budget = Timeout
  <2> SUFFICES ASSUME NEW k \in 1 .. Len(waiters') PROVE check'[waiters'[k]].budget = Timeout
    OBVIOUS
  <2>1. check'[waiters'[k]] = check[waiters[k + 1]]
    BY <1>1, <1>6
  <2> QED
    BY <1>6, <2>1 DEF LockInv
<1>10. (\A q \in Probers : q # p => Waited(q)' = Waited(q)) /\ Waited(p)' = Waited(p)
  <2>1. \A q \in Probers : q # p => Waited(q)' = Waited(q)
    BY <1>1 DEF Waited
  <2>2. check[p].elapsed = 0
    BY DEF LockInv
  <2> QED
    BY <1>2, <2>1, <2>2 DEF Waited
<1>11. LockInv'
  <2>1. \A q \in Probers : check'[q].step = "waiting" <=> Waiting(q)'
    BY <1>1, <1>2, <1>8 DEF LockInv
  <2>2. \A q \in Probers : check'[q].step = "waiting" => check'[q].elapsed = 0
    BY <1>1, <1>2 DEF LockInv
  <2>3. \A q \in Probers : check'[q].step # "idle" => Waited(q)' >= 0 /\ 2 * Waited(q)' < Timeout
    BY <1>1, <1>10 DEF LockInv
  <2>4. \A q \in Probers : check'[q].step = "probing" => 2 * check'[q].elapsed < Timeout
    BY <1>1, <1>2, HealthAssumption DEF LockInv
  <2>5. ASSUME NEW q \in Probers, NEW r \in Probers, q # r, check'[r].step = "probing"
        PROVE  /\ check'[q].step # "probing"
               /\ check'[q].step = "waiting" => Waited(q)' <= check'[r].elapsed
    <3>1. r = p /\ q # p /\ check'[q] = check[q]
      BY <1>1, <2>5 DEF LockFree
    <3>2. check'[q].step # "probing"
      BY <3>1 DEF LockFree
    <3>3. ASSUME check'[q].step = "waiting" PROVE Waited(q)' <= check'[r].elapsed
      <4>1. PICK k \in 1 .. Len(waiters') : waiters'[k] = q
        BY <2>1, <3>3 DEF Waiting
      <4>2. check'[q].budget = Timeout /\ check'[q].elapsed = 0
        BY <1>9, <2>2, <3>3, <4>1
      <4> QED
        BY <1>2, <3>1, <4>2, CallNumbers DEF Waited
    <3> QED
      BY <3>2, <3>3
  <2>6. \A i \in 2 .. Len(waiters') : check'[waiters'[i]].budget = Timeout
    BY <1>5, <1>3, <1>9
  <2> QED
    BY <1>5, <1>7, <2>1, <2>2, <2>3, <2>4, <2>5, <2>6 DEF LockInv
<1> QED
  BY <1>11

\* Time passes for the lock, as long as nobody is late and no probe takes half of its budget.
LEMMA TicksLock ==
    ASSUME GateTyped, LockInv, runtime = "ready", Tick, ~ Due, \A p \in Probers : ~ SlowProbe(p)
    PROVE  /\ LockInv' /\ (LockFree' <=> LockFree)
           /\ \A p \in Probers :
                 /\ check'[p].step = check[p].step
                 /\ check[p].step = "probing" =>
                       check'[p].elapsed = check[p].elapsed + 1 /\ 2 * check'[p].elapsed < Timeout
                 /\ check[p].step = "waiting" => Waited(p)' = Waited(p) + 1 /\ ~ LockFree
<1>1. ASSUME NEW p \in Probers
      PROVE  /\ check'[p].step = check[p].step /\ check'[p].budget = Less(check[p].budget)
             /\ check'[p].elapsed = IF check[p].step = "probing"
                                    THEN Upto(check[p].elapsed + 1, Timeout)
                                    ELSE check[p].elapsed
  BY DEF Tick, Call
<1>2. ASSUME NEW p \in Probers, check[p].step # "idle"
      PROVE  check'[p].budget = check[p].budget - 1
  BY <1>1, <1>2, CallNumbers DEF Due, Less
<1>3. ASSUME NEW p \in Probers, check[p].step = "probing"
      PROVE  /\ check'[p].elapsed = check[p].elapsed + 1 /\ 2 * check'[p].elapsed < Timeout
             /\ Waited(p)' = Waited(p)
  <2>1. check[p].elapsed \in Nat /\ Timeout \in Nat /\ 2 * (check[p].elapsed + 1) < Timeout
    BY <1>3, CallNumbers DEF SlowProbe
  <2>2. check'[p].elapsed = check[p].elapsed + 1
    BY <1>1, <1>3, <2>1 DEF Upto
  <2> QED
    BY <1>2, <1>3, <2>1, <2>2, CallNumbers DEF Waited
<1>4. UNCHANGED waiters /\ (LockFree' <=> LockFree) /\ \A p \in Probers : Waiting(p)' <=> Waiting(p)
  BY <1>1 DEF Tick, LockFree, Waiting
<1>5. ASSUME NEW p \in Probers, check[p].step = "waiting"
      PROVE  ~ LockFree /\ Waited(p)' = Waited(p) + 1 /\ check'[p].elapsed = 0
  <2>1. waiters # << >>
    BY <1>5 DEF LockInv, Waiting
  <2>2. ~ LockFree
    BY <2>1 DEF Due
  <2>3. check[p].elapsed = 0
    BY <1>5 DEF LockInv
  <2> QED
    BY <1>1, <1>2, <1>5, <2>2, <2>3, CallNumbers DEF Waited
<1>6. \A i \in 2 .. Len(waiters) : FALSE
  <2> SUFFICES ASSUME NEW i \in 2 .. Len(waiters) PROVE FALSE
    OBVIOUS
  <2>1. 1 \in 1 .. Len(waiters) /\ i \in 1 .. Len(waiters) /\ i # 1 /\ waiters \in Seq(Probers)
    BY DEF LockInv
  <2>2. /\ waiters[1] # waiters[i] /\ waiters[1] \in Probers /\ waiters[i] \in Probers
        /\ check[waiters[1]].step = "waiting" /\ check[waiters[i]].step = "waiting"
    BY <2>1 DEF LockInv, Waiting
  <2>3. \A p \in Probers : check[p].step = "waiting"
    BY <2>2 DEF Probers
  <2>4. LockFree
    BY <2>3 DEF LockFree
  <2> QED
    BY <1>5, <2>2, <2>4
<1>7. LockInv'
  <2>1. \A p \in Probers : check'[p].step = "waiting" <=> Waiting(p)'
    BY <1>1, <1>4 DEF LockInv
  <2>2. ASSUME NEW p \in Probers, NEW q \in Probers, p # q, check'[q].step = "probing"
        PROVE  /\ check'[p].step # "probing"
               /\ check'[p].step = "waiting" => Waited(p)' <= check'[q].elapsed
    <3>1. check[q].step = "probing" /\ check[q].elapsed \in Nat /\ check'[p].step = check[p].step
      BY <1>1, <2>2, CallNumbers
    <3>2. check[p].step # "probing" /\ (check[p].step = "waiting" => Waited(p) <= check[q].elapsed)
      BY <2>2, <3>1 DEF LockInv
    <3>3. Waited(p) \in Int
      BY CallNumbers DEF Waited
    <3> QED
      BY <1>3, <1>5, <3>1, <3>2, <3>3
  <2>3. ASSUME NEW p \in Probers, check'[p].step # "idle"
        PROVE  Waited(p)' >= 0 /\ 2 * Waited(p)' < Timeout
    <3>1. check[p].step # "idle" /\ Waited(p) \in Int /\ Waited(p) >= 0 /\ 2 * Waited(p) < Timeout
      BY <1>1, <2>3, CallNumbers DEF Waited, LockInv
    <3>2. CASE check[p].step = "probing"
      BY <1>3, <3>1, <3>2
    <3>3. CASE check[p].step = "waiting"
      <4>1. PICK q \in Probers : check[q].step = "probing"
        BY <1>5, <3>3 DEF LockFree
      <4>2. p # q /\ Waited(p)' <= check'[q].elapsed /\ 2 * check'[q].elapsed < Timeout
            /\ check'[q].elapsed \in Nat
        BY <1>1, <1>3, <2>2, <3>3, <4>1, CallNumbers
      <4>3. Waited(p)' = Waited(p) + 1
        BY <1>5, <3>3
      <4> QED
        BY <3>1, <4>2, <4>3, HealthAssumption
    <3> QED
      BY <3>1, <3>2, <3>3, CallNumbers
  <2>4. \A p \in Probers : check'[p].step = "waiting" => check'[p].elapsed = 0
    BY <1>1, <1>5
  <2>5. \A p \in Probers : check'[p].step = "probing" => 2 * check'[p].elapsed < Timeout
    BY <1>1, <1>3
  <2>6. \A i \in 2 .. Len(waiters') : check'[waiters'[i]].budget = Timeout
    BY <1>4, <1>6
  <2>7. waiters' \in Seq(Probers) /\ \A i, j \in 1 .. Len(waiters') : waiters'[i] = waiters'[j] => i = j
    BY <1>4 DEF LockInv
  <2> QED
    BY <2>1, <2>2, <2>3, <2>4, <2>5, <2>6, <2>7 DEF LockInv
<1> QED
  BY <1>1, <1>3, <1>4, <1>5, <1>7

\* The proof has not expired, and no call has used up its budget.
LEMMA Unexpired ==
    ASSUME GateTyped, TimeTyped, LockInv, ProofInv, MonitorInv
    PROVE  /\ valid_for # 0
           /\ \A p \in Probers : check[p].step # "idle" => check[p].budget # 0
<1>1. \A p \in Probers : check[p].step # "idle" => check[p].budget # 0
  BY CallNumbers DEF LockInv, Waited
<1>2. ASSUME monitor = "check" PROVE 2 * Spent < Timeout /\ Spent \in Int
  <2>1. "monitor" \in Probers /\ check["monitor"].step # "idle"
    BY <1>2 DEF MonitorInv, Probers
  <2>2. Waited("monitor") \in Int /\ check["monitor"].elapsed \in Int
    BY <2>1, CallNumbers, HealthAssumption DEF Waited
  <2>3. CASE check["monitor"].step = "probing"
    BY <2>1, <2>2, <2>3 DEF LockInv, Spent
  <2>4. CASE check["monitor"].step # "probing" /\ LockFree
    BY <2>4, HealthAssumption DEF Spent
  <2>5. CASE check["monitor"].step # "probing" /\ ~ LockFree
    <3>1. 2 * Waited("monitor") < Timeout
      BY <2>1, <2>5, CallNumbers, HealthAssumption DEF LockInv, Waited
    <3> QED
      BY <2>2, <2>5, <3>1 DEF Spent
  <2> QED
    BY <2>3, <2>4, <2>5
<1>3. valid_for # 0
  BY <1>2, CallNumbers, HealthAssumption DEF ProofInv, TimeTyped, Unset
<1> QED
  BY <1>1, <1>3

\* Every step keeps it: without an excuse no probe fails.
LEMMA AlarmNext == HInv /\ TimeTyped /\ AlarmInv /\ [Next]_vars => AlarmInv'
<1> SUFFICES ASSUME HInv, TimeTyped, AlarmInv, [Next]_vars, ~ excuse' PROVE AlarmInv'
  BY DEF AlarmInv, Quiet
<1>0. /\ GateTyped /\ "monitor" \in Probers /\ "worker" \in Probers /\ "monitor" # "worker"
      /\ closed \in BOOLEAN /\ failed \in BOOLEAN /\ excuse \in BOOLEAN
      /\ \A p \in Probers : p # "monitor" => p = "worker"
  BY DEF HInv, GateTyped, Probers, TimeTyped
<1>1. ~ excuse
  <2>1. CASE Tick
    BY <1>0, <2>1 DEF Tick
  <2>2. CASE MonitorCancelled
    BY <1>0, <2>2 DEF MonitorCancelled
  <2>3. CASE ~ Tick /\ ~ MonitorCancelled
    BY <2>3 DEF Next, start, WakeUp, ProbeAfterError, Probe, Acquire, Answer, TimedOut,
       ReadExpired, close, RuntimeChanges, history, vars
  <2> QED
    BY <2>1, <2>2, <2>3
<1>2. /\ ~ failed /\ runtime = "ready"
      /\ ~ closed => LockInv /\ ProofInv /\ MonitorInv
  BY <1>1 DEF AlarmInv, Quiet
<1>3. UNCHANGED runtime
  BY DEF Next, start, WakeUp, ProbeAfterError, Probe, Acquire, Answer, TimedOut,
       ReadExpired, close, MonitorCancelled, RuntimeChanges, Tick, vars
<1>4. CASE closed
  <2>1. closed'
    BY <1>4 DEF Next, start, WakeUp, ProbeAfterError, Probe, Acquire, Answer, TimedOut,
       ReadExpired, close, MonitorCancelled, RuntimeChanges, Tick, vars, gateVars, fail
  <2>2. ~ failed'
    BY <1>2, <1>4 DEF Next, start, WakeUp, ProbeAfterError, Probe, Acquire, Answer, TimedOut,
       ReadExpired, close, MonitorCancelled, RuntimeChanges, Tick, vars, gateVars, fail
  <2> QED
    BY <1>2, <1>3, <2>1, <2>2 DEF AlarmInv, Quiet
<1>5. CASE ~ closed
  <2>1. LockInv /\ ProofInv /\ MonitorInv
    BY <1>2, <1>5
  <2>2. valid_for # 0 /\ \A p \in Probers : check[p].step # "idle" => check[p].budget # 0
    BY <1>0, <2>1, Unexpired
  <2>3. ASSUME ~ failed', closed' \/ (LockInv' /\ ProofInv' /\ MonitorInv') PROVE AlarmInv'
    BY <1>2, <1>3, <2>3 DEF AlarmInv, Quiet
  <2>4. CASE start
    <3>1. /\ monitor = "none" /\ monitor' = "check" /\ Begin("monitor") /\ check["monitor"].step = "idle"
          /\ UNCHANGED <<closed, failed, valid_for>>
      BY <2>1, <2>4 DEF start, MonitorInv, gateVars
    <3>2. LockInv' /\ check'["monitor"].step = "waiting" /\ check'["worker"] = check["worker"]
      BY <1>0, <2>1, <3>1, JoinsQueue DEF Call
    <3>3. ProofInv' /\ MonitorInv'
      BY <2>1, <3>1, <3>2 DEF ProofInv, MonitorInv
    <3> QED
      BY <1>2, <2>3, <3>1, <3>2, <3>3
  <2>5. CASE WakeUp
    <3>1. /\ monitor = "sleep" /\ sleep_for = 0 /\ monitor' = "check" /\ Begin("monitor")
          /\ check["monitor"].step = "idle" /\ UNCHANGED <<closed, failed, valid_for>>
      BY <1>2, <2>1, <2>5 DEF WakeUp, MonitorInv, gateVars
    <3>2. /\ LockInv' /\ check'["monitor"] = Call("waiting", Timeout, 0)
          /\ check'["worker"] = check["worker"]
      BY <1>0, <2>1, <3>1, JoinsQueue
    <3>3. Spent' = 0
      BY <3>2, CallNumbers, <1>0 DEF Spent, Call, Waited
    <3>4. ProofInv' /\ MonitorInv'
      BY <1>0, <2>1, <3>1, <3>2, <3>3, CallNumbers DEF ProofInv, MonitorInv, Call
    <3> QED
      BY <1>2, <2>3, <3>1, <3>2, <3>4
  <2>6. CASE ProbeAfterError
    <3>1. /\ check["worker"].step = "idle" /\ Begin("worker") /\ valid_for # Unset
          /\ UNCHANGED <<closed, failed, valid_for, monitor, sleep_for>>
      BY <2>6 DEF ProbeAfterError, gateVars, Available, Unset
    <3>2. LockInv' /\ (LockFree' <=> LockFree) /\ check'["monitor"] = check["monitor"]
      BY <1>0, <2>1, <3>1, JoinsQueue
    <3>3. ProofInv' /\ MonitorInv'
      BY <2>1, <3>1, <3>2 DEF ProofInv, MonitorInv, Spent, Waited
    <3> QED
      BY <1>2, <2>3, <3>1, <3>2, <3>3
  <2>7. ASSUME NEW p \in Probers, Acquire(p) PROVE AlarmInv'
    <3>1. /\ check[p].step = "waiting" /\ LockFree /\ Head(waiters) = p /\ Leaves(p)
          /\ check' = [check EXCEPT ![p] = Call("probing", check[p].budget, 0)]
          /\ UNCHANGED <<closed, failed, valid_for, monitor, sleep_for>>
      BY <1>2, <1>5, <2>2, <2>7 DEF Acquire, gateVars
    <3>2. LockInv'
      BY <1>0, <2>1, <3>1, TakesLock
    <3>3. /\ check'[p].step = "probing" /\ check'[p].elapsed = 0 /\ check'[p].budget = check[p].budget
          /\ \A q \in Probers : q # p => check'[q] = check[q]
      BY <1>0, <3>1 DEF Call, GateTyped
    <3>4. ASSUME monitor = "check" PROVE Spent = 0 /\ Spent' >= 0 /\ Spent' \in Int
      <4>1. Spent = 0
        BY <1>0, <3>1 DEF Spent, LockFree
      <4>2. CASE p = "monitor"
        BY <3>3, <4>1, <4>2 DEF Spent
      <4>3. CASE p # "monitor"
        <5>1. /\ check'["monitor"] = check["monitor"] /\ ~ LockFree' /\ Waited("monitor") \in Int
              /\ Waited("monitor") >= 0 /\ check["monitor"].step = "waiting"
          <6>1. check'["monitor"] = check["monitor"] /\ ~ LockFree' /\ Waited("monitor") \in Int
            BY <1>0, <3>3, <4>3, CallNumbers DEF LockFree, Waited
          <6>2. check["monitor"].step = "waiting"
            BY <1>0, <2>1, <3>1, <3>4, CallNumbers DEF MonitorInv, LockFree
          <6> QED
            BY <1>0, <2>1, <6>1, <6>2 DEF LockInv
        <5> QED
          BY <4>1, <5>1 DEF Spent, Waited
      <4> QED
        BY <4>1, <4>2, <4>3
    <3>5. MonitorInv'
      BY <1>0, <2>1, <3>1, <3>3 DEF MonitorInv
    <3>6. ProofInv'
      <4>1. monitor = "check" => 2 * valid_for > Timeout - 2 * Spent \/ valid_for = Unset
        BY <2>1 DEF ProofInv
      <4> QED
        BY <1>0, <2>1, <3>1, <3>4, CallNumbers DEF ProofInv
    <3> QED
      BY <1>2, <2>3, <3>1, <3>2, <3>5, <3>6
  <2>8. ASSUME NEW p \in Probers, Answer(p) PROVE AlarmInv'
    <3>1. check[p].step = "probing" /\ Ended(p) /\ 2 * check[p].elapsed < Timeout
          /\ check[p].elapsed \in Nat
      BY <1>0, <2>1, <2>8, CallNumbers DEF Answer, LockInv
    <3>2. StillOpen /\ check[p].elapsed < Timeout
      BY <1>2, <1>5, <2>2, <3>1, HealthAssumption DEF StillOpen
    <3>3. valid_for' = Fresh - check[p].elapsed /\ UNCHANGED <<closed, failed>>
      BY <1>2, <2>8, <3>2 DEF Answer, Renewed
    <3>4. 2 * valid_for' > 2 * Interval + Timeout /\ valid_for' \in Int /\ valid_for' # Unset
      BY <3>1, <3>3, HealthAssumption DEF Fresh, Unset
    <3>5. /\ LockInv' /\ LockFree' /\ check'[p] = IdleCheck
          /\ \A q \in Probers : q # p => check'[q] = check[q]
      BY <1>0, <2>1, <3>1, EndsProbe
    <3>6. CASE p = "monitor"
      <4>1. monitor' = "sleep" /\ sleep_for' = Interval /\ check'["monitor"].step = "idle"
        BY <1>2, <3>1, <3>3, <3>5, <3>6 DEF Ended, IdleCheck, Call
      <4>2. ProofInv' /\ MonitorInv'
        BY <3>4, <4>1 DEF ProofInv, MonitorInv
      <4> QED
        BY <1>2, <2>3, <3>3, <3>5, <4>2
    <3>7. CASE p # "monitor"
      <4>1. UNCHANGED <<monitor, sleep_for>> /\ check'["monitor"] = check["monitor"]
        BY <1>0, <3>1, <3>5, <3>7 DEF Ended
      <4>2. check["monitor"].step # "probing"
        BY <1>0, <2>1, <3>1, <3>7 DEF LockInv
      <4>3. Spent' = 0
        BY <3>5, <4>1, <4>2 DEF Spent
      <4>4. monitor \in {"check", "sleep"} /\ sleep_for \in 0 .. Interval /\ valid_for' # Unset
        <5>1. p = "worker" /\ valid_for # Unset
          BY <1>0, <2>1, <3>1, <3>7 DEF MonitorInv
        <5> QED
          BY <2>1, <3>4, <5>1 DEF ProofInv, TimeTyped
      <4>5. ProofInv' /\ MonitorInv'
        <5>1. MonitorInv'
          BY <2>1, <4>1, <4>4 DEF MonitorInv
        <5>2. 2 * valid_for' > 2 * sleep_for + Timeout /\ 2 * valid_for' > Timeout - 2 * Spent'
          <6>1. \A v, t \in Int : 2 * v > 2 * Interval + Timeout /\ t \in 0 .. Interval =>
                   2 * v > 2 * t + Timeout /\ 2 * v > Timeout - 2 * 0
            BY HealthAssumption
          <6>2. sleep_for \in Int
            BY <4>4
          <6> QED
            BY <3>4, <4>3, <4>4, <6>1, <6>2, Zenon
        <5> QED
          BY <4>1, <4>4, <5>1, <5>2 DEF ProofInv
      <4> QED
        BY <1>2, <2>3, <3>3, <3>5, <4>5
    <3> QED
      BY <3>6, <3>7
  <2>9. ASSUME NEW p \in Probers, TimedOut(p) PROVE AlarmInv'
    BY <2>2, <2>9 DEF TimedOut
  <2>10. CASE ReadExpired
    BY <2>2, <2>10 DEF ReadExpired
  <2>11. CASE close
    BY <1>2, <2>3, <2>11 DEF close
  <2>12. CASE MonitorCancelled
    BY <1>5, <2>12 DEF MonitorCancelled
  <2>13. CASE RuntimeChanges
    BY <2>13 DEF RuntimeChanges
  <2>14. CASE Tick
    <3>1. /\ ~ Due /\ \A p \in Probers : ~ SlowProbe(p)
      BY <2>14 DEF Tick
    <3>2. /\ UNCHANGED <<closed, failed, monitor>> /\ valid_for' = Less(valid_for)
          /\ sleep_for' = Less(sleep_for)
      BY <2>14 DEF Tick
    <3>3. /\ LockInv' /\ (LockFree' <=> LockFree)
          /\ check'["monitor"].step = check["monitor"].step
          /\ check["monitor"].step = "probing" =>
                check'["monitor"].elapsed = check["monitor"].elapsed + 1
          /\ check["monitor"].step = "waiting" => Waited("monitor")' = Waited("monitor") + 1 /\ ~ LockFree
      BY <1>0, <1>2, <2>1, <2>14, <3>1, TicksLock
    <3>4. MonitorInv'
      <4>1. valid_for # Unset => valid_for' # Unset
        BY <1>0, <3>2 DEF Less, Unset, GateTyped
      <4>2. check'["worker"].step = check["worker"].step
        BY <1>0, <1>2, <2>1, <2>14, <3>1, TicksLock
      <4> QED
        BY <2>1, <3>2, <3>3, <4>1, <4>2 DEF MonitorInv
    <3>5. ASSUME monitor = "check" PROVE Spent' = Spent + 1 /\ Spent \in Int
      <4>1. check["monitor"].step \in {"waiting", "probing"} /\ check["monitor"].elapsed \in Nat
            /\ Waited("monitor") \in Int
        BY <1>0, <2>1, <3>5, CallNumbers DEF MonitorInv, Waited
      <4> QED
        BY <3>3, <4>1 DEF Spent
    <3>6. ASSUME monitor = "sleep" PROVE sleep_for' = sleep_for - 1 /\ sleep_for \in Nat
      BY <3>1, <3>2, <3>6 DEF Due, Less, TimeTyped
    <3>7. valid_for = Unset => valid_for' = Unset
      BY <3>2 DEF Less, Unset
    <3>8. valid_for # Unset => valid_for > 0 /\ valid_for' = valid_for - 1 /\ valid_for \in Int
      BY <1>0, <2>2, <3>2 DEF Less, Unset, GateTyped
    <3>9. ProofInv'
      BY <1>0, <2>1, <3>2, <3>5, <3>6, <3>7, <3>8, CallNumbers DEF ProofInv
    <3> QED
      BY <1>2, <2>3, <3>2, <3>3, <3>4, <3>9
  <2>15. CASE UNCHANGED vars
    <3>1. UNCHANGED <<closed, failed, valid_for, monitor, sleep_for, check, waiters>>
      BY <2>15 DEF vars
    <3>2. LockInv'
      BY <2>1, <3>1 DEF LockInv, Waiting, Waited
    <3>3. ProofInv' /\ MonitorInv'
      BY <2>1, <3>1 DEF ProofInv, MonitorInv, Spent, LockFree, Waited
    <3> QED
      BY <1>2, <2>3, <3>1, <3>2, <3>3
  <2> QED
    BY <2>4, <2>5, <2>6, <2>7, <2>8, <2>9, <2>10, <2>11, <2>12, <2>13, <2>14, <2>15 DEF Next, Probe
<1> QED
  BY <1>0, <1>4, <1>5

\* The supervisor that has just been made has nothing to be alarmed about.
LEMMA AlarmInit == Init => AlarmInv
<1> SUFFICES ASSUME Init PROVE AlarmInv
  OBVIOUS
<1>1. /\ waiters = << >> /\ \A p \in Probers : check[p].step = "idle"
      /\ valid_for = Unset /\ monitor = "none"
  BY DEF Init, IdleCheck, Call
<1>2. LockInv
  BY <1>1 DEF LockInv, Waiting
<1>3. ProofInv /\ MonitorInv
  BY <1>1 DEF ProofInv, MonitorInv, Probers
<1> QED
  BY <1>2, <1>3 DEF Init, AlarmInv

\* The gate never fails on a runtime that is ready and answers within half of the timeout, as
\* long as the event loop is responsive and nobody cancels the monitor, whatever interval and
\* timeout are and however the probes of monitor and Worker follow each other.
THEOREM NeverFalselyAlarmed == Spec => []NoFalseAlarm
<1>1. AlarmInv => NoFalseAlarm
  BY DEF AlarmInv, NoFalseAlarm
<1> QED
  BY HInit, TimeInit, AlarmInit, HNext, TimeNext, AlarmNext, <1>1, PTL DEF Spec
=============================================================================
