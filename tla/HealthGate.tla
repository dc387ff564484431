----------------------------- MODULE HealthGate -----------------------------
(***************************************************************************)
(* What the Worker relies on in RuntimeHealthSupervisor                    *)
(* (worker/supervision.py): a gate in front of claims, execution and       *)
(* terminal writes.  It opens once, with the first good probe, and once it *)
(* has failed or was closed it never opens again in this process.          *)
(***************************************************************************)
VARIABLE gate   \* RuntimeHealthSupervisor.state

GateStates == {"starting", "ready", "failed", "stopped"}

GateInit == gate = "starting"

Opens == gate = "starting" /\ gate' = "ready"
Fails == gate \in {"starting", "ready"} /\ gate' = "failed"
Closes == gate # "stopped" /\ gate' = "stopped"

GateNext == Opens \/ Fails \/ Closes
GateSpec == GateInit /\ [][GateNext]_gate
=============================================================================
