-------------------------- MODULE ExecutionAuthority --------------------------
(***************************************************************************)
(* What the setup promises about the installed Worker: its execution       *)
(* authority, what a Worker started now would run, changes only while the  *)
(* Worker is stopped, and a Worker is started only under an authority that *)
(* is of one piece.  It promises this as long as it has the host for       *)
(* itself: alone is FALSE once systemd or an operator has interfered.      *)
(***************************************************************************)
CONSTANTS Whole, Broken, Stopped

VARIABLES
    authority,  \* a member of Whole, or Broken where the parts do not fit
    worker,     \* the authority the running Worker was started under, or Stopped
    alone

vars == <<authority, worker, alone>>

Init ==
    /\ authority \in Whole
    /\ worker \in {Stopped, authority}
    /\ alone \in BOOLEAN

Change ==
    /\ alone /\ worker = Stopped
    /\ authority' \in Whole \cup {Broken}
    /\ UNCHANGED <<worker, alone>>

Start ==
    /\ alone /\ worker = Stopped /\ authority \in Whole
    /\ worker' = authority
    /\ UNCHANGED <<authority, alone>>

Stop ==
    /\ worker' = Stopped
    /\ UNCHANGED <<authority, alone>>

\* Somebody else acts on the host; the setup answers for nothing until it begins anew.
Interference ==
    /\ ~alone \/ ~alone'
    /\ authority' \in Whole \cup {Broken}
    /\ worker' \in Whole \cup {Broken, Stopped}
    /\ alone' \in BOOLEAN

Next == Change \/ Start \/ Stop \/ Interference

Spec == Init /\ [][Next]_vars
=============================================================================
