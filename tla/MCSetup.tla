------------------------------- MODULE MCSetup -------------------------------
EXTENDS SetupApply

W(goal, package, gpu, configuration, tabby, preparation, reconcile) ==
    [goal |-> goal, package |-> package, gpu |-> gpu, configuration |-> configuration,
     tabby |-> tabby, preparation |-> preparation, reconcile |-> reconcile]

\* The runtime mode of the setup, with a TabbyAPI provider; a provider that downloads or
\* converts its model; the first run; the release of the runtime.
Runtime == W("activate", FALSE, TRUE, TRUE, TRUE, "reference_only", TRUE)
MCWishes ==
    {Runtime,
     W("activate", TRUE, TRUE, FALSE, FALSE, "download", TRUE),
     W("activate", FALSE, FALSE, TRUE, FALSE, "convert", FALSE),
     W("release", FALSE, FALSE, FALSE, FALSE, "reference_only", TRUE)}

\* GPUs seen through the service's device isolation, or exactly; no model or installer.
MCFactSets == {Facts \ {"gpu_set"}, {"driver_library", "gpu_set"}}

\* Initial hosts that differ only in what the plan does not look at together are merged:
\* an older bridge is found where the Worker runs, none where it is stopped.
MCInit ==
    /\ Init
    /\ (link = "old") = (svc = "active")
    /\ wish # Runtime /\ wish.reconcile => svc = "active" /\ unit # "prior"
MCSpec == MCInit /\ [][Next]_vars
=============================================================================
