-------------------------- MODULE SetupApply_proofs --------------------------
(***************************************************************************)
(* What the setup promises of the host, for every plan, every number of    *)
(* applies and every amount of trouble.                                    *)
(***************************************************************************)
EXTENDS SetupApply, TLAPS

\* The names of the actions a plan may have.
Actions == {"config", "state", "cache", "ensure_package", "ensure_nvidia_driver_bridge",
            "render_config", "verify_model_reference", "download_model", "convert_model",
            "worker_stop", "reconcile_worker_execution", "preflight", "runtime_start",
            "health_check", "runtime_stop", "runtime_release"}

Tomls == Modes \cup {"edited"}
Hosts == [toml : Tomls, unit : Units, loaded : Units, files : [Targets -> Contents],
          link : Bridges, active : BOOLEAN]
Receipts == [action : Actions, items : Seq(Targets), previous : Hosts]
Processes == [toml : Tomls, unit : Units, manifest : Contents] \cup {NoProcess}

\* The types of the state, as far as the proofs need them.
TypeInv ==
    /\ wish \in Wish
    /\ toml \in Tomls /\ unit \in Units /\ loaded \in Units
    /\ files \in [Targets -> Contents] /\ link \in Bridges
    /\ svc \in {"inactive", "active", "restarting", "failed"}
    /\ running \in Processes /\ (svc = "active" <=> running # NoProcess)
    /\ phase \in {"idle", "applying", "rolling", "succeeded", "failed"}
    /\ at \in Nat
    /\ items \in Seq(Targets) /\ previous \in Hosts /\ receipts \in Seq(Receipts)
    /\ before \in Hosts
    /\ restart_safe \in BOOLEAN /\ disturbed \in BOOLEAN
    /\ fresh \in BOOLEAN /\ edits \in SUBSET Targets

\* The places at which the authority of the Worker is being written.
AuthoritySteps == {"toml", "unit", "reload", "undo_toml", "undo_unit", "undo_reload"}

\* The places at which a rendered file is on its way to be replaced.
Restoring == {"stat", "check", "restore"}

\* TOML and unit say the same.
Fit(t, u) == t \in Modes /\ UnitMode(u) = t

\* The plan has the action.
Planned(a) == \E i \in DOMAIN Plan : Plan[i] = a

\* The running apply has stopped the Worker.
HasStopped == \E i \in DOMAIN receipts : receipts[i].action = "worker_stop"

\* The order of the planner: where an action stands in any plan that has it.
Rank(a) ==
    CASE a = "config" -> 1 [] a = "state" -> 2 [] a = "cache" -> 3
      [] a = "ensure_package" -> 4 [] a = "ensure_nvidia_driver_bridge" -> 5
      [] a = "render_config" -> 6
      [] a \in {"verify_model_reference", "download_model", "convert_model"} -> 7
      [] a = "worker_stop" -> 8 [] a = "reconcile_worker_execution" -> 9
      [] a = "preflight" -> 10 [] a = "runtime_start" -> 11 [] a = "health_check" -> 12
      [] a = "runtime_stop" -> 13 [] a = "runtime_release" -> 14
      [] OTHER -> 0

\* apply_plan is at one of the actions of its plan, or at one of its receipts; the receipts
\* are of actions it has passed, in their order.
WalkInv ==
    /\ phase = "applying" => at > 0
    /\ phase = "rolling" => at <= Len(receipts)
    /\ \A i \in DOMAIN receipts : Planned(receipts[i].action)
    /\ \A i, j \in DOMAIN receipts :
          i < j => Rank(receipts[i].action) < Rank(receipts[j].action)
    /\ phase = "applying" /\ at <= Len(Plan) =>
          \A i \in DOMAIN receipts : Rank(receipts[i].action) < Rank(Act)

\* What is known wherever a handler is, and what a plan without a reconciliation keeps.
StepsInv ==
    /\ phase = "rolling" /\ step # "undo" => at > 0
    /\ Running /\ step \in AuthoritySteps =>
          ~ restart_safe /\ Planned("reconcile_worker_execution")
    /\ Running /\ step \in Restoring => items # << >>
    /\ ~ Planned("reconcile_worker_execution") => toml = "edited" \/ Fit(toml, unit)

PlaceInv == WalkInv /\ StepsInv

\* What a reconciliation goes back to is an authority whose parts fit.
ReconcileInv ==
    /\ Running /\ step \in AuthoritySteps => Fit(previous.toml, previous.unit)
    /\ \A i \in DOMAIN receipts : receipts[i].action = "reconcile_worker_execution" =>
          Fit(receipts[i].previous.toml, receipts[i].previous.unit)

\* The authority, as long as the setup has the host for itself.
AuthorityInv ==
    ~ disturbed =>
      /\ toml # "edited"
      /\ svc = "active" => /\ running.toml = toml /\ running.unit = loaded
                           /\ loaded = unit /\ Fit(toml, unit)
      /\ Running /\ restart_safe /\ HasStopped => loaded = unit
      /\ phase = "applying" /\ step \notin AuthoritySteps => Fit(toml, unit)
      /\ phase = "applying" /\ step = "start" => loaded = unit
      /\ phase = "applying" /\ step = "toml" => previous.toml = toml
      /\ phase = "applying" /\ step \in {"unit", "reload"} => toml = "runtime"
      /\ phase = "applying" /\ step = "reload" => unit = "runtime"
      /\ Running /\ step \in AuthoritySteps => svc # "active"

\* A file on its way to be replaced is the one installed, unless others acted on the host.
InstalledInv == Running /\ step \in Restoring => files[AtHand] = "new" \/ disturbed

\* The edits are kept: no file that is about to be written or replaced is one of them, and
\* where the file's identity decides, it is no longer the one taken.
RestoreInv ==
    /\ EditsKept
    /\ Running /\ step = "write" => \A i \in ToWrite : RenderTargets[i] \notin edits
    /\ Running /\ step \in {"stat", "restore"} => AtHand \notin edits
    /\ Running /\ step = "check" /\ AtHand \in edits => ~ fresh

\* The action at hand: the one applied, or the one whose receipt is undone.
Hand == IF phase = "applying" THEN Act ELSE Undo.action

\* A handler in the middle of its work is that of the action at hand.
HandInv ==
    Running =>
      /\ step \in {"write", "compare"} \cup Restoring => Hand = "render_config"
      /\ step \in AuthoritySteps => Hand = "reconcile_worker_execution"
      /\ step = "start" => Hand = "runtime_start"
      /\ phase = "applying" /\ step # "inspect" => at <= Len(Plan)

\* The Worker is started only when it was found stopped, and that still holds.
StartsInv ==
    ~ disturbed /\ phase = "applying" /\ at <= Len(Plan) /\ step \in {"apply", "start"}
    /\ Act = "runtime_start" => svc # "active"

\* The receipts that are not undone yet, and whether one of them is of the action.
Live == 1 .. (IF phase = "rolling" THEN at ELSE Len(receipts))
Held(a) == \E i \in Live : receipts[i].action = a

\* What a rollback from here needs to find the host again: outside of what the live receipts
\* remember nothing has changed, and they remember how the host was when this apply began.
AuthorityRemembered ==
    /\ ~ Held("reconcile_worker_execution") /\ step \notin AuthoritySteps =>
          /\ toml = before.toml /\ unit = before.unit
          /\ loaded \in {before.loaded, before.unit}
    /\ \A i \in Live : receipts[i].action = "reconcile_worker_execution" =>
          receipts[i].previous.toml = before.toml /\ receipts[i].previous.unit = before.unit
    /\ step \in AuthoritySteps =>
          /\ previous.toml = before.toml /\ previous.unit = before.unit
          /\ phase = "applying" /\ previous.toml = "runtime" => toml = "runtime"
    /\ step \in {"undo_unit", "undo_reload"} => toml = before.toml
    /\ step = "undo_reload" => unit = before.unit
RemembersAuthority == "authority" \notin spoiled => AuthorityRemembered

\* The apply began on an authority whose parts fit, and only a reconciliation that could not
\* clean up behind itself leaves the Worker unsafe to restart.
RemembersSafety ==
    /\ Fit(before.toml, before.unit)
    /\ step \notin AuthoritySteps /\ ~ restart_safe => "authority" \in spoiled

RemembersBridge ==
    /\ ~ Held("ensure_nvidia_driver_bridge") => link = before.link \/ "link" \in spoiled
    /\ \A i \in Live : receipts[i].action = "ensure_nvidia_driver_bridge" =>
          receipts[i].previous.link = before.link

\* The files that may still differ from before: those the handler at work, or a receipt, lists.
Rendering == step \in {"write", "compare"} \cup Restoring
MayDiffer(p) ==
    \/ Rendering /\ p \in ToSet(items)
    \/ /\ ~ Rendering
       /\ \E i \in Live : receipts[i].action = "render_config" /\ p \in ToSet(receipts[i].items)
RemembersFiles ==
    /\ \A p \in Targets \ spoiled : MayDiffer(p) \/ files[p] = before.files[p]
    /\ \A i \in Live : receipts[i].action = "render_config" =>
          receipts[i].previous.files = before.files
    /\ Rendering => previous.files = before.files

RemembersService ==
    "service" \notin spoiled =>
      /\ ~ Held("worker_stop") /\ ~ Held("runtime_start") /\ ~ Held("runtime_stop") =>
            \/ svc = "active" <=> before.active
            \/ phase = "rolling" /\ LeftStopped
      /\ Held("runtime_stop") => svc # "active" /\ wish.goal = "release"
      /\ Held("worker_stop") => before.active
      /\ Held("worker_stop") /\ ~ Held("runtime_start") => svc # "active"
      /\ Held("runtime_start") /\ ~ Held("worker_stop") => ~ before.active
      /\ Held("reconcile_worker_execution") /\ before.active => Held("worker_stop")

\* A step that raises ends the apply: until then nothing is spoiled, except by the write of a
\* rendered file whose handler cleans up behind itself.
UnspoiledInv ==
    phase = "applying" => /\ {"link", "service", "authority"} \cap spoiled = {}
                          /\ step \notin {"compare"} \cup Restoring => spoiled = {}

\* The apply is under way, nothing was reported and nobody else acted on the host.
Recovers ==
    Running /\ ~ disturbed /\ reported = {} /\ (phase = "applying" => at <= Len(Plan))

RollbackInv ==
    /\ Recovers => /\ RemembersAuthority /\ RemembersSafety /\ RemembersBridge
                   /\ RemembersFiles /\ RemembersService /\ UnspoiledInv
    /\ RollbackRestores

\* What an action has achieved once apply_plan has passed it.
Done(a) ==
    /\ a = "ensure_nvidia_driver_bridge" => link = "new"
    /\ a = "render_config" => Rendered
    /\ a = "reconcile_worker_execution" => unit = "runtime"
    /\ a = "runtime_start" => svc = "active"
    /\ a = "health_check" => ready
DoneInv == phase = "applying" => \A i \in 1 .. Len(Plan) : i < at => Done(Plan[i])

\* A runtime Worker runs under the reviewed manifest, or under the one a Worker that is
\* reconciled was installed with and that is still in place.
ManifestInv ==
    svc = "active" /\ running.toml = "runtime" =>
       running.manifest = "new" \/ (wish.reconcile /\ running.manifest = files["manifest"])

\* Files are rendered where they differ, for a Worker in smoke mode if it is reconciled; what
\* is written stays written.
RenderInv ==
    phase = "applying" =>
      /\ at <= Len(Plan) /\ step = "apply" /\ Act = "render_config" => ~ Rendered
      /\ step = "write" /\ wish.reconcile => toml = "smoke"
      /\ step = "write" => \A p \in Targets :
            p \in ToSet(items) \/ previous.files[p] = "new" => files[p] = "new"

\* Without a reconciliation the unit is the runtime unit of the installer.
UnitInv ==
    /\ wish \in Wishes
    /\ ~ Planned("reconcile_worker_execution") /\ ~ wish.reconcile => unit = "runtime"

\* The apply is one that activates a reviewed deployment, undisturbed.
Activates == wish.goal = "activate" /\ wish.configuration /\ ~ disturbed

SuccessInv ==
    /\ UnitInv
    /\ Activates => DoneInv /\ ManifestInv /\ RenderInv /\ SuccessRunsReviewed

IInv == TypeInv /\ PlaceInv /\ ReconcileInv /\ AuthorityInv /\ InstalledInv /\ RestoreInv

-----------------------------------------------------------------------------
(* The types                                                               *)

\* Part of a plan, with the actions whose ranks lie from low up to below high, in order.
Ordered(part, low, high) ==
    /\ part \in Seq(Actions)
    /\ \A i \in 1 .. Len(part) : low <= Rank(part[i]) /\ Rank(part[i]) < high
    /\ \A i, j \in 1 .. Len(part) : i < j => Rank(part[i]) < Rank(part[j])

\* The ranks of the actions.
LEMMA Ranks ==
    /\ Rank("config") = 1 /\ Rank("state") = 2 /\ Rank("cache") = 3
    /\ Rank("ensure_package") = 4 /\ Rank("ensure_nvidia_driver_bridge") = 5
    /\ Rank("render_config") = 6
    /\ Rank("verify_model_reference") = 7 /\ Rank("download_model") = 7
    /\ Rank("convert_model") = 7
    /\ Rank("worker_stop") = 8 /\ Rank("reconcile_worker_execution") = 9
    /\ Rank("preflight") = 10 /\ Rank("runtime_start") = 11 /\ Rank("health_check") = 12
    /\ Rank("runtime_stop") = 13 /\ Rank("runtime_release") = 14
BY DEF Rank

\* A rank is a number.
LEMMA RankNat == ASSUME NEW a PROVE Rank(a) \in Nat
BY DEF Rank

\* Parts that follow each other make an ordered part.
LEMMA OrderedConcat ==
    ASSUME NEW s, NEW t, NEW low \in Nat, NEW mid \in Nat, NEW high \in Nat,
           low <= mid, mid <= high, Ordered(s, low, mid), Ordered(t, mid, high)
    PROVE  Ordered(s \o t, low, high)
<1>0. s \in Seq(Actions) /\ t \in Seq(Actions)
  BY DEF Ordered
<1>1. /\ s \o t \in Seq(Actions) /\ Len(s \o t) = Len(s) + Len(t)
      /\ \A i \in 1 .. Len(s \o t) : (s \o t)[i] = IF i <= Len(s) THEN s[i] ELSE t[i - Len(s)]
      /\ Len(s) \in Nat /\ Len(t) \in Nat
  BY <1>0
<1>2. ASSUME NEW i \in 1 .. Len(s \o t)
      PROVE  /\ i <= Len(s) => low <= Rank((s \o t)[i]) /\ Rank((s \o t)[i]) < mid
             /\ i > Len(s) => mid <= Rank((s \o t)[i]) /\ Rank((s \o t)[i]) < high
  BY <1>1 DEF Ordered
<1>3. ASSUME NEW i \in 1 .. Len(s \o t), NEW j \in 1 .. Len(s \o t), i < j
      PROVE  Rank((s \o t)[i]) < Rank((s \o t)[j])
  <2>1. CASE i <= Len(s) /\ j > Len(s)
    BY <1>1, <1>2, <1>3, <2>1, RankNat
  <2>2. CASE j <= Len(s)
    BY <1>1, <1>3, <2>2 DEF Ordered
  <2>3. CASE i > Len(s)
    <3>1. i - Len(s) \in 1 .. Len(t) /\ j - Len(s) \in 1 .. Len(t) /\ i - Len(s) < j - Len(s)
      BY <1>1, <1>3, <2>3
    <3>2. (s \o t)[i] = t[i - Len(s)] /\ (s \o t)[j] = t[j - Len(s)]
      BY <1>1, <1>3, <2>3
    <3> QED
      BY <3>1, <3>2 DEF Ordered
  <2> QED
    BY <1>1, <1>3, <2>1, <2>2, <2>3
<1>4. ASSUME NEW i \in 1 .. Len(s \o t)
      PROVE  low <= Rank((s \o t)[i]) /\ Rank((s \o t)[i]) < high
  <2>1. Rank((s \o t)[i]) \in Nat /\ (i <= Len(s) \/ i > Len(s))
    BY <1>1, RankNat
  <2> QED
    BY <1>2, <2>1
<1> QED
  BY <1>1, <1>3, <1>4 DEF Ordered

\* An optional part.
LEMMA OrderedOnly ==
    ASSUME NEW c \in BOOLEAN, NEW s, NEW low \in Nat, NEW high \in Nat, Ordered(s, low, high)
    PROVE  Ordered(Only(c, s), low, high)
<1>1. CASE c
  BY <1>1 DEF Only
<1>2. CASE ~ c
  <2>1. Only(c, s) = << >>
    BY <1>2 DEF Only
  <2> QED
    BY <2>1 DEF Ordered
<1> QED
  BY <1>1, <1>2

\* A part with one action.
LEMMA OrderedOne ==
    ASSUME NEW a \in Actions
    PROVE  Ordered(<<a>>, Rank(a), Rank(a) + 1)
BY RankNat DEF Ordered

\* A setup plan is a sequence of action names in the order of the planner.
LEMMA SetupOrder ==
    ASSUME wish \in Wish
    PROVE  Ordered(build_runtime_setup_plan(wish), 1, 13)
<1>0. /\ wish.package \in BOOLEAN /\ wish.gpu \in BOOLEAN /\ wish.configuration \in BOOLEAN
      /\ wish.reconcile \in BOOLEAN /\ wish.preparation \in Preparations
  BY DEF Wish
<1>1. Ordered(<<"config", "state", "cache">>, 1, 4)
  BY Ranks DEF Ordered, Actions
<1>2. Ordered(<<"ensure_package">>, 4, 5)
  BY Ranks DEF Ordered, Actions
<1>3. Ordered(<<"ensure_nvidia_driver_bridge">>, 5, 6)
  BY Ranks DEF Ordered, Actions
<1>4. Ordered(<<"render_config">>, 6, 7)
  BY Ranks DEF Ordered, Actions
<1>5. Ordered(<<ModelAction(wish)>>, 7, 8)
  <2>1. ModelAction(wish) \in {"verify_model_reference", "download_model", "convert_model"}
    BY <1>0 DEF ModelAction, Preparations
  <2>2. ModelAction(wish) \in Actions /\ Rank(ModelAction(wish)) = 7
    BY <2>1, Ranks DEF Actions
  <2> QED
    BY <2>2, OrderedOne
<1>6. Ordered(<<"worker_stop", "reconcile_worker_execution">>, 8, 10)
  BY Ranks DEF Ordered, Actions
<1>7. Ordered(<<"preflight", "runtime_start", "health_check">>, 10, 13)
  BY Ranks DEF Ordered, Actions
<1> DEFINE p1 == <<"config", "state", "cache">> \o Only(wish.package, <<"ensure_package">>)
           p2 == p1 \o Only(wish.gpu, <<"ensure_nvidia_driver_bridge">>)
           p3 == p2 \o Only(wish.configuration, <<"render_config">>)
           p4 == p3 \o <<ModelAction(wish)>>
           p5 == p4 \o Only(wish.reconcile, <<"worker_stop", "reconcile_worker_execution">>)
<1>8. Ordered(p1, 1, 5)
  BY <1>0, <1>1, <1>2, OrderedOnly, OrderedConcat
<1> HIDE DEF p1
<1>9. Ordered(p2, 1, 6)
  BY <1>0, <1>3, <1>8, OrderedOnly, OrderedConcat
<1> HIDE DEF p2
<1>10. Ordered(p3, 1, 7)
  BY <1>0, <1>4, <1>9, OrderedOnly, OrderedConcat
<1> HIDE DEF p3
<1>11. Ordered(p4, 1, 8)
  BY <1>5, <1>10, OrderedConcat
<1> HIDE DEF p4
<1>12. Ordered(p5, 1, 10)
  BY <1>0, <1>6, <1>11, OrderedOnly, OrderedConcat
<1> HIDE DEF p5
<1>13. Ordered(p5 \o <<"preflight", "runtime_start", "health_check">>, 1, 13)
  BY <1>7, <1>12, OrderedConcat
<1> QED
  BY <1>13 DEF build_runtime_setup_plan, p1, p2, p3, p4, p5

\* Every plan is one in the order of the planner.
LEMMA PlanOrder ==
    ASSUME wish \in Wish
    PROVE  Ordered(Plan, 1, 15)
<1>1. Ordered(<<"runtime_stop", "runtime_release">>, 1, 15)
  BY Ranks DEF Ordered, Actions
<1>2. Ordered(build_runtime_setup_plan(wish), 1, 15)
  BY SetupOrder, RankNat DEF Ordered
<1> QED
  BY <1>1, <1>2 DEF Plan, PlanOf, build_runtime_release_plan

\* Every plan is a sequence of action names.
LEMMA PlanIsSeq ==
    ASSUME wish \in Wish
    PROVE  Plan \in Seq(Actions) /\ DOMAIN Plan = 1 .. Len(Plan)
BY PlanOrder DEF Ordered

\* The snapshot of a host is a host.
LEMMA SnapshotType == TypeInv => Snapshot \in Hosts
BY DEF TypeInv, Snapshot, Hosts

\* Stopping and starting the service keep its types.
LEMMA ServiceTypes ==
    ASSUME TypeInv, StopService \/ StartService
    PROVE  /\ svc' \in {"inactive", "active", "restarting", "failed"}
           /\ running' \in Processes /\ (svc' = "active" <=> running' # NoProcess)
<1>1. CASE StopService
  BY <1>1 DEF TypeInv, StopService, NoProcess, Process, Processes, Contents
<1>2. CASE svc # "active" /\ StartService
  <2>1. running' = Process(toml, loaded, files["manifest"]) /\ svc' = "active"
    BY <1>2 DEF StartService
  <2>2. files["manifest"] \in Contents
    BY DEF TypeInv, Targets
  <2>3. Process(toml, loaded, files["manifest"]).toml # NoProcess.toml
    BY DEF TypeInv, Tomls, Modes, NoProcess, Process
  <2> QED
    BY <2>1, <2>2, <2>3 DEF TypeInv, Process, Processes
<1>3. CASE svc = "active" /\ StartService
  BY <1>3 DEF StartService, service, TypeInv
<1> QED
  BY <1>1, <1>2, <1>3

\* A new receipt is one of the action at hand.
LEMMA ChangedFacts ==
    ASSUME TypeInv, NEW paths \in Seq(Targets), NEW host \in Hosts, Changed(paths, host),
           at \in DOMAIN Plan
    PROVE  /\ receipts' \in Seq(Receipts)
           /\ Len(receipts') = Len(receipts) + 1
           /\ receipts'[Len(receipts) + 1] = [action |-> Act, items |-> paths, previous |-> host]
           /\ \A i \in 1 .. Len(receipts) : receipts'[i] = receipts[i]
<1>1. Act \in Actions
  BY PlanIsSeq DEF TypeInv, Act
<1>2. Receipt(paths, host) \in Receipts
  BY <1>1 DEF Receipt, Receipts
<1> QED
  BY <1>2 DEF TypeInv, Changed, Receipt

\* Wherever apply_plan goes, it is at a number.
LEMMA Moves ==
    ASSUME TypeInv, PlaceInv,
           \/ Advance \/ Raise \/ \E name : Goto(name)
           \/ phase = "rolling" /\ at > 0 /\ Undone
           \/ Running /\ step # "undo" /\ Leave
    PROVE  phase' \in {"applying", "rolling", phase} /\ at' \in Nat
<1>1. Len(receipts) \in Nat /\ at \in Nat
  BY DEF TypeInv
<1> QED
  BY <1>1 DEF PlaceInv, WalkInv, StepsInv, Advance, Raise, Goto, Undone, Leave, Running

\* The last of the files written, and those before it.
LEMMA LastFront ==
    ASSUME NEW s \in Seq(Targets), s # << >>
    PROVE  /\ Last(s) \in Targets /\ Front(s) \in Seq(Targets)
           /\ \A p : p \notin ToSet(Front(s)) /\ p # Last(s) => p \notin ToSet(s)
           /\ Last(s) \in ToSet(s)
<1>1. Len(s) \in Nat \ {0} /\ DOMAIN s = 1 .. Len(s) /\ \A i \in 1 .. Len(s) : s[i] \in Targets
  OBVIOUS
<1>2. Front(s) \in Seq(Targets) /\ Len(Front(s)) = Len(s) - 1
      /\ \A i \in 1 .. Len(s) - 1 : Front(s)[i] = s[i]
  BY <1>1 DEF Front
<1>3. ASSUME NEW p, p \in ToSet(s), p # Last(s) PROVE p \in ToSet(Front(s))
  <2>1. PICK i \in 1 .. Len(s) : p = s[i]
    BY <1>1, <1>3 DEF ToSet
  <2>2. i \in 1 .. Len(s) - 1
    BY <1>1, <1>3, <2>1 DEF Last
  <2>3. DOMAIN Front(s) = 1 .. Len(s) - 1
    BY <1>1, <1>2
  <2> QED
    BY <1>2, <2>1, <2>2, <2>3 DEF ToSet
<1>4. Last(s) \in ToSet(s)
  BY <1>1 DEF Last, ToSet
<1> QED
  BY <1>1, <1>2, <1>3, <1>4 DEF Last

\* What is written is one of the files written.
LEMMA AppendSet ==
    ASSUME NEW s \in Seq(Targets), NEW q \in Targets
    PROVE  \A p : p \in ToSet(Append(s, q)) <=> p \in ToSet(s) \/ p = q
<1>1. /\ Len(s) \in Nat /\ DOMAIN s = 1 .. Len(s) /\ DOMAIN Append(s, q) = 1 .. Len(s) + 1
      /\ \A i \in 1 .. Len(s) : Append(s, q)[i] = s[i]
      /\ Append(s, q)[Len(s) + 1] = q
  OBVIOUS
<1>2. q \in ToSet(Append(s, q))
  BY <1>1 DEF ToSet
<1>3. ASSUME NEW p \in ToSet(s) PROVE p \in ToSet(Append(s, q))
  <2>1. PICK i \in 1 .. Len(s) : p = s[i]
    BY <1>1, <1>3 DEF ToSet
  <2>2. i \in DOMAIN Append(s, q) /\ p = Append(s, q)[i]
    BY <1>1, <2>1
  <2> QED
    BY <2>2 DEF ToSet
<1>4. ASSUME NEW p \in ToSet(Append(s, q)), p # q PROVE p \in ToSet(s)
  BY <1>1, <1>4 DEF ToSet
<1> QED
  BY <1>2, <1>3, <1>4

\* What is rendered are the target files, the manifest first.
LEMMA RenderTargetsIn ==
    /\ \A i \in DOMAIN RenderTargets : RenderTargets[i] \in Targets
    /\ 1 \in DOMAIN RenderTargets /\ RenderTargets[1] = "manifest"
<1>1. CASE wish.tabby
  BY <1>1 DEF RenderTargets, Targets
<1>2. CASE ~ wish.tabby
  BY <1>2 DEF RenderTargets, Targets
<1> QED
  BY <1>1, <1>2

\* A step in which the service is stopped, started or left alone.
ServiceCall == StopService \/ StartService \/ UNCHANGED service

\* The types of what a step leaves alone, or stops and starts.
LEMMA FrameTypes ==
    ASSUME TypeInv
    PROVE  /\ UNCHANGED authority => toml' \in Tomls /\ unit' \in Units /\ loaded' \in Units
           /\ UNCHANGED files => files' \in [Targets -> Contents]
           /\ UNCHANGED link => link' \in Bridges
           /\ ServiceCall => /\ svc' \in {"inactive", "active", "restarting", "failed"}
                             /\ running' \in Processes
                             /\ svc' = "active" <=> running' # NoProcess
           /\ UNCHANGED fixed => wish' \in Wish /\ before' \in Hosts
           /\ UNCHANGED <<items, previous>> => items' \in Seq(Targets) /\ previous' \in Hosts
           /\ UNCHANGED receipts => receipts' \in Seq(Receipts)
           /\ UNCHANGED restart_safe => restart_safe' \in BOOLEAN
           /\ UNCHANGED disturbed => disturbed' \in BOOLEAN
           /\ UNCHANGED fresh => fresh' \in BOOLEAN
           /\ UNCHANGED edits => edits' \in SUBSET Targets
<1>1. ServiceCall => /\ svc' \in {"inactive", "active", "restarting", "failed"}
                     /\ running' \in Processes
                     /\ svc' = "active" <=> running' # NoProcess
  BY ServiceTypes DEF ServiceCall, service, TypeInv, NoProcess, Process
<1> QED
  BY <1>1 DEF TypeInv, authority, fixed

\* Every step of the apply keeps the types.
LEMMA StepTypes ==
    ASSUME TypeInv, PlaceInv, Step
    PROVE  TypeInv'
<1> USE FrameTypes DEF content, memory, history, ServiceCall
<1>0. /\ Snapshot \in Hosts /\ toml \in Tomls /\ unit \in Units /\ loaded \in Units
      /\ files \in [Targets -> Contents] /\ link \in Bridges
      /\ items \in Seq(Targets) /\ previous \in Hosts /\ receipts \in Seq(Receipts)
      /\ << >> \in Seq(Targets)
      /\ phase \in {"idle", "applying", "rolling", "succeeded", "failed"}
  BY SnapshotType DEF TypeInv
<1>1. \A a, name : In(a, name) => at \in DOMAIN Plan
  BY PlanIsSeq DEF In, PlaceInv, WalkInv, StepsInv, TypeInv
<1>2. CASE Inspect
  <2>1. phase' \in {"applying", "rolling", phase} /\ at' \in Nat
    BY <1>2, Moves DEF Inspect
  <2> QED
    BY <1>0, <1>2, <2>1 DEF Inspect, TypeInv
<1>3. CASE Finish
  BY <1>3 DEF Finish, TypeInv
<1>4. ASSUME NEW a, ApplyPrerequisite(a) PROVE TypeInv'
  <2>1. phase' \in {"applying", "rolling", phase} /\ at' \in Nat
    BY <1>4, Moves DEF ApplyPrerequisite
  <2> QED
    BY <1>0, <1>4, <2>1 DEF ApplyPrerequisite, TypeInv
<1>5. CASE ApplyBridge
  <2>1. phase' \in {"applying", "rolling", phase} /\ at' \in Nat
    BY <1>5, Moves DEF ApplyBridge
  <2>2. receipts' \in Seq(Receipts)
    BY <1>0, <1>1, <1>5, ChangedFacts DEF ApplyBridge
  <2>3. link' \in Bridges
    BY <1>0, <1>5 DEF ApplyBridge, Bridges
  <2> QED
    BY <1>0, <1>5, <2>1, <2>2, <2>3 DEF ApplyBridge, TypeInv
<1>6. CASE ApplyRender
  <2>1. phase' \in {"applying", "rolling", phase} /\ at' \in Nat
    BY <1>6, Moves DEF ApplyRender
  <2> QED
    BY <1>0, <1>6, <2>1 DEF ApplyRender, TypeInv
<1>7. CASE WriteRendered
  <2>1. phase' \in {"applying", "rolling", phase} /\ at' \in Nat
    BY <1>7, Moves DEF WriteRendered
  <2>2. items' \in Seq(Targets) /\ files' \in [Targets -> Contents]
    <3>1. PICK i \in DOMAIN RenderTargets :
             /\ files' \in {files, [files EXCEPT ![RenderTargets[i]] = "new"]}
             /\ items' = items \/ items' = Append(items, RenderTargets[i])
      BY <1>7 DEF WriteRendered, ToWrite
    <3>2. RenderTargets[i] \in Targets
      BY RenderTargetsIn
    <3>3. items' \in Seq(Targets)
      <4> DEFINE p == RenderTargets[i]
      <4> SUFFICES p \in Targets => items' \in Seq(Targets)
        BY <3>2
      <4>1. items' = items \/ items' = Append(items, p)
        BY <3>1
      <4> HIDE DEF p
      <4> QED
        BY <1>0, <4>1
    <3>4. "new" \in Contents
      BY DEF Contents
    <3>5. files' \in [Targets -> Contents]
      BY <1>0, <3>1, <3>2, <3>4
    <3> QED
      BY <3>3, <3>5
  <2>3. receipts' \in Seq(Receipts)
    BY <1>0, <1>1, <1>7, <2>2, ChangedFacts DEF WriteRendered
  <2> QED
    BY <1>0, <1>7, <2>1, <2>2, <2>3 DEF WriteRendered, TypeInv
<1>8. CASE CompareRendered
  <2>1. phase' \in {"applying", "rolling", phase} /\ at' \in Nat
    BY <1>8, Moves DEF CompareRendered, GiveUp
  <2> QED
    BY <1>0, <1>8, <2>1 DEF CompareRendered, TypeInv
<1>9. CASE RestoreRendered
  <2>1. phase' \in {"applying", "rolling", phase} /\ at' \in Nat
    BY <1>9, Moves DEF RestoreRendered, GiveUp
  <2>2. items' \in Seq(Targets) /\ files' \in [Targets -> Contents]
    BY <1>0, <1>9, LastFront DEF RestoreRendered, AtHand, PlaceInv, WalkInv, StepsInv, Restoring,
                                 Hosts
  <2> QED
    BY <1>0, <1>9, <2>1, <2>2 DEF RestoreRendered, TypeInv
<1>10. CASE ApplyWorkerStop
  <2>1. phase' \in {"applying", "rolling", phase} /\ at' \in Nat
    BY <1>10, Moves DEF ApplyWorkerStop
  <2>2. receipts' \in Seq(Receipts)
    BY <1>0, <1>1, <1>10, ChangedFacts DEF ApplyWorkerStop
  <2> QED
    BY <1>0, <1>10, <2>1, <2>2 DEF ApplyWorkerStop, TypeInv
<1>11. CASE ApplyReconcile
  <2>1. phase' \in {"applying", "rolling", phase} /\ at' \in Nat
    BY <1>11, Moves DEF ApplyReconcile
  <2> QED
    BY <1>0, <1>11, <2>1 DEF ApplyReconcile, TypeInv
<1>12. CASE ReconcileToml
  <2>1. phase' \in {"applying", "rolling", phase} /\ at' \in Nat
    BY <1>12, Moves DEF ReconcileToml
  <2>2. toml' \in Tomls
    BY <1>0, <1>12 DEF ReconcileToml, Tomls, Modes
  <2> QED
    BY <1>0, <1>12, <2>1, <2>2 DEF ReconcileToml, TypeInv
<1>13. CASE ReconcileUnit
  <2>1. phase' \in {"applying", "rolling", phase} /\ at' \in Nat
    BY <1>13, Moves DEF ReconcileUnit
  <2>2. unit' \in Units
    BY <1>0, <1>13 DEF ReconcileUnit, Units
  <2> QED
    BY <1>0, <1>13, <2>1, <2>2 DEF ReconcileUnit, TypeInv
<1>14. CASE ReconcileReload
  <2>1. phase' \in {"applying", "rolling", phase} /\ at' \in Nat
    BY <1>14, Moves DEF ReconcileReload
  <2>2. receipts' \in Seq(Receipts)
    BY <1>0, <1>1, <1>14, ChangedFacts DEF ReconcileReload
  <2> QED
    BY <1>0, <1>14, <2>1, <2>2 DEF ReconcileReload, TypeInv
<1>15. CASE UndoToml
  <2>1. phase' \in {"applying", "rolling", phase} /\ at' \in Nat
    BY <1>15, Moves DEF UndoToml, Undoing, GiveUp, GiveUpUndoing
  <2>2. toml' \in Tomls
    BY <1>0, <1>15 DEF UndoToml, Hosts
  <2> QED
    BY <1>0, <1>15, <2>1, <2>2 DEF UndoToml, GiveUp, GiveUpUndoing, TypeInv
<1>16. CASE UndoUnit
  <2>1. phase' \in {"applying", "rolling", phase} /\ at' \in Nat
    BY <1>16, Moves DEF UndoUnit, Undoing, GiveUp, GiveUpUndoing
  <2>2. unit' \in Units
    BY <1>0, <1>16 DEF UndoUnit, Hosts
  <2> QED
    BY <1>0, <1>16, <2>1, <2>2 DEF UndoUnit, GiveUp, GiveUpUndoing, TypeInv
<1>17. CASE UndoReload
  <2>1. phase' \in {"applying", "rolling", phase} /\ at' \in Nat
    BY <1>17, Moves DEF UndoReload, Undoing, GiveUp, GiveUpUndoing
  <2> QED
    BY <1>0, <1>17, <2>1 DEF UndoReload, GiveUp, GiveUpUndoing, TypeInv
<1>18. ASSUME NEW a, ApplyCheck(a) PROVE TypeInv'
  <2>1. phase' \in {"applying", "rolling", phase} /\ at' \in Nat
    BY <1>18, Moves DEF ApplyCheck
  <2> QED
    BY <1>0, <1>18, <2>1 DEF ApplyCheck, TypeInv
<1>19. CASE ApplyStart
  <2>1. phase' \in {"applying", "rolling", phase} /\ at' \in Nat
    BY <1>19, Moves DEF ApplyStart
  <2> QED
    BY <1>0, <1>19, <2>1 DEF ApplyStart, TypeInv
<1>20. CASE StartRuntime
  <2>1. phase' \in {"applying", "rolling", phase} /\ at' \in Nat
    BY <1>20, Moves DEF StartRuntime
  <2>2. receipts' \in Seq(Receipts)
    BY <1>0, <1>1, <1>20, ChangedFacts DEF StartRuntime
  <2>3. /\ svc' \in {"inactive", "active", "restarting", "failed"}
        /\ running' \in Processes /\ (svc' = "active" <=> running' # NoProcess)
    BY <1>20 DEF StartRuntime, TypeInv, NoProcess, Process
  <2> QED
    BY <1>0, <1>20, <2>1, <2>2, <2>3 DEF StartRuntime, TypeInv
<1>21. CASE ApplyHealth
  <2>1. phase' \in {"applying", "rolling", phase} /\ at' \in Nat
    BY <1>21, Moves DEF ApplyHealth
  <2> QED
    BY <1>0, <1>21, <2>1 DEF ApplyHealth, TypeInv
<1>22. ASSUME NEW a, ApplyStop(a) PROVE TypeInv'
  <2>1. phase' \in {"applying", "rolling", phase} /\ at' \in Nat
    BY <1>22, Moves DEF ApplyStop
  <2>2. receipts' \in Seq(Receipts)
    BY <1>0, <1>1, <1>22, ChangedFacts DEF ApplyStop
  <2> QED
    BY <1>0, <1>22, <2>1, <2>2 DEF ApplyStop, TypeInv
<1>23. CASE UndoBridge
  <2>1. phase' \in {"applying", "rolling", phase} /\ at' \in Nat
    BY <1>23, Moves DEF UndoBridge, Undoing
  <2>2. receipts[at] \in Receipts
    BY <1>0, <1>23 DEF UndoBridge, Undoing, PlaceInv, WalkInv, StepsInv, TypeInv
  <2>3. link' \in Bridges
    BY <1>0, <1>23, <2>2 DEF UndoBridge, Undo, Receipts, Hosts, Bridges
  <2> QED
    BY <1>0, <1>23, <2>1, <2>2, <2>3 DEF UndoBridge, TypeInv
<1>24. CASE UndoRender
  <2>1. phase' \in {"applying", "rolling", phase} /\ at' \in Nat
    BY <1>24, Moves DEF UndoRender, Undoing
  <2>2. receipts[at] \in Receipts
    BY <1>0, <1>24 DEF UndoRender, Undoing, PlaceInv, WalkInv, StepsInv, TypeInv
  <2> QED
    BY <1>0, <1>24, <2>1, <2>2 DEF UndoRender, Undo, Receipts, TypeInv
<1>25. CASE UndoReconcile
  <2>1. phase' \in {"applying", "rolling", phase} /\ at' \in Nat
    BY <1>25, Moves DEF UndoReconcile, Undoing
  <2>2. receipts[at] \in Receipts
    BY <1>0, <1>25 DEF UndoReconcile, Undoing, PlaceInv, WalkInv, StepsInv, TypeInv
  <2> QED
    BY <1>0, <1>25, <2>1, <2>2 DEF UndoReconcile, Undo, Receipts, TypeInv
<1>26. CASE UndoWorkerStop
  <2>1. phase' \in {"applying", "rolling", phase} /\ at' \in Nat
    BY <1>26, Moves DEF UndoWorkerStop, Undoing
  <2> QED
    BY <1>0, <1>26, <2>1 DEF UndoWorkerStop, TypeInv
<1>27. CASE UndoStart
  <2>1. phase' \in {"applying", "rolling", phase} /\ at' \in Nat
    BY <1>27, Moves DEF UndoStart, Undoing
  <2> QED
    BY <1>0, <1>27, <2>1 DEF UndoStart, TypeInv
<1>28. CASE UndoStop
  <2>1. phase' \in {"applying", "rolling", phase} /\ at' \in Nat
    BY <1>28, Moves DEF UndoStop, Undoing
  <2> QED
    BY <1>0, <1>28, <2>1 DEF UndoStop, TypeInv
<1>29. CASE StatRendered
  <2>1. phase' \in {"applying", "rolling", phase} /\ at' \in Nat
    BY <1>29, Moves DEF StatRendered
  <2> QED
    BY <1>0, <1>29, <2>1 DEF StatRendered, TypeInv
<1>30. CASE CheckRendered
  <2>1. phase' \in {"applying", "rolling", phase} /\ at' \in Nat
    BY <1>30, Moves DEF CheckRendered, GiveUp
  <2> QED
    BY <1>0, <1>30, <2>1 DEF CheckRendered, TypeInv
<1> QED
  BY <1>2, <1>3, <1>4, <1>5, <1>6, <1>7, <1>8, <1>9, <1>10, <1>11, <1>12, <1>13, <1>14, <1>15,
     <1>16, <1>17, <1>18, <1>19, <1>20, <1>21, <1>22, <1>23, <1>24, <1>25, <1>26, <1>27, <1>28,
     <1>29, <1>30
  DEF Step

-----------------------------------------------------------------------------
(* The place                                                               *)

\* How apply_plan moves: on to the next action, with or without a receipt; to the rollback;
\* inside a handler; to the receipt before; or to its end.
Walk ==
    /\ UNCHANGED wish
    /\ \/ /\ phase = "applying" /\ at <= Len(Plan) /\ Advance
          /\ UNCHANGED receipts \/ \E paths \in Seq(Targets), host \in Hosts : Changed(paths, host)
       \/ phase = "applying" /\ Raise /\ UNCHANGED receipts
       \/ Running /\ Goto(step') /\ UNCHANGED receipts
       \/ phase = "rolling" /\ at > 0 /\ Undone /\ UNCHANGED receipts
       \/ phase' \notin {"applying", "rolling"} /\ UNCHANGED receipts

\* A plan has no two actions of the same rank, and the ranks grow along it.
LEMMA PlanRanks ==
    ASSUME wish \in Wish
    PROVE  \A i, j \in 1 .. Len(Plan) : i < j => Rank(Plan[i]) < Rank(Plan[j])
BY PlanOrder DEF Ordered

\* Moving keeps the receipts in the order of the plan.
LEMMA WalkKeeps ==
    ASSUME TypeInv, PlaceInv, Walk
    PROVE  WalkInv'
<1>0. /\ Plan' = Plan /\ wish \in Wish /\ at \in Nat
      /\ Len(receipts) \in Nat /\ DOMAIN receipts = 1 .. Len(receipts)
      /\ Len(Plan) \in Nat /\ DOMAIN Plan = 1 .. Len(Plan)
  BY PlanIsSeq DEF Walk, Plan, TypeInv
<1>1. CASE phase = "applying" /\ at <= Len(Plan) /\ Advance /\ UNCHANGED receipts
  <2>1. phase' = "applying" /\ at' = at + 1 /\ at \in 1 .. Len(Plan)
    BY <1>0, <1>1 DEF Advance, PlaceInv, WalkInv
  <2>2. ASSUME at + 1 <= Len(Plan), NEW i \in DOMAIN receipts
        PROVE  Rank(receipts[i].action) < Rank(Plan[at + 1])
    <3>1. Rank(receipts[i].action) < Rank(Plan[at])
      BY <1>1, <2>2 DEF PlaceInv, WalkInv, Act
    <3>2. Rank(Plan[at]) < Rank(Plan[at + 1])
      BY <1>0, <2>1, <2>2, PlanRanks
    <3> QED
      BY <3>1, <3>2, RankNat
  <2> QED
    BY <1>0, <1>1, <2>1, <2>2 DEF PlaceInv, WalkInv, Act, Planned
<1>2. CASE /\ phase = "applying" /\ at <= Len(Plan) /\ Advance
           /\ \E paths \in Seq(Targets), host \in Hosts : Changed(paths, host)
  <2>1. phase' = "applying" /\ at' = at + 1 /\ at \in 1 .. Len(Plan)
    BY <1>0, <1>2 DEF Advance, PlaceInv, WalkInv
  <2>2. /\ DOMAIN receipts' = 1 .. Len(receipts) + 1
        /\ \A i \in 1 .. Len(receipts) : receipts'[i].action = receipts[i].action
        /\ receipts'[Len(receipts) + 1].action = Plan[at]
    <3>1. PICK paths \in Seq(Targets), host \in Hosts : Changed(paths, host)
      BY <1>2
    <3>2. /\ receipts' \in Seq(Receipts)
          /\ Len(receipts') = Len(receipts) + 1
          /\ receipts'[Len(receipts) + 1] = [action |-> Act, items |-> paths, previous |-> host]
          /\ \A i \in 1 .. Len(receipts) : receipts'[i] = receipts[i]
      BY <1>0, <2>1, <3>1, ChangedFacts
    <3> QED
      BY <3>2 DEF Act
  <2>3. \A i \in DOMAIN receipts : Rank(receipts[i].action) < Rank(Plan[at])
    BY <1>2 DEF PlaceInv, WalkInv, Act
  <2>4. ASSUME NEW i \in DOMAIN receipts' PROVE \E k \in DOMAIN Plan : Plan[k] = receipts'[i].action
    <3>1. CASE i = Len(receipts) + 1
      BY <1>0, <2>1, <2>2, <3>1
    <3>2. CASE i \in 1 .. Len(receipts)
      BY <1>0, <2>2, <3>2 DEF Planned, PlaceInv, WalkInv
    <3> QED
      BY <1>0, <2>2, <2>4, <3>1, <3>2
  <2>5. ASSUME NEW i \in DOMAIN receipts', NEW j \in DOMAIN receipts', i < j
        PROVE  Rank(receipts'[i].action) < Rank(receipts'[j].action)
    <3>1. i \in 1 .. Len(receipts)
      BY <1>0, <2>2, <2>5
    <3>2. CASE j = Len(receipts) + 1
      BY <1>0, <2>2, <2>3, <3>1, <3>2
    <3>3. CASE j \in 1 .. Len(receipts)
      BY <1>0, <2>2, <2>5, <3>1, <3>3 DEF PlaceInv, WalkInv
    <3> QED
      BY <1>0, <2>2, <2>5, <3>2, <3>3
  <2>6. ASSUME at + 1 <= Len(Plan), NEW i \in DOMAIN receipts'
        PROVE  Rank(receipts'[i].action) < Rank(Plan[at + 1])
    <3>1. Rank(Plan[at]) < Rank(Plan[at + 1])
      BY <1>0, <2>1, <2>6, PlanRanks
    <3>2. receipts'[i].action = Plan[at] \/ Rank(receipts'[i].action) < Rank(Plan[at])
      BY <1>0, <2>2, <2>3, <2>6
    <3> QED
      BY <3>1, <3>2, RankNat
  <2> QED
    BY <1>0, <2>1, <2>4, <2>5, <2>6 DEF WalkInv, Act, Planned
<1>3. CASE phase = "applying" /\ Raise /\ UNCHANGED receipts
  BY <1>0, <1>3 DEF Raise, PlaceInv, WalkInv, Planned
<1>4. CASE Running /\ Goto(step') /\ UNCHANGED receipts
  BY <1>0, <1>4 DEF Goto, PlaceInv, WalkInv, Planned, Act
<1>5. CASE phase = "rolling" /\ at > 0 /\ Undone /\ UNCHANGED receipts
  BY <1>0, <1>5 DEF Undone, PlaceInv, WalkInv, Planned
<1>6. CASE phase' \notin {"applying", "rolling"} /\ UNCHANGED receipts
  BY <1>0, <1>6 DEF PlaceInv, WalkInv, Planned
<1> QED
  BY <1>1, <1>2, <1>3, <1>4, <1>5, <1>6 DEF Walk

\* Every step of the apply is such a move.
LEMMA StepWalks ==
    ASSUME TypeInv, PlaceInv, Step
    PROVE  Walk
<1> USE DEF Walk, Goto, fixed, memory
<1>0. /\ Snapshot \in Hosts /\ previous \in Hosts /\ << >> \in Seq(Targets)
      /\ items \in Seq(Targets)
  BY SnapshotType DEF TypeInv
<1>1. Leave /\ Running /\ step # "undo" =>
         \/ phase = "applying" /\ Raise
         \/ phase = "rolling" /\ at > 0 /\ Undone
  BY DEF Leave, Running, PlaceInv, StepsInv
<1>2. CASE Inspect
  BY <1>0, <1>2 DEF Inspect, Running
<1>3. CASE Finish
  BY <1>0, <1>3 DEF Finish
<1>4. ASSUME NEW a, ApplyPrerequisite(a) PROVE Walk
  BY <1>0, <1>4 DEF ApplyPrerequisite, In, Running
<1>5. CASE ApplyBridge
  BY <1>0, <1>5 DEF ApplyBridge, In, Running
<1>6. CASE ApplyRender
  BY <1>0, <1>6 DEF ApplyRender, In, Running
<1>7. CASE WriteRendered
  <2>1. items' \in Seq(Targets)
    BY <1>7, StepTypes DEF TypeInv
  <2> QED
    BY <1>0, <1>7, <2>1 DEF WriteRendered, In, Running
<1>8. CASE CompareRendered
  BY <1>0, <1>1, <1>8 DEF CompareRendered, GiveUp, Running
<1>9. CASE RestoreRendered
  BY <1>0, <1>1, <1>9 DEF RestoreRendered, GiveUp, Running
<1>10. CASE ApplyWorkerStop
  BY <1>0, <1>10 DEF ApplyWorkerStop, In, Running
<1>11. CASE ApplyReconcile
  BY <1>0, <1>11 DEF ApplyReconcile, In, Running
<1>12. CASE ReconcileToml
  BY <1>0, <1>12 DEF ReconcileToml, In, Running
<1>13. CASE ReconcileUnit
  BY <1>0, <1>13 DEF ReconcileUnit, In, Running
<1>14. CASE ReconcileReload
  BY <1>0, <1>14 DEF ReconcileReload, In, Running
<1>15. CASE UndoToml
  BY <1>0, <1>1, <1>15 DEF UndoToml, Running, GiveUp, GiveUpUndoing
<1>16. CASE UndoUnit
  BY <1>0, <1>1, <1>16 DEF UndoUnit, Running, GiveUp, GiveUpUndoing
<1>17. CASE UndoReload
  BY <1>0, <1>1, <1>17 DEF UndoReload, Running, GiveUp, GiveUpUndoing
<1>18. ASSUME NEW a, ApplyCheck(a) PROVE Walk
  BY <1>0, <1>18 DEF ApplyCheck, In, Running
<1>19. CASE ApplyStart
  BY <1>0, <1>19 DEF ApplyStart, In, Running
<1>20. CASE StartRuntime
  BY <1>0, <1>20 DEF StartRuntime, In, Running
<1>21. CASE ApplyHealth
  BY <1>0, <1>21 DEF ApplyHealth, In, Running
<1>22. ASSUME NEW a, ApplyStop(a) PROVE Walk
  BY <1>0, <1>22 DEF ApplyStop, In, Running
<1>23. CASE UndoBridge
  BY <1>0, <1>23 DEF UndoBridge, Undoing, Running
<1>24. CASE UndoRender
  BY <1>0, <1>24 DEF UndoRender, Undoing, Running
<1>25. CASE UndoReconcile
  BY <1>0, <1>25 DEF UndoReconcile, Undoing, Running
<1>26. CASE UndoWorkerStop
  BY <1>0, <1>26 DEF UndoWorkerStop, Undoing, Running
<1>27. CASE UndoStart
  BY <1>0, <1>27 DEF UndoStart, Undoing, Running
<1>28. CASE UndoStop
  BY <1>0, <1>28 DEF UndoStop, Undoing, Running
<1>29. CASE StatRendered
  BY <1>0, <1>29 DEF StatRendered, Running
<1>30. CASE CheckRendered
  BY <1>0, <1>1, <1>30 DEF CheckRendered, GiveUp, Running
<1> QED
  BY <1>2, <1>3, <1>4, <1>5, <1>6, <1>7, <1>8, <1>9, <1>10, <1>11, <1>12, <1>13, <1>14, <1>15,
     <1>16, <1>17, <1>18, <1>19, <1>20, <1>21, <1>22, <1>23, <1>24, <1>25, <1>26, <1>27, <1>28,
     <1>29, <1>30
  DEF Step

\* Every step of the apply keeps what is known where a handler is.
LEMMA StepKeepsSteps ==
    ASSUME TypeInv, PlaceInv, InstalledInv, Step
    PROVE  StepsInv' /\ InstalledInv'
<1> USE DEF StepsInv, InstalledInv, AtHand, Restoring, GiveUp, Goto, Advance, Raise, Undone,
            Running, AuthoritySteps,
            memory, history
<1>0. /\ \A a : Planned(a)' <=> Planned(a)
      /\ \A a, name : In(a, name) => Planned(a)
      /\ \A a : Undoing(a) => Planned(a)
      /\ StepsInv
  <2>1. \A a : Planned(a)' <=> Planned(a)
    BY StepWalks DEF Walk, Planned, Plan
  <2>2. ASSUME NEW a, NEW name, In(a, name) PROVE Planned(a)
    BY <2>2, PlanIsSeq DEF In, Planned, TypeInv, PlaceInv, WalkInv, Act
  <2>3. ASSUME NEW a, Undoing(a) PROVE Planned(a)
    <3>1. at \in DOMAIN receipts
      BY <2>3 DEF Undoing, TypeInv, PlaceInv, WalkInv
    <3> QED
      BY <2>3, <3>1 DEF Undoing, Undo, PlaceInv, WalkInv
  <2> QED
    BY <2>1, <2>2, <2>3 DEF PlaceInv
<1>1. CASE Inspect
  BY <1>0, <1>1 DEF Inspect, content, authority
<1>2. CASE Finish
  BY <1>0, <1>2 DEF Finish, content, authority
<1>3. ASSUME NEW a, ApplyPrerequisite(a) PROVE StepsInv' /\ InstalledInv'
  BY <1>0, <1>3 DEF ApplyPrerequisite, content, In, authority
<1>4. CASE ApplyBridge
  BY <1>0, <1>4 DEF ApplyBridge, In, authority
<1>5. CASE ApplyRender
  BY <1>0, <1>5 DEF ApplyRender, content, In, authority
<1>6. CASE WriteRendered
  BY <1>0, <1>6 DEF WriteRendered, In, authority
<1>7. CASE CompareRendered
  BY <1>0, <1>7 DEF CompareRendered, content, Leave, authority
<1>8. CASE RestoreRendered
  BY <1>0, <1>8 DEF RestoreRendered, Leave, authority
<1>9. CASE ApplyWorkerStop
  BY <1>0, <1>9 DEF ApplyWorkerStop, content, In, authority
<1>10. CASE ApplyReconcile
  BY <1>0, <1>10 DEF ApplyReconcile, content, In, authority
<1>11. CASE ReconcileToml
  BY <1>0, <1>11 DEF ReconcileToml, content, In
<1>12. CASE ReconcileUnit
  BY <1>0, <1>12 DEF ReconcileUnit, content, In
<1>13. CASE ReconcileReload
  BY <1>0, <1>13 DEF ReconcileReload, content, In, authority
<1>14. CASE UndoToml
  BY <1>0, <1>14 DEF UndoToml, content, Leave, GiveUp, GiveUpUndoing
<1>15. CASE UndoUnit
  BY <1>0, <1>15 DEF UndoUnit, content, Leave, GiveUp, GiveUpUndoing
<1>16. CASE UndoReload
  BY <1>0, <1>16 DEF UndoReload, content, Leave, GiveUp, GiveUpUndoing, authority
<1>17. ASSUME NEW a, ApplyCheck(a) PROVE StepsInv' /\ InstalledInv'
  BY <1>0, <1>17 DEF ApplyCheck, content, In, authority
<1>18. CASE ApplyStart
  BY <1>0, <1>18 DEF ApplyStart, content, In, authority
<1>19. CASE StartRuntime
  BY <1>0, <1>19 DEF StartRuntime, content, In, authority
<1>20. CASE ApplyHealth
  BY <1>0, <1>20 DEF ApplyHealth, content, In, authority
<1>21. ASSUME NEW a, ApplyStop(a) PROVE StepsInv' /\ InstalledInv'
  BY <1>0, <1>21 DEF ApplyStop, content, In, authority
<1>22. CASE UndoBridge
  BY <1>0, <1>22 DEF UndoBridge, content, Undoing, authority
<1>23. CASE UndoRender
  BY <1>0, <1>23 DEF UndoRender, content, Undoing, authority
<1>24. CASE UndoReconcile
  BY <1>0, <1>24 DEF UndoReconcile, content, Undoing, authority
<1>25. CASE UndoWorkerStop
  BY <1>0, <1>25 DEF UndoWorkerStop, content, Undoing, authority
<1>26. CASE UndoStart
  BY <1>0, <1>26 DEF UndoStart, content, Undoing, authority
<1>27. CASE UndoStop
  BY <1>0, <1>27 DEF UndoStop, content, Undoing, authority
<1>28. CASE StatRendered
  BY <1>0, <1>28 DEF StatRendered, content, authority
<1>29. CASE CheckRendered
  BY <1>0, <1>29 DEF CheckRendered, content, Leave, authority
<1> QED
  BY <1>1, <1>2, <1>3, <1>4, <1>5, <1>6, <1>7, <1>8, <1>9, <1>10, <1>11, <1>12, <1>13, <1>14,
     <1>15, <1>16, <1>17, <1>18, <1>19, <1>20, <1>21, <1>22, <1>23, <1>24, <1>25, <1>26, <1>27,
     <1>28, <1>29
  DEF Step

\* The files change only where they are rendered or restored.
LEMMA FilesChange ==
    ASSUME Step, ~ WriteRendered, ~ RestoreRendered
    PROVE  UNCHANGED files
BY DEF Step, Inspect, Finish, ApplyPrerequisite, ApplyBridge, ApplyRender,
      CompareRendered, StatRendered, CheckRendered, ApplyWorkerStop, ApplyReconcile, ReconcileToml,
      ReconcileUnit, ReconcileReload, UndoToml, UndoUnit, UndoReload, ApplyCheck, ApplyStart,
      StartRuntime, ApplyHealth, ApplyStop, UndoBridge, UndoRender, UndoReconcile,
      UndoWorkerStop, UndoStart, UndoStop, content

\* Every step of the apply keeps the edits.
LEMMA StepKeepsRestore ==
    ASSUME TypeInv, PlaceInv, RestoreInv, Step
    PROVE  RestoreInv'
<1> USE DEF GiveUp, Goto, Advance, Raise, Undone, Running, history, memory
<1>0. /\ UNCHANGED wish /\ RenderTargets' = RenderTargets /\ EditsKept
      /\ files \in [Targets -> Contents] /\ edits \subseteq Targets
  BY StepWalks DEF Walk, RenderTargets, RestoreInv, TypeInv
<1>1. ASSUME NEW p \in Targets, p \notin edits, UNCHANGED edits,
             \A q \in Targets : q # p => files'[q] = files[q]
      PROVE  EditsKept'
  BY <1>0, <1>1 DEF EditsKept
<1>2. ASSUME UNCHANGED <<files, edits>> PROVE EditsKept'
  BY <1>0, <1>2 DEF EditsKept
<1>3. CASE ApplyRender
  <2>1. UNCHANGED files /\ (edits' = {} \/ (UNCHANGED edits /\ step' = "undo"))
        /\ step' \in {"write", "undo"}
    BY <1>3 DEF ApplyRender, content
  <2> QED
    BY <1>0, <1>2, <2>1 DEF RestoreInv, EditsKept
<1>4. CASE WriteRendered
  <2>1. /\ Running /\ step = "write" /\ UNCHANGED <<previous, edits>>
        /\ step' \in {"inspect", "write", "compare"}
    BY <1>4 DEF WriteRendered, In
  <2>2. PICK i \in ToWrite :
           /\ files' \in {files, [files EXCEPT ![RenderTargets[i]] = "new"]}
           /\ items' \in {items, Append(items, RenderTargets[i])}
    BY <1>4 DEF WriteRendered
  <2>3. RenderTargets[i] \in Targets /\ RenderTargets[i] \notin edits
    BY <2>1, <2>2, RenderTargetsIn DEF ToWrite, RestoreInv
  <2>4. EditsKept'
    BY <1>0, <1>1, <2>1, <2>2, <2>3
  <2>5. \A p : p \in ToSet(items) => p \in ToSet(items')
    BY <2>2, <2>3, AppendSet DEF TypeInv
  <2>6. ToWrite' \subseteq ToWrite
    BY <1>0, <2>1, <2>5 DEF ToWrite
  <2> QED
    BY <1>0, <2>1, <2>4, <2>6 DEF RestoreInv
<1>5. CASE CompareRendered
  <2>1. /\ UNCHANGED <<files, edits, items>>
        /\ step' = "undo" \/ (step' \in {"stat", "check"} /\ files[AtHand] = "new")
    BY <1>5 DEF CompareRendered, Leave, content
  <2>2. step' \in {"stat", "check"} => AtHand' \notin edits'
    BY <1>0, <2>1 DEF EditsKept, AtHand
  <2> QED
    BY <1>2, <2>1, <2>2 DEF RestoreInv
<1>6. CASE StatRendered
  <2>1. UNCHANGED <<files, edits, items>> /\ step = "stat" /\ step' = "check"
    BY <1>6 DEF StatRendered, content
  <2>2. AtHand' \notin edits'
    BY <1>6, <2>1 DEF StatRendered, RestoreInv, AtHand
  <2> QED
    BY <1>2, <2>1, <2>2 DEF RestoreInv
<1>7. CASE CheckRendered
  <2>1. /\ Running /\ UNCHANGED <<files, edits, items>> /\ step = "check"
        /\ step' = "undo" \/ (step' = "restore" /\ (fresh \/ files[AtHand] = "new"))
    BY <1>7 DEF CheckRendered, Leave, content
  <2>2. step' = "restore" => AtHand \notin edits
    <3>1. files[AtHand] = "new" => AtHand \notin edits
      BY <1>0 DEF EditsKept
    <3> QED
      BY <2>1, <3>1 DEF RestoreInv
  <2>3. UNCHANGED AtHand
    BY <2>1 DEF AtHand
  <2> QED
    BY <1>2, <2>1, <2>2, <2>3 DEF RestoreInv
<1>8. CASE RestoreRendered
  <2>1. /\ UNCHANGED edits /\ step' \in {"compare", "undo"}
        /\ files' \in {files, [files EXCEPT ![AtHand] = previous.files[AtHand]]}
    BY <1>8 DEF RestoreRendered, Leave
  <2>2. AtHand \in Targets /\ AtHand \notin edits
    BY <1>8, LastFront DEF RestoreRendered, AtHand, RestoreInv, TypeInv, PlaceInv, StepsInv,
                           Restoring
  <2> QED
    BY <1>0, <1>1, <2>1, <2>2 DEF RestoreInv
<1>9. CASE /\ ~ ApplyRender /\ ~ WriteRendered /\ ~ CompareRendered /\ ~ StatRendered
           /\ ~ CheckRendered /\ ~ RestoreRendered
  <2>1. UNCHANGED edits /\ step' \notin {"write", "stat", "check", "restore"}
    BY <1>9 DEF Step, Inspect, Finish, ApplyPrerequisite, ApplyBridge, ApplyWorkerStop,
      ApplyReconcile, ReconcileToml, ReconcileUnit, ReconcileReload, UndoToml, UndoUnit,
      UndoReload, ApplyCheck, ApplyStart, StartRuntime, ApplyHealth, ApplyStop, UndoBridge,
      UndoRender, UndoReconcile, UndoWorkerStop, UndoStart, UndoStop, GiveUpUndoing, Leave
  <2> QED
    BY <1>2, <1>9, <2>1, FilesChange DEF RestoreInv
<1> QED
  BY <1>3, <1>4, <1>5, <1>6, <1>7, <1>8, <1>9

-----------------------------------------------------------------------------
(* The authority                                                           *)

\* A receipt of the action is added: every receipt is an old one or this one.
Added(a, paths, host) ==
    /\ Len(receipts') = Len(receipts) + 1 /\ DOMAIN receipts' = 1 .. Len(receipts) + 1
    /\ Len(receipts) \in Nat /\ DOMAIN receipts = 1 .. Len(receipts)
    /\ \A i \in DOMAIN receipts : receipts'[i] = receipts[i]
    /\ receipts'[Len(receipts) + 1] = [action |-> a, items |-> paths, previous |-> host]

\* That is what a handler that changed something does.
LEMMA NewReceipt ==
    ASSUME TypeInv, PlaceInv, NEW a, NEW name, In(a, name),
           NEW paths \in Seq(Targets), NEW host \in Hosts, Changed(paths, host)
    PROVE  Added(a, paths, host)
<1>1. at \in DOMAIN Plan /\ Act = a
  BY PlanIsSeq DEF In, PlaceInv, WalkInv, TypeInv
<1>2. /\ receipts' \in Seq(Receipts)
      /\ Len(receipts') = Len(receipts) + 1
      /\ receipts'[Len(receipts) + 1] = [action |-> Act, items |-> paths, previous |-> host]
      /\ \A i \in 1 .. Len(receipts) : receipts'[i] = receipts[i]
  BY <1>1, ChangedFacts
<1>3. Len(receipts) \in Nat /\ DOMAIN receipts = 1 .. Len(receipts)
  BY DEF TypeInv
<1> QED
  BY <1>1, <1>2, <1>3 DEF Added

\* The Worker contract is recognized where TOML and unit fit.
LEMMA Recognized ==
    ASSUME TypeInv, InspectWorkerExecution = "needs_apply" \/ InspectWorkerStop = "needs_apply"
    PROVE  Fit(toml, unit)
BY DEF InspectWorkerExecution, InspectWorkerStop, Foreign, Contract, Fit, Needed

\* Every step of the apply keeps the authority to which a reconciliation goes back.
LEMMA StepKeepsReconcile ==
    ASSUME TypeInv, PlaceInv, ReconcileInv, Step
    PROVE  ReconcileInv'
<1> USE DEF ReconcileInv, GiveUp, Goto, Advance, Raise, Undone, Running, AuthoritySteps, memory
<1>0. /\ Snapshot \in Hosts /\ Snapshot.toml = toml /\ Snapshot.unit = unit
      /\ previous \in Hosts /\ << >> \in Seq(Targets)
  BY SnapshotType DEF TypeInv, Snapshot
<1>1. CASE Inspect
  BY <1>0, <1>1 DEF Inspect
<1>2. CASE Finish
  BY <1>0, <1>2 DEF Finish
<1>3. ASSUME NEW a, ApplyPrerequisite(a) PROVE ReconcileInv'
  BY <1>0, <1>3 DEF ApplyPrerequisite
<1>4. CASE ApplyBridge
  <2>1. In("ensure_nvidia_driver_bridge", "apply") /\ (UNCHANGED receipts \/ Changed(<< >>, Snapshot))
    BY <1>4 DEF ApplyBridge
  <2>3. CASE UNCHANGED receipts
    BY <1>4, <2>1, <2>3 DEF ApplyBridge, In
  <2>4. CASE Changed(<< >>, Snapshot)
    <3>1. Added("ensure_nvidia_driver_bridge", << >>, Snapshot)
      BY <1>0, <2>1, <2>4, NewReceipt
    <3> QED
      BY <1>4, <2>1, <3>1 DEF ApplyBridge, In, Added
  <2> QED
    BY <2>1, <2>3, <2>4
<1>5. CASE ApplyRender
  BY <1>0, <1>5 DEF ApplyRender
<1>6. CASE WriteRendered
  <2>1. In("render_config", "write") /\ (UNCHANGED receipts \/ Changed(items', previous))
    BY <1>6 DEF WriteRendered
  <2>2. items' \in Seq(Targets)
    BY <1>6, StepTypes DEF TypeInv, Step
  <2>3. CASE UNCHANGED receipts
    BY <1>6, <2>1, <2>3 DEF WriteRendered, In
  <2>4. CASE Changed(items', previous)
    <3>1. Added("render_config", items', previous)
      BY <1>0, <2>1, <2>2, <2>4, NewReceipt
    <3> QED
      BY <1>6, <2>1, <3>1 DEF WriteRendered, In, Added
  <2> QED
    BY <2>1, <2>3, <2>4
<1>7. CASE CompareRendered
  BY <1>0, <1>7 DEF CompareRendered, Leave
<1>8. CASE RestoreRendered
  BY <1>0, <1>8 DEF RestoreRendered, Leave
<1>9. CASE ApplyWorkerStop
  <2>1. In("worker_stop", "apply") /\ (UNCHANGED receipts \/ Changed(<< >>, Snapshot))
    BY <1>9 DEF ApplyWorkerStop
  <2>3. CASE UNCHANGED receipts
    BY <1>9, <2>1, <2>3 DEF ApplyWorkerStop, In
  <2>4. CASE Changed(<< >>, Snapshot)
    <3>1. Added("worker_stop", << >>, Snapshot)
      BY <1>0, <2>1, <2>4, NewReceipt
    <3> QED
      BY <1>9, <2>1, <3>1 DEF ApplyWorkerStop, In, Added
  <2> QED
    BY <2>1, <2>3, <2>4
<1>10. CASE ApplyReconcile
  BY <1>0, <1>10, Recognized DEF ApplyReconcile
<1>11. CASE ReconcileToml
  BY <1>0, <1>11 DEF ReconcileToml, In
<1>12. CASE ReconcileUnit
  BY <1>0, <1>12 DEF ReconcileUnit, In
<1>13. CASE ReconcileReload
  <2>1. In("reconcile_worker_execution", "reload") /\ (UNCHANGED receipts \/ Changed(<< >>, previous))
    BY <1>13 DEF ReconcileReload
  <2>3. CASE UNCHANGED receipts
    BY <1>13, <2>1, <2>3 DEF ReconcileReload, In
  <2>4. CASE Changed(<< >>, previous)
    <3>1. Added("reconcile_worker_execution", << >>, previous)
      BY <1>0, <2>1, <2>4, NewReceipt
    <3> QED
      BY <1>13, <2>1, <3>1 DEF ReconcileReload, In, Added
  <2> QED
    BY <2>1, <2>3, <2>4
<1>14. CASE UndoToml
  BY <1>0, <1>14 DEF UndoToml, Leave, GiveUp, GiveUpUndoing
<1>15. CASE UndoUnit
  BY <1>0, <1>15 DEF UndoUnit, Leave, GiveUp, GiveUpUndoing
<1>16. CASE UndoReload
  BY <1>0, <1>16 DEF UndoReload, Leave, GiveUp, GiveUpUndoing
<1>17. ASSUME NEW a, ApplyCheck(a) PROVE ReconcileInv'
  BY <1>0, <1>17 DEF ApplyCheck
<1>18. CASE ApplyStart
  BY <1>0, <1>18 DEF ApplyStart
<1>19. CASE StartRuntime
  <2>1. In("runtime_start", "start") /\ (UNCHANGED receipts \/ Changed(<< >>, Snapshot))
    BY <1>19 DEF StartRuntime
  <2>3. CASE UNCHANGED receipts
    BY <1>19, <2>1, <2>3 DEF StartRuntime, In
  <2>4. CASE Changed(<< >>, Snapshot)
    <3>1. Added("runtime_start", << >>, Snapshot)
      BY <1>0, <2>1, <2>4, NewReceipt
    <3>2. step' \in {"inspect", "undo"}
      BY <1>19 DEF StartRuntime
    <3> QED
      BY <3>1, <3>2 DEF Added
  <2> QED
    BY <2>1, <2>3, <2>4
<1>20. CASE ApplyHealth
  BY <1>0, <1>20 DEF ApplyHealth
<1>21. ASSUME NEW a \in {"runtime_stop", "runtime_release"}, ApplyStop(a) PROVE ReconcileInv'
  <2>1. In(a, "apply") /\ (UNCHANGED receipts \/ Changed(<< >>, Snapshot))
    BY <1>21 DEF ApplyStop
  <2>3. CASE UNCHANGED receipts
    BY <1>21, <2>1, <2>3 DEF ApplyStop, In
  <2>4. CASE Changed(<< >>, Snapshot)
    <3>1. Added(a, << >>, Snapshot)
      BY <1>0, <2>1, <2>4, NewReceipt
    <3> QED
      BY <1>21, <2>1, <3>1 DEF ApplyStop, In, Added
  <2> QED
    BY <2>1, <2>3, <2>4
<1>22. CASE UndoBridge
  BY <1>0, <1>22 DEF UndoBridge, Undoing
<1>23. CASE UndoRender
  BY <1>0, <1>23 DEF UndoRender, Undoing
<1>24. CASE UndoReconcile
  <2>1. at \in DOMAIN receipts
    BY <1>24 DEF UndoReconcile, Undoing, TypeInv, PlaceInv, WalkInv
  <2> QED
    BY <1>24, <2>1 DEF UndoReconcile, Undoing, Undo
<1>25. CASE UndoWorkerStop
  BY <1>0, <1>25 DEF UndoWorkerStop, Undoing
<1>26. CASE UndoStart
  BY <1>0, <1>26 DEF UndoStart, Undoing
<1>27. CASE UndoStop
  BY <1>0, <1>27 DEF UndoStop, Undoing
<1>28. CASE StatRendered
  BY <1>0, <1>28 DEF StatRendered
<1>29. CASE CheckRendered
  BY <1>0, <1>29 DEF CheckRendered, Leave
<1> QED
  BY <1>1, <1>2, <1>3, <1>4, <1>5, <1>6, <1>7, <1>8, <1>9, <1>10, <1>11, <1>12, <1>13, <1>14,
     <1>15, <1>16, <1>17, <1>18, <1>19, <1>20, <1>21, <1>22, <1>23, <1>24, <1>25, <1>26, <1>27,
     <1>28, <1>29
  DEF Step

\* A step that leaves the authority alone, starts no Worker and does not begin to write the
\* authority.
LEMMA QuietAuthority ==
    ASSUME AuthorityInv, UNCHANGED <<authority, restart_safe, disturbed>>,
           UNCHANGED <<svc, running>> \/ svc' # "active",
           ~ disturbed /\ HasStopped' => HasStopped \/ loaded = unit,
           Running' => Running,
           step' \notin AuthoritySteps \cup {"start"},
           phase' = "applying" => phase = "applying" /\ step \notin AuthoritySteps
    PROVE  AuthorityInv'
BY DEF AuthorityInv, authority, AuthoritySteps, Running, Fit, UnitMode

\* Only stopping the Worker makes a receipt of that.
LEMMA StopReceipt ==
    ASSUME TypeInv, PlaceInv, Step, HasStopped'
    PROVE  HasStopped \/ (ApplyWorkerStop /\ svc = "active" /\ UNCHANGED authority)
<1>1. CASE UNCHANGED receipts
  BY <1>1 DEF HasStopped
<1>2. CASE Act # "worker_stop" /\ at <= Len(Plan) /\ phase = "applying"
  <2>0. CASE UNCHANGED receipts
    BY <1>1, <2>0
  <2> SUFFICES ASSUME ~ UNCHANGED receipts PROVE HasStopped
    BY <2>0
  <2>1. PICK paths \in Seq(Targets), host \in Hosts : Changed(paths, host)
    BY StepWalks DEF Walk
  <2>2. In(Act, step)
    BY <1>2 DEF In
  <2>3. Added(Act, paths, host)
    BY <2>1, <2>2, NewReceipt
  <2> QED
    BY <1>2, <2>3 DEF HasStopped, Added
<1>3. CASE ApplyWorkerStop /\ ~ UNCHANGED receipts
  BY <1>3 DEF ApplyWorkerStop, InspectWorkerStop, Needed
<1> QED
  BY <1>1, <1>2, <1>3
  DEF Step, In, Inspect, Finish, ApplyPrerequisite, ApplyBridge, ApplyRender, WriteRendered,
      CompareRendered, StatRendered, CheckRendered, RestoreRendered, ApplyReconcile,
      ReconcileToml, ReconcileUnit,
      ReconcileReload, UndoToml, UndoUnit, UndoReload, ApplyCheck, ApplyStart, StartRuntime,
      ApplyHealth, ApplyStop, UndoBridge, UndoRender, UndoReconcile, UndoWorkerStop, UndoStart,
      UndoStop, memory

\* Every step of the apply keeps the authority in one piece.
LEMMA StepKeepsAuthority ==
    ASSUME TypeInv, PlaceInv, ReconcileInv, AuthorityInv, Step
    PROVE  AuthorityInv'
<1> USE DEF GiveUp, Goto, Advance, Raise, Undone, Running, memory, history, service, content
<1>0. /\ ~ disturbed /\ HasStopped' => HasStopped \/ (loaded = unit /\ UNCHANGED authority)
      /\ toml \in Tomls /\ unit \in Units /\ loaded \in Units
      /\ Fit("runtime", "runtime") /\ StepsInv
      /\ StopService => svc' # "active"
  BY StopReceipt DEF PlaceInv, TypeInv, AuthorityInv, Fit, UnitMode, Modes, StopService
<1>a. ASSUME UNCHANGED disturbed, ~ disturbed =>
                /\ toml' # "edited"
                /\ svc' = "active" => /\ running'.toml = toml' /\ running'.unit = loaded'
                                       /\ loaded' = unit' /\ Fit(toml', unit')
                /\ Running' /\ restart_safe' /\ HasStopped' => loaded' = unit'
                /\ phase' = "applying" /\ step' \notin AuthoritySteps => Fit(toml', unit')
                /\ phase' = "applying" /\ step' = "start" => loaded' = unit'
                /\ phase' = "applying" /\ step' = "toml" => previous'.toml = toml'
                /\ phase' = "applying" /\ step' \in {"unit", "reload"} => toml' = "runtime"
                /\ phase' = "applying" /\ step' = "reload" => unit' = "runtime"
                /\ Running' /\ step' \in AuthoritySteps => svc' # "active"
      PROVE  AuthorityInv'
  BY <1>a DEF AuthorityInv
<1>1. CASE Inspect
  <2>1. /\ UNCHANGED <<authority, restart_safe, disturbed>> /\ (UNCHANGED <<svc, running>>)
        /\ Running' => Running
        /\ step' \notin AuthoritySteps \cup {"start"}
        /\ phase' = "applying" => phase = "applying" /\ step \notin AuthoritySteps
    BY <1>0, <1>1 DEF Inspect, AuthoritySteps
  <2> QED
    BY <1>0, <2>1, QuietAuthority
<1>2. CASE Finish
  <2>1. /\ UNCHANGED <<authority, restart_safe, disturbed>> /\ (UNCHANGED <<svc, running>>)
        /\ Running' => Running
        /\ step' \notin AuthoritySteps \cup {"start"}
        /\ phase' = "applying" => phase = "applying" /\ step \notin AuthoritySteps
    BY <1>0, <1>2 DEF Finish, AuthoritySteps
  <2> QED
    BY <1>0, <2>1, QuietAuthority
<1>3. ASSUME NEW a, ApplyPrerequisite(a) PROVE AuthorityInv'
  <2>1. /\ UNCHANGED <<authority, restart_safe, disturbed>> /\ (UNCHANGED <<svc, running>>)
        /\ Running' => Running
        /\ step' \notin AuthoritySteps \cup {"start"}
        /\ phase' = "applying" => phase = "applying" /\ step \notin AuthoritySteps
    BY <1>0, <1>3 DEF ApplyPrerequisite, In, AuthoritySteps
  <2> QED
    BY <1>0, <2>1, QuietAuthority
<1>4. CASE ApplyBridge
  <2>1. /\ UNCHANGED <<authority, restart_safe, disturbed>> /\ (UNCHANGED <<svc, running>>)
        /\ Running' => Running
        /\ step' \notin AuthoritySteps \cup {"start"}
        /\ phase' = "applying" => phase = "applying" /\ step \notin AuthoritySteps
    BY <1>0, <1>4 DEF ApplyBridge, In, AuthoritySteps
  <2> QED
    BY <1>0, <2>1, QuietAuthority
<1>5. CASE ApplyRender
  <2>1. /\ UNCHANGED <<authority, restart_safe, disturbed>> /\ (UNCHANGED <<svc, running>>)
        /\ Running' => Running
        /\ step' \notin AuthoritySteps \cup {"start"}
        /\ phase' = "applying" => phase = "applying" /\ step \notin AuthoritySteps
    BY <1>0, <1>5 DEF ApplyRender, In, AuthoritySteps
  <2> QED
    BY <1>0, <2>1, QuietAuthority
<1>6. CASE WriteRendered
  <2>1. /\ UNCHANGED <<authority, restart_safe, disturbed>> /\ (UNCHANGED <<svc, running>>)
        /\ Running' => Running
        /\ step' \notin AuthoritySteps \cup {"start"}
        /\ phase' = "applying" => phase = "applying" /\ step \notin AuthoritySteps
    BY <1>0, <1>6 DEF WriteRendered, In, AuthoritySteps
  <2> QED
    BY <1>0, <2>1, QuietAuthority
<1>7. CASE CompareRendered
  <2>1. /\ UNCHANGED <<authority, restart_safe, disturbed>> /\ (UNCHANGED <<svc, running>>)
        /\ Running' => Running
        /\ step' \notin AuthoritySteps \cup {"start"}
        /\ phase' = "applying" => phase = "applying" /\ step \notin AuthoritySteps
    BY <1>0, <1>7 DEF CompareRendered, Leave, AuthoritySteps
  <2> QED
    BY <1>0, <2>1, QuietAuthority
<1>8. CASE RestoreRendered
  <2>1. /\ UNCHANGED <<authority, restart_safe, disturbed>> /\ (UNCHANGED <<svc, running>>)
        /\ Running' => Running
        /\ step' \notin AuthoritySteps \cup {"start"}
        /\ phase' = "applying" => phase = "applying" /\ step \notin AuthoritySteps
    BY <1>0, <1>8 DEF RestoreRendered, Leave, AuthoritySteps
  <2> QED
    BY <1>0, <2>1, QuietAuthority
<1>9. CASE ApplyWorkerStop
  <2>1. /\ UNCHANGED <<authority, restart_safe, disturbed>> /\ (UNCHANGED <<svc, running>> \/ svc' # "active")
        /\ Running' => Running
        /\ step' \notin AuthoritySteps \cup {"start"}
        /\ phase' = "applying" => phase = "applying" /\ step \notin AuthoritySteps
    BY <1>0, <1>9 DEF ApplyWorkerStop, In, AuthoritySteps
  <2> QED
    BY <1>0, <2>1, QuietAuthority
<1>10. CASE ApplyReconcile
  <2>1. /\ UNCHANGED <<authority, service, receipts, disturbed>> /\ phase = "applying"
        /\ \/ restart_safe' = restart_safe /\ step' \in {"inspect", "undo"}
           \/ restart_safe' = FALSE /\ step' = "toml" /\ svc # "active" /\ previous' = Snapshot
        /\ step = "apply"
    BY <1>10 DEF ApplyReconcile, In
  <2>2. Snapshot.toml = toml /\ HasStopped' = HasStopped
    BY <2>1 DEF Snapshot, HasStopped
  <2> QED
    BY <1>0, <1>a, <2>1, <2>2 DEF AuthorityInv, AuthoritySteps, authority
<1>11. CASE ReconcileToml
  BY <1>0, <1>11 DEF ReconcileToml, In, AuthorityInv, AuthoritySteps, StepsInv, authority
<1>12. CASE ReconcileUnit
  BY <1>0, <1>12 DEF ReconcileUnit, In, AuthorityInv, AuthoritySteps, StepsInv, authority
<1>13. CASE ReconcileReload
  <2>1. /\ UNCHANGED <<toml, unit, service, disturbed>> /\ phase = "applying"
        /\ \/ loaded' = unit /\ step' = "inspect"
           \/ restart_safe' = restart_safe /\ step' = "undo_toml"
        /\ step = "reload" /\ phase' = "applying"
    BY <1>13 DEF ReconcileReload, In
  <2> QED
    BY <1>0, <1>a, <2>1 DEF AuthorityInv, AuthoritySteps, StepsInv
<1>14. CASE UndoToml
  <2>1. /\ UNCHANGED <<unit, loaded, service, disturbed>> /\ Running /\ step = "undo_toml"
        /\ toml' \in {toml, previous.toml}
        /\ \/ step' = "undo_unit" /\ UNCHANGED restart_safe
           \/ step' = "undo" /\ restart_safe' = FALSE /\ phase' = "rolling"
    BY <1>14 DEF UndoToml, Leave, GiveUp, GiveUpUndoing
  <2>2. (previous.toml # "edited" /\ svc # "active") \/ disturbed
    BY <2>1 DEF ReconcileInv, AuthorityInv, AuthoritySteps, Fit, Modes
  <2> QED
    BY <1>0, <1>a, <2>1, <2>2 DEF AuthorityInv, AuthoritySteps, StepsInv
<1>15. CASE UndoUnit
  <2>1. /\ UNCHANGED <<toml, loaded, service, disturbed>> /\ Running /\ step = "undo_unit"
        /\ \/ step' = "undo_reload" /\ UNCHANGED restart_safe
           \/ step' = "undo" /\ restart_safe' = FALSE /\ phase' = "rolling"
    BY <1>15 DEF UndoUnit, Leave, GiveUp, GiveUpUndoing
  <2> QED
    BY <1>0, <1>a, <2>1 DEF AuthorityInv, AuthoritySteps, StepsInv
<1>16. CASE UndoReload
  <2>1. /\ UNCHANGED <<toml, unit, service, disturbed>> /\ Running /\ step = "undo_reload"
        /\ step' = "undo" /\ phase' = "rolling"
        /\ loaded' = unit \/ restart_safe' = FALSE
    BY <1>16 DEF UndoReload, Leave, GiveUp, GiveUpUndoing
  <2> QED
    BY <1>0, <1>a, <2>1 DEF AuthorityInv, AuthoritySteps, StepsInv
<1>17. ASSUME NEW a, ApplyCheck(a) PROVE AuthorityInv'
  <2>1. /\ UNCHANGED <<authority, restart_safe, disturbed>> /\ (UNCHANGED <<svc, running>>)
        /\ Running' => Running
        /\ step' \notin AuthoritySteps \cup {"start"}
        /\ phase' = "applying" => phase = "applying" /\ step \notin AuthoritySteps
    BY <1>0, <1>17 DEF ApplyCheck, In, AuthoritySteps
  <2> QED
    BY <1>0, <2>1, QuietAuthority
<1>18. CASE ApplyStart
  <2>1. /\ UNCHANGED <<toml, unit, service, disturbed, restart_safe, receipts>>
        /\ loaded' \in {loaded, unit} /\ phase = "applying" /\ step = "apply"
        /\ \/ step' = "start" /\ loaded' = unit
           \/ step' = "undo" /\ phase' = "rolling"
    BY <1>18 DEF ApplyStart, In
  <2>2. HasStopped' = HasStopped
    BY <2>1 DEF HasStopped
  <2> QED
    BY <1>0, <1>a, <2>1, <2>2 DEF AuthorityInv, AuthoritySteps
<1>19. CASE StartRuntime
  <2>1. /\ UNCHANGED <<authority, disturbed, restart_safe>> /\ phase = "applying" /\ step = "start"
        /\ step' \in {"inspect", "undo"}
        /\ \/ UNCHANGED <<svc, running>>
           \/ svc' # "active"
           \/ running' = Process(toml, loaded, files["manifest"])
    BY <1>19 DEF StartRuntime, StartService, In
  <2>2. running' = Process(toml, loaded, files["manifest"]) =>
           running'.toml = toml /\ running'.unit = loaded
    BY DEF Process
  <2> QED
    BY <1>0, <1>a, <2>1, <2>2 DEF AuthorityInv, AuthoritySteps, authority
<1>20. CASE ApplyHealth
  <2>1. /\ UNCHANGED <<authority, restart_safe, disturbed>> /\ (UNCHANGED <<svc, running>>)
        /\ Running' => Running
        /\ step' \notin AuthoritySteps \cup {"start"}
        /\ phase' = "applying" => phase = "applying" /\ step \notin AuthoritySteps
    BY <1>0, <1>20 DEF ApplyHealth, In, AuthoritySteps
  <2> QED
    BY <1>0, <2>1, QuietAuthority
<1>21. ASSUME NEW a, ApplyStop(a) PROVE AuthorityInv'
  <2>1. /\ UNCHANGED <<authority, restart_safe, disturbed>> /\ (UNCHANGED <<svc, running>> \/ svc' # "active")
        /\ Running' => Running
        /\ step' \notin AuthoritySteps \cup {"start"}
        /\ phase' = "applying" => phase = "applying" /\ step \notin AuthoritySteps
    BY <1>0, <1>21 DEF ApplyStop, In, AuthoritySteps
  <2> QED
    BY <1>0, <2>1, QuietAuthority
<1>22. CASE UndoBridge
  <2>1. /\ UNCHANGED <<authority, restart_safe, disturbed>> /\ (UNCHANGED <<svc, running>>)
        /\ Running' => Running
        /\ step' \notin AuthoritySteps \cup {"start"}
        /\ phase' = "applying" => phase = "applying" /\ step \notin AuthoritySteps
    BY <1>0, <1>22 DEF UndoBridge, Undoing, AuthoritySteps
  <2> QED
    BY <1>0, <2>1, QuietAuthority
<1>23. CASE UndoRender
  <2>1. /\ UNCHANGED <<authority, restart_safe, disturbed>> /\ (UNCHANGED <<svc, running>>)
        /\ Running' => Running
        /\ step' \notin AuthoritySteps \cup {"start"}
        /\ phase' = "applying" => phase = "applying" /\ step \notin AuthoritySteps
    BY <1>0, <1>23 DEF UndoRender, Undoing, AuthoritySteps
  <2> QED
    BY <1>0, <2>1, QuietAuthority
<1>24. CASE UndoReconcile
  <2>1. /\ UNCHANGED <<authority, disturbed>> /\ phase = "rolling" /\ phase' = "rolling"
        /\ restart_safe' = FALSE
        /\ \/ svc' # "active" /\ step' \in {"undo", "undo_toml"}
           \/ UNCHANGED service /\ step' = "undo"
    BY <1>0, <1>24 DEF UndoReconcile, Undoing
  <2> QED
    BY <1>0, <1>a, <2>1 DEF AuthorityInv, AuthoritySteps, authority
<1>25. CASE UndoWorkerStop
  <2>1. /\ UNCHANGED <<authority, disturbed, restart_safe, receipts>>
        /\ phase = "rolling" /\ phase' = "rolling" /\ step' = "undo" /\ HasStopped
        /\ \/ UNCHANGED service
           \/ /\ running' = Process(toml, loaded, files["manifest"])
              /\ restart_safe /\ Contract = "smoke"
    <3>1. at \in DOMAIN receipts
      BY <1>25 DEF UndoWorkerStop, Undoing, TypeInv, PlaceInv, WalkInv
    <3> QED
      BY <1>25, <3>1 DEF UndoWorkerStop, StartService, Undoing, HasStopped, Undo
  <2>2. running' = Process(toml, loaded, files["manifest"]) =>
           running'.toml = toml /\ running'.unit = loaded
    BY DEF Process
  <2>3. Contract = "smoke" => Fit(toml, unit)
    BY DEF Contract, Fit
  <2> QED
    BY <1>0, <1>a, <2>1, <2>2, <2>3 DEF AuthorityInv, AuthoritySteps, authority
<1>26. CASE UndoStart
  <2>1. /\ UNCHANGED <<authority, restart_safe, disturbed>> /\ (UNCHANGED <<svc, running>> \/ svc' # "active")
        /\ Running' => Running
        /\ step' \notin AuthoritySteps \cup {"start"}
        /\ phase' = "applying" => phase = "applying" /\ step \notin AuthoritySteps
    BY <1>0, <1>26 DEF UndoStart, Undoing, AuthoritySteps
  <2> QED
    BY <1>0, <2>1, QuietAuthority
<1>27. CASE UndoStop
  <2>1. /\ UNCHANGED <<authority, restart_safe, disturbed>> /\ (UNCHANGED <<svc, running>>)
        /\ Running' => Running
        /\ step' \notin AuthoritySteps \cup {"start"}
        /\ phase' = "applying" => phase = "applying" /\ step \notin AuthoritySteps
    BY <1>0, <1>27 DEF UndoStop, Undoing, AuthoritySteps
  <2> QED
    BY <1>0, <2>1, QuietAuthority
<1>28. CASE StatRendered
  <2>1. /\ UNCHANGED <<authority, restart_safe, disturbed>> /\ (UNCHANGED <<svc, running>>)
        /\ Running' => Running
        /\ step' \notin AuthoritySteps \cup {"start"}
        /\ phase' = "applying" => phase = "applying" /\ step \notin AuthoritySteps
    BY <1>0, <1>28 DEF StatRendered, AuthoritySteps
  <2> QED
    BY <1>0, <2>1, QuietAuthority
<1>29. CASE CheckRendered
  <2>1. /\ UNCHANGED <<authority, restart_safe, disturbed>> /\ (UNCHANGED <<svc, running>>)
        /\ Running' => Running
        /\ step' \notin AuthoritySteps \cup {"start"}
        /\ phase' = "applying" => phase = "applying" /\ step \notin AuthoritySteps
    BY <1>0, <1>29 DEF CheckRendered, Leave, AuthoritySteps
  <2> QED
    BY <1>0, <2>1, QuietAuthority
<1> QED
  BY <1>1, <1>2, <1>3, <1>4, <1>5, <1>6, <1>7, <1>8, <1>9, <1>10, <1>11, <1>12, <1>13, <1>14,
     <1>15, <1>16, <1>17, <1>18, <1>19, <1>20, <1>21, <1>22, <1>23, <1>24, <1>25, <1>26, <1>27,
     <1>28, <1>29
  DEF Step

-----------------------------------------------------------------------------
(* The invariant                                                           *)

\* The hosts the setup is run on.
LEMMA InitHolds == Init => IInv
<1> SUFFICES ASSUME Init PROVE IInv
  OBVIOUS
<1>1. wish \in Wish
  BY SetupAssumption DEF Init
<1>2. /\ toml \in Tomls /\ unit \in Units /\ loaded \in Units /\ files \in [Targets -> Contents]
      /\ files["manifest"] \in Contents /\ link \in Bridges
      /\ svc \in {"inactive", "active", "restarting", "failed"}
  BY DEF Init, Tomls, Contents, Bridges, Targets
<1>3. running \in Processes /\ (svc = "active" <=> running # NoProcess)
  <2>1. CASE svc = "active"
    <3>1. Process(toml, loaded, files["manifest"]).toml # NoProcess.toml
      BY <1>2 DEF Tomls, Modes, NoProcess, Process
    <3> QED
      BY <1>2, <2>1, <3>1 DEF Init, Process, Processes
  <2>2. CASE svc # "active"
    BY <2>2 DEF Init, NoProcess, Process, Processes, Contents
  <2> QED
    BY <2>1, <2>2
<1>4. Snapshot \in Hosts
  BY <1>2 DEF Snapshot, Hosts
<1>5. TypeInv
  <2>1. /\ phase = "idle" /\ at = 0 /\ items = << >> /\ previous = Snapshot /\ receipts = << >>
        /\ before = Snapshot /\ restart_safe \in BOOLEAN /\ disturbed \in BOOLEAN
        /\ fresh \in BOOLEAN /\ edits \in SUBSET Targets
    BY DEF Init
  <2> QED
    BY <1>1, <1>2, <1>3, <1>4, <2>1 DEF TypeInv
<1>6. toml # "edited" /\ Fit(toml, unit)
  BY DEF Init, Modes, Fit
<1>7. WalkInv
  BY DEF Init, WalkInv
<1>8. PlaceInv
  BY <1>6, <1>7 DEF Init, PlaceInv, StepsInv, Running
<1>9. ReconcileInv
  BY DEF Init, ReconcileInv, Running
<1>10. AuthorityInv
  BY <1>6 DEF Init, AuthorityInv, Running, Process
<1> QED
  BY <1>5, <1>8, <1>9, <1>10 DEF Init, IInv, InstalledInv, RestoreInv, EditsKept, Running

\* A plan that may begin finds TOML and unit that fit, unless the TOML was edited.
LEMMA BeginsFitting ==
    ASSUME TypeInv, PlaceInv, NEW granted, Begin(granted), toml # "edited"
    PROVE  Fit(toml, unit)
<1>1. CASE Planned("reconcile_worker_execution")
  <2>1. Inspection("reconcile_worker_execution") = InspectWorkerExecution
    BY DEF Inspection, Directories
  <2>2. InspectWorkerExecution # "blocked"
    BY <1>1, <2>1 DEF Begin, Planned
  <2> QED
    BY <2>2 DEF InspectWorkerExecution, Foreign, Contract, Fit
<1>2. CASE ~ Planned("reconcile_worker_execution")
  BY <1>2 DEF PlaceInv, StepsInv
<1> QED
  BY <1>1, <1>2

\* Beginning an apply keeps the invariant.
LEMMA BeginKeeps ==
    ASSUME IInv, NEW granted, Begin(granted)
    PROVE  IInv'
<1> USE DEF IInv, Begin, Running
<1>1. TypeInv'
  <2>1. Snapshot \in Hosts
    BY SnapshotType
  <2>2. disturbed' \in BOOLEAN
    BY DEF TypeInv
  <2>3. /\ toml' \in Tomls /\ unit' \in Units /\ loaded' \in Units
        /\ files' \in [Targets -> Contents] /\ link' \in Bridges /\ wish' \in Wish
    BY DEF TypeInv, authority, content
  <2>4. /\ svc' \in {"inactive", "active", "restarting", "failed"}
        /\ running' \in Processes /\ (svc' = "active" <=> running' # NoProcess)
    BY DEF TypeInv, service, NoProcess, Process
  <2>5. /\ phase' = "applying" /\ at' = 1 /\ items' = << >> /\ previous' = Snapshot
        /\ receipts' = << >> /\ before' = Snapshot /\ restart_safe' \in BOOLEAN
        /\ fresh' \in BOOLEAN /\ edits' \in SUBSET Targets
    BY DEF TypeInv
  <2> HIDE DEF Begin, IInv
  <2> QED
    BY <2>1, <2>2, <2>3, <2>4, <2>5 DEF TypeInv
<1>2. WalkInv'
  BY DEF WalkInv
<1>3. StepsInv'
  <2>1. \A a : Planned(a)' <=> Planned(a)
    BY DEF Planned, Plan
  <2> QED
    BY <2>1 DEF PlaceInv, StepsInv, AuthoritySteps, Restoring, authority
<1>4. ReconcileInv'
  BY DEF ReconcileInv, AuthoritySteps
<1>5. AuthorityInv'
  <2>1. ~ HasStopped'
    BY DEF HasStopped
  <2>2. CASE disturbed'
    BY <2>2 DEF AuthorityInv
  <2>3. CASE ~ disturbed'
    <3>1. toml # "edited" /\ (disturbed => svc # "active")
      BY <2>3 DEF AuthorityInv
    <3>2. Fit(toml, unit)
      BY <3>1, BeginsFitting
    <3> QED
      BY <2>1, <3>1, <3>2 DEF AuthorityInv, AuthoritySteps, authority, service
  <2> QED
    BY <2>2, <2>3
<1>6. InstalledInv' /\ RestoreInv'
  BY DEF InstalledInv, RestoreInv, EditsKept, Restoring, content
<1> QED
  BY <1>1, <1>2, <1>3, <1>4, <1>5, <1>6 DEF PlaceInv

\* What happens around the setup: it touches neither the plan nor the receipts.
Outside ==
    \/ Kill \/ WorkerReady \/ WorkerFails \/ AutoRestart
    \/ (\E p \in Targets : EditRendered(p)) \/ EditBridge \/ EditToml

\* What happens around the setup keeps the types.
LEMMA OutsideTypes ==
    ASSUME TypeInv, Outside
    PROVE  TypeInv'
<1> USE DEF fixed, memory, history, place, authority, content
<1>1. CASE Kill
  BY <1>1, FrameTypes DEF Kill, TypeInv, ServiceCall
<1>2. CASE WorkerReady
  BY <1>2 DEF WorkerReady, TypeInv, NoProcess, Process
<1>3. CASE WorkerFails
  BY <1>3 DEF WorkerFails, TypeInv, NoProcess, Process, Processes, Contents
<1>4. CASE AutoRestart
  <2>1. /\ svc' \in {"inactive", "active", "restarting", "failed"}
        /\ running' \in Processes /\ (svc' = "active" <=> running' # NoProcess)
    BY <1>4, ServiceTypes DEF AutoRestart, TypeInv, NoProcess, Process
  <2> QED
    BY <1>4, <2>1 DEF AutoRestart, TypeInv
<1>5. ASSUME NEW p \in Targets, EditRendered(p) PROVE TypeInv'
  <2>1. /\ files' \in [Targets -> Contents] /\ fresh' \in BOOLEAN
        /\ edits' \in SUBSET Targets
    BY <1>5 DEF EditRendered, TypeInv, Contents
  <2> QED
    BY <1>5, <2>1, FrameTypes DEF EditRendered, TypeInv, ServiceCall
<1>6. CASE EditBridge
  BY <1>6, FrameTypes DEF EditBridge, TypeInv, Bridges, ServiceCall
<1>7. CASE EditToml
  <2>1. toml' \in Tomls
    BY <1>7 DEF EditToml, TypeInv, Tomls
  <2> QED
    BY <1>7, <2>1, FrameTypes DEF EditToml, TypeInv, ServiceCall
<1> QED
  BY <1>1, <1>2, <1>3, <1>4, <1>5, <1>6, <1>7 DEF Outside

\* What happens around the setup keeps the invariant.
LEMMA OutsideKeeps ==
    ASSUME IInv, Outside
    PROVE  IInv'
<1> USE DEF IInv, fixed, memory, place
<1>1. TypeInv'
  BY OutsideTypes
<1>2. UNCHANGED <<wish, receipts, items, previous, restart_safe>>
  BY DEF Outside, Kill, WorkerReady, WorkerFails, AutoRestart, EditRendered, EditBridge, EditToml
<1>3. UNCHANGED place \/ (Kill /\ phase' = "idle")
  BY DEF Outside, Kill, WorkerReady, WorkerFails, AutoRestart, EditRendered, EditBridge, EditToml
<1>4. \A a : Planned(a)' <=> Planned(a)
  BY <1>2 DEF Planned, Plan
<1>5. WalkInv'
  BY <1>2, <1>3, <1>4 DEF PlaceInv, WalkInv, Act, Plan
<1>6. /\ UNCHANGED unit /\ toml' \in {toml, "edited"}
      /\ disturbed => disturbed'
  BY DEF Outside, Kill, WorkerReady, WorkerFails, AutoRestart, EditRendered, EditBridge, EditToml,
         authority, history
<1>7. StepsInv'
  BY <1>2, <1>3, <1>4, <1>6 DEF PlaceInv, StepsInv, Running
<1>8. ReconcileInv'
  BY <1>2, <1>3 DEF ReconcileInv, Running
<1>9. InstalledInv' /\ RestoreInv'
  <2>1. CASE Kill
    BY <2>1 DEF Kill, InstalledInv, RestoreInv, EditsKept, Running, content, history
  <2>2. ASSUME NEW p \in Targets, EditRendered(p) PROVE InstalledInv' /\ RestoreInv'
    <3>1. /\ UNCHANGED place /\ disturbed' = TRUE
          /\ UNCHANGED <<ToWrite, RenderTargets, AtHand>>
      BY <1>2, <2>2 DEF EditRendered, ToWrite, RenderTargets, AtHand
    <3>2. EditsKept'
      BY <2>2 DEF EditRendered, EditsKept, RestoreInv, TypeInv
    <3>3. /\ \A q : q \in edits' => q \in edits \/ (q = p /\ ~ Unnoticed(p))
          /\ fresh' => fresh /\ ~ (step = "check" /\ p = AtHand)
      BY <2>2 DEF EditRendered, TypeInv
    <3> QED
      BY <3>1, <3>2, <3>3 DEF InstalledInv, RestoreInv, Unnoticed, Running
  <2>3. CASE ~ Kill /\ ~ \E p \in Targets : EditRendered(p)
    <3>1. UNCHANGED <<files, edits, fresh, place>>
      BY <2>3 DEF Outside, WorkerReady, WorkerFails, AutoRestart, EditBridge, EditToml, content,
                  history
    <3>2. UNCHANGED <<ToWrite, RenderTargets, AtHand>>
      BY <1>2 DEF ToWrite, RenderTargets, AtHand
    <3> QED
      BY <1>6, <3>1, <3>2 DEF InstalledInv, RestoreInv, EditsKept, Running
  <2> QED
    BY <2>1, <2>2, <2>3
<1>10. AuthorityInv'
  <2>1. disturbed' \/ (UNCHANGED <<authority, svc, running, disturbed>> /\ (Kill \/ WorkerReady))
    BY DEF Outside, Kill, WorkerReady, WorkerFails, AutoRestart, EditRendered, EditBridge,
           EditToml, history, service
  <2>2. HasStopped' = HasStopped
    BY <1>2 DEF HasStopped
  <2> QED
    BY <1>2, <1>3, <2>1, <2>2 DEF AuthorityInv, Running, authority
<1> QED
  BY <1>1, <1>5, <1>7, <1>8, <1>9, <1>10 DEF PlaceInv

\* Every step keeps the invariant.
LEMMA NextKeeps == IInv /\ [Next]_vars => IInv'
<1> SUFFICES ASSUME IInv, [Next]_vars PROVE IInv'
  OBVIOUS
<1>1. CASE Step
  BY <1>1, StepTypes, StepWalks, WalkKeeps, StepKeepsSteps, StepKeepsRestore,
     StepKeepsReconcile, StepKeepsAuthority DEF IInv, PlaceInv
<1>2. CASE Outside
  BY <1>2, OutsideKeeps
<1>3. ASSUME NEW granted, Begin(granted) PROVE IInv'
  BY <1>3, BeginKeeps
<1>4. CASE UNCHANGED vars
  BY <1>4 DEF vars, authority, content, service, place, memory, fixed, history, IInv, TypeInv,
     PlaceInv, WalkInv, StepsInv, ReconcileInv, AuthorityInv, InstalledInv, RestoreInv, EditsKept,
     Running, Planned, Plan, Act, HasStopped, NoProcess, Process, ToWrite, RenderTargets, AtHand
<1> QED
  BY <1>1, <1>2, <1>3, <1>4 DEF Next, Outside

\* The invariant holds.
LEMMA Invariance == Spec => []IInv
BY InitHolds, NextKeeps, PTL DEF Spec

\* An operator's edit of a rendered file is kept by the apply, its clean-up and its rollback,
\* for every plan and any number of edits, unless it falls into one of the moments Unnoticed
\* names: the comparison and the identity of the file are taken at two different times, and
\* an edit in between, or before either, is met by one of the two checks.
THEOREM OperatorEditsKept == Spec => []EditsKept
<1>1. IInv => EditsKept
  BY DEF IInv, RestoreInv
<1> QED
  BY <1>1, Invariance, PTL

\* What a step of the apply may do with the authority and the Worker: leave both alone, write
\* the authority of a stopped Worker, stop the Worker, or start it under an authority that fits.
LEMMA AuthorityChange ==
    ASSUME IInv, Step, ~ disturbed
    PROVE  \/ UNCHANGED <<toml, loaded, running>>
           \/ running = NoProcess /\ UNCHANGED running
           \/ running' = NoProcess /\ UNCHANGED <<toml, loaded>>
           \/ /\ running = NoProcess /\ UNCHANGED <<toml, loaded>> /\ Fit(toml, loaded)
              /\ running' = Process(toml, loaded, files["manifest"])
<1> USE DEF authority, service, content
<1>0. /\ StopService => running' = NoProcess
      /\ StartService => \/ UNCHANGED running
                         \/ /\ running = NoProcess
                            /\ running' = Process(toml, loaded, files["manifest"])
      /\ svc # "active" => running = NoProcess
  BY DEF StopService, StartService, IInv, TypeInv
<1>1. CASE ReconcileToml \/ ReconcileReload
  BY <1>0, <1>1 DEF ReconcileToml, ReconcileReload, In, IInv, AuthorityInv, AuthoritySteps,
                    Running
<1>2. CASE UndoToml \/ UndoReload
  BY <1>0, <1>2 DEF UndoToml, UndoReload, IInv, AuthorityInv, AuthoritySteps, Running
<1>3. CASE ApplyStart
  BY <1>0, <1>3 DEF ApplyStart, IInv, AuthorityInv
<1>4. CASE StartRuntime
  <2>1. Fit(toml, loaded)
    BY <1>4 DEF StartRuntime, In, IInv, AuthorityInv, AuthoritySteps
  <2> QED
    BY <1>0, <1>4, <2>1 DEF StartRuntime
<1>5. CASE UndoWorkerStop
  <2>1. CASE restart_safe /\ Contract = "smoke"
    <3>1. HasStopped /\ Running
      BY <1>5 DEF UndoWorkerStop, Undoing, Undo, HasStopped, IInv, TypeInv, PlaceInv, WalkInv,
                  Running
    <3>2. Fit(toml, loaded)
      BY <2>1, <3>1 DEF IInv, AuthorityInv, Contract, Fit
    <3> QED
      BY <1>0, <1>5, <3>2 DEF UndoWorkerStop
  <2>2. CASE ~ (restart_safe /\ Contract = "smoke")
    BY <1>5, <2>2 DEF UndoWorkerStop
  <2> QED
    BY <2>1, <2>2
<1>6. CASE ApplyWorkerStop \/ UndoStart \/ UndoReconcile \/ \E a : ApplyStop(a)
  BY <1>0, <1>6 DEF ApplyWorkerStop, UndoStart, UndoReconcile, ApplyStop
<1> QED
  BY <1>1, <1>2, <1>3, <1>4, <1>5, <1>6
  DEF Step, Inspect, Finish, ApplyPrerequisite, ApplyBridge, ApplyRender, WriteRendered,
      CompareRendered, StatRendered, CheckRendered, RestoreRendered, ApplyReconcile,
      ReconcileUnit, UndoUnit, ApplyCheck,
      ApplyHealth, UndoBridge, UndoRender, UndoStop

\* An authority is whole or broken, and so is the one a Worker runs under.
LEMMA FittingTypes ==
    /\ \A t \in Tomls, u \in Units : Fitting(t, u) \in Units \cup {"mixed"}
    /\ \A t \in Tomls, u \in Units : Fit(t, u) => Fitting(t, u) = u
    /\ \A p \in Processes :
          (IF p = NoProcess THEN "stopped" ELSE Fitting(p.toml, p.unit))
             \in Units \cup {"mixed", "stopped"}
BY DEF Fitting, Fit, Processes

\* The setup keeps its promise about the Worker: what a started Worker would run changes only
\* while the Worker is stopped, and it is started only under TOML and unit that fit, until
\* systemd or an operator interferes.
THEOREM KeepsAuthority == Spec => AuthorityRefined
<1> DEFINE worker == IF running = NoProcess THEN "stopped" ELSE Fitting(running.toml, running.unit)
<1>1. Init => Authority!Init
  <2> SUFFICES ASSUME Init PROVE Authority!Init
    OBVIOUS
  <2>1. Fitting(toml, loaded) = loaded /\ loaded \in Units
    BY DEF Init, Fitting
  <2>2. worker \in {"stopped", Fitting(toml, loaded)}
    BY DEF Init, Process
  <2>3. (~ disturbed) \in BOOLEAN
    OBVIOUS
  <2> QED
    BY <2>1, <2>2, <2>3 DEF Authority!Init
<1>2. ASSUME IInv, IInv', [Next]_vars PROVE [Authority!Next]_(Authority!vars)
  <2>0. /\ toml \in Tomls /\ loaded \in Units /\ running \in Processes
        /\ toml' \in Tomls /\ loaded' \in Units /\ running' \in Processes
    BY <1>2 DEF IInv, TypeInv
  <2>1. CASE disturbed \/ disturbed'
    <3>1. /\ Fitting(toml', loaded') \in Units \cup {"mixed"}
          /\ worker' \in Units \cup {"mixed", "stopped"}
      BY <2>0, FittingTypes
    <3> QED
      BY <2>1, <3>1 DEF Authority!Next, Authority!Interference
  <2>2. CASE ~ disturbed /\ ~ disturbed'
    <3>1. \/ UNCHANGED <<toml, loaded, running>>
          \/ running = NoProcess /\ UNCHANGED running
          \/ running' = NoProcess /\ UNCHANGED <<toml, loaded>>
          \/ /\ running = NoProcess /\ UNCHANGED <<toml, loaded>> /\ Fit(toml, loaded)
             /\ running' = Process(toml, loaded, files["manifest"])
      BY <1>2, <2>2, AuthorityChange
      DEF Next, Begin, Kill, WorkerReady, WorkerFails, AutoRestart, EditRendered, EditBridge,
          EditToml, vars, authority, service
    <3>2. CASE UNCHANGED <<toml, loaded, running>>
      BY <2>2, <3>2 DEF Authority!vars
    <3>3. CASE running = NoProcess /\ UNCHANGED running
      <4>1. Fitting(toml', loaded') \in Units \cup {"mixed"}
        BY <2>0, FittingTypes
      <4> QED
        BY <2>2, <3>3, <4>1 DEF Authority!Next, Authority!Change
    <3>4. CASE running' = NoProcess /\ UNCHANGED <<toml, loaded>>
      BY <2>2, <3>4 DEF Authority!Next, Authority!Stop
    <3>5. CASE /\ running = NoProcess /\ UNCHANGED <<toml, loaded>> /\ Fit(toml, loaded)
               /\ running' = Process(toml, loaded, files["manifest"])
      <4>1. Fitting(toml, loaded) = loaded /\ loaded \in Units
        BY <2>0, <3>5, FittingTypes
      <4>2. running' # NoProcess /\ running'.toml = toml /\ running'.unit = loaded
        BY <2>0, <3>5 DEF Process, NoProcess, Tomls, Modes
      <4> QED
        BY <2>2, <3>5, <4>1, <4>2 DEF Authority!Next, Authority!Start
    <3> QED
      BY <3>1, <3>2, <3>3, <3>4, <3>5
  <2> QED
    BY <2>1, <2>2
<1> QED
  BY <1>1, <1>2, Invariance, PTL DEF Spec, AuthorityRefined, Authority!Spec

-----------------------------------------------------------------------------
(* The rollback                                                            *)

\* Every step of the apply keeps its place in the handler of the action at hand.
LEMMA StepKeepsHand ==
    ASSUME TypeInv, PlaceInv, HandInv, Step
    PROVE  HandInv'
<1> USE DEF HandInv, GiveUp, Goto, Advance, Raise, Undone, Running, AuthoritySteps, Restoring,
            memory, fixed
<1>0. UNCHANGED wish /\ (UNCHANGED <<phase, at, wish, receipts>> => Hand' = Hand /\ Plan' = Plan)
  BY StepWalks DEF Walk, Hand, Act, Undo, Plan
<1>1. CASE Inspect
  BY <1>0, <1>1 DEF Inspect
<1>2. CASE ApplyRender \/ WriteRendered
  BY <1>0, <1>2 DEF ApplyRender, WriteRendered, In, Hand
<1>3. CASE CompareRendered \/ StatRendered \/ CheckRendered \/ RestoreRendered
  BY <1>0, <1>3 DEF CompareRendered, StatRendered, CheckRendered, RestoreRendered, Leave
<1>4. CASE ApplyReconcile \/ ReconcileToml \/ ReconcileUnit \/ ReconcileReload
  BY <1>0, <1>4 DEF ApplyReconcile, ReconcileToml, ReconcileUnit, ReconcileReload, In, Hand
<1>5. CASE UndoToml \/ UndoUnit \/ UndoReload
  BY <1>0, <1>5 DEF UndoToml, UndoUnit, UndoReload, GiveUp, GiveUpUndoing, Leave
<1>6. CASE UndoRender
  BY <1>0, <1>6 DEF UndoRender, Undoing, Hand
<1>7. CASE UndoReconcile
  BY <1>0, <1>7 DEF UndoReconcile, Undoing, Hand
<1>8. CASE ApplyStart \/ StartRuntime
  BY <1>0, <1>8 DEF ApplyStart, StartRuntime, In, Hand
<1>9. CASE Finish \/ UndoBridge \/ UndoWorkerStop \/ UndoStart \/ UndoStop
  BY <1>9 DEF Finish, UndoBridge, UndoWorkerStop, UndoStart, UndoStop, Undoing
<1>10. ASSUME NEW a, ApplyPrerequisite(a) \/ ApplyCheck(a) \/ ApplyStop(a) PROVE HandInv'
  BY <1>10 DEF ApplyPrerequisite, ApplyCheck, ApplyStop, In
<1>11. CASE ApplyBridge \/ ApplyWorkerStop \/ ApplyHealth
  BY <1>11 DEF ApplyBridge, ApplyWorkerStop, ApplyHealth, In
<1> QED
  BY <1>1, <1>2, <1>3, <1>4, <1>5, <1>6, <1>7, <1>8, <1>9, <1>10, <1>11 DEF Step

\* Which steps handle an action: the driver has a handler for each kind.
LEMMA Handlers ==
    ASSUME Step, HandInv, Running'
    PROVE  /\ Hand = "ensure_nvidia_driver_bridge" => Inspect \/ ApplyBridge \/ UndoBridge
           /\ Hand = "render_config" =>
                 \/ Inspect \/ ApplyRender \/ WriteRendered
                 \/ CompareRendered \/ StatRendered \/ CheckRendered \/ RestoreRendered
                 \/ UndoRender
           /\ Hand = "worker_stop" => Inspect \/ ApplyWorkerStop \/ UndoWorkerStop
           /\ Hand = "reconcile_worker_execution" =>
                 \/ Inspect \/ ApplyReconcile \/ ReconcileToml \/ ReconcileUnit
                 \/ ReconcileReload \/ UndoToml \/ UndoUnit \/ UndoReload \/ UndoReconcile
           /\ Hand = "runtime_start" => Inspect \/ ApplyStart \/ StartRuntime \/ UndoStart
           /\ Hand = "health_check" => Inspect \/ ApplyHealth
           /\ Hand \in {"runtime_stop", "runtime_release"} => Inspect \/ ApplyStop(Hand) \/ UndoStop
<1>1. ASSUME NEW a, ApplyPrerequisite(a) \/ ApplyCheck(a) \/ ApplyStop(a)
      PROVE  Hand = a
  BY <1>1 DEF ApplyPrerequisite, ApplyCheck, ApplyStop, In, Hand
<1>2. /\ ~ Finish
      /\ ApplyBridge \/ UndoBridge => Hand = "ensure_nvidia_driver_bridge"
      /\ ApplyRender \/ WriteRendered \/ UndoRender => Hand = "render_config"
      /\ ApplyWorkerStop \/ UndoWorkerStop => Hand = "worker_stop"
      /\ ApplyReconcile \/ ReconcileToml \/ ReconcileUnit \/ ReconcileReload \/ UndoReconcile =>
            Hand = "reconcile_worker_execution"
      /\ ApplyStart \/ StartRuntime \/ UndoStart => Hand = "runtime_start"
      /\ ApplyHealth => Hand = "health_check"
      /\ UndoStop => Hand = "runtime_stop"
  BY DEF Finish, ApplyBridge, UndoBridge, ApplyRender, WriteRendered, UndoRender,
         ApplyWorkerStop, UndoWorkerStop, ApplyReconcile, ReconcileToml, ReconcileUnit,
         ReconcileReload, UndoReconcile, ApplyStart, StartRuntime, UndoStart, ApplyHealth,
         UndoStop, In, Undoing, Hand, Running
<1>3. /\ CompareRendered \/ StatRendered \/ CheckRendered \/ RestoreRendered =>
            Hand = "render_config"
      /\ UndoToml \/ UndoUnit \/ UndoReload => Hand = "reconcile_worker_execution"
  BY DEF CompareRendered, StatRendered, CheckRendered, RestoreRendered, UndoToml, UndoUnit,
         UndoReload, HandInv, AuthoritySteps, Restoring
<1>4. ASSUME NEW a \in Directories \cup {"ensure_package", "download_model", "convert_model",
                                        "preflight", "verify_model_reference"}
      PROVE  a \notin {"ensure_nvidia_driver_bridge", "render_config", "worker_stop",
                       "reconcile_worker_execution", "runtime_start", "health_check",
                       "runtime_stop", "runtime_release"}
  BY DEF Directories
<1> QED
  BY <1>1, <1>2, <1>3, <1>4 DEF Step

\* What only the handlers of certain actions change.
LEMMA Frames ==
    ASSUME Step, HandInv, Running'
    PROVE  /\ Hand # "ensure_nvidia_driver_bridge" => UNCHANGED link
           /\ Hand # "render_config" => UNCHANGED files /\ ~ Rendering /\ ~ Rendering'
           /\ Hand # "reconcile_worker_execution" =>
                 /\ UNCHANGED <<toml, unit>> /\ loaded' \in {loaded, unit}
                 /\ step \notin AuthoritySteps /\ step' \notin AuthoritySteps
           /\ Hand \notin {"worker_stop", "reconcile_worker_execution", "runtime_start",
                           "runtime_stop", "runtime_release"} => UNCHANGED service
           /\ UNCHANGED <<before, disturbed>> /\ spoiled \subseteq spoiled'
           /\ reported' = {} => reported = {}
<1> USE DEF GiveUp, Restoring, Step, Inspect, Finish, ApplyPrerequisite, ApplyBridge,
            ApplyRender, WriteRendered,
      CompareRendered, StatRendered, CheckRendered, RestoreRendered, ApplyWorkerStop,
      ApplyReconcile, ReconcileToml,
      ReconcileUnit, ReconcileReload, UndoToml, UndoUnit, UndoReload, ApplyCheck, ApplyStart,
      StartRuntime, ApplyHealth, ApplyStop, UndoBridge, UndoRender, UndoReconcile,
      UndoWorkerStop, UndoStart, UndoStop
<1>1. Hand # "ensure_nvidia_driver_bridge" => UNCHANGED link
  BY DEF In, Undoing, Hand, content
<1>2. Hand # "render_config" => UNCHANGED files
  BY DEF In, Undoing, Hand, content, HandInv
<1>3. Hand # "render_config" => ~ Rendering /\ ~ Rendering'
  BY DEF In, Undoing, Hand, HandInv, Running, Rendering, Goto, Advance, Raise, Undone, Leave,
         GiveUp, GiveUpUndoing
<1>4. Hand # "reconcile_worker_execution" => UNCHANGED <<toml, unit>> /\ loaded' \in {loaded, unit}
  BY DEF In, Undoing, Hand, HandInv, authority, AuthoritySteps
<1>5. Hand # "reconcile_worker_execution" =>
         step \notin AuthoritySteps /\ step' \notin AuthoritySteps
  BY DEF In, Undoing, Hand, HandInv, Running, AuthoritySteps, Goto, Advance, Raise, Undone, Leave
<1>6. Hand \notin {"worker_stop", "reconcile_worker_execution", "runtime_start",
                   "runtime_stop", "runtime_release"} => UNCHANGED service
  BY DEF In, Undoing, Hand
<1>7. UNCHANGED <<before, disturbed>> /\ spoiled \subseteq spoiled'
  BY DEF fixed, history, Spoil, GiveUpUndoing
<1>8. reported' = {} => reported = {}
  BY DEF memory, Report, GiveUp, GiveUpUndoing
<1> QED
  BY <1>1, <1>2, <1>3, <1>4, <1>5, <1>6, <1>7, <1>8

\* The live receipts of the action are the same after the step.
SameReceipts(a) ==
    /\ \A i : (i \in Live' /\ receipts'[i].action = a) <=> (i \in Live /\ receipts[i].action = a)
    /\ \A i \in Live : receipts[i].action = a => receipts'[i] = receipts[i]

\* The action's live receipts decide whether it is held.
LEMMA SameHeld ==
    ASSUME NEW a, SameReceipts(a)
    PROVE  Held(a)' <=> Held(a)
BY DEF SameReceipts, Held

\* Live receipts are receipts, and no two of them are of the same action.
LEMMA LiveReceipts ==
    ASSUME TypeInv, PlaceInv, Running
    PROVE  /\ Live \subseteq DOMAIN receipts
           /\ phase = "applying" => Live = DOMAIN receipts
           /\ phase = "rolling" => Live = 1 .. at
           /\ \A i, j \in Live : receipts[i].action = receipts[j].action => i = j
<1>1. Live \subseteq DOMAIN receipts /\ (phase = "applying" => Live = DOMAIN receipts)
  BY DEF TypeInv, PlaceInv, WalkInv, Running, Live
<1>2. ASSUME NEW i \in Live, NEW j \in Live, receipts[i].action = receipts[j].action
      PROVE  i = j
  <2>1. i \in Nat /\ j \in Nat /\ i \in DOMAIN receipts /\ j \in DOMAIN receipts
    BY <1>1 DEF TypeInv
  <2>2. ~ (i < j)
    BY <1>2, <2>1, RankNat DEF PlaceInv, WalkInv
  <2>3. ~ (j < i)
    BY <1>2, <2>1, RankNat DEF PlaceInv, WalkInv
  <2> QED
    BY <2>1, <2>2, <2>3
<1> QED
  BY <1>1, <1>2 DEF Live

\* No live receipt is of an action after the one at hand, nor of the one being applied.
LEMMA NothingAhead ==
    ASSUME TypeInv, PlaceInv, Running, NEW a,
           phase = "applying" => at <= Len(Plan), phase = "rolling" => at > 0,
           Rank(a) > Rank(Hand) \/ (phase = "applying" /\ a = Hand)
    PROVE  ~ Held(a)
<1> SUFFICES ASSUME NEW i \in Live, receipts[i].action = a PROVE FALSE
  BY DEF Held
<1>1. i \in DOMAIN receipts /\ i \in Nat
  BY LiveReceipts DEF TypeInv
<1>2. CASE phase = "applying"
  BY <1>1, <1>2, RankNat DEF PlaceInv, WalkInv, Hand
<1>3. CASE phase = "rolling"
  <2>1. at \in DOMAIN receipts /\ at \in Nat /\ i <= at
    BY <1>3 DEF PlaceInv, WalkInv, TypeInv, Live
  <2>2. Rank(receipts[i].action) <= Rank(receipts[at].action)
    BY <1>1, <2>1, RankNat DEF PlaceInv, WalkInv
  <2> QED
    BY <1>3, <2>2, RankNat DEF Hand, Undo
<1> QED
  BY <1>2, <1>3 DEF Running

\* Adding a receipt makes it live, and it is the only one of its action.
LEMMA AddsLive ==
    ASSUME TypeInv, NEW a, NEW paths, NEW host, Added(a, paths, host),
           phase = "applying", phase' = "applying"
    PROVE  /\ \A i : i \in Live' <=> i \in Live \/ i = Len(receipts) + 1
           /\ Len(receipts) + 1 \notin Live
           /\ \A i \in Live : receipts'[i] = receipts[i]
           /\ receipts'[Len(receipts) + 1] = [action |-> a, items |-> paths, previous |-> host]
           /\ \A b : Held(b)' <=> Held(b) \/ b = a
           /\ \A b : b # a => SameReceipts(b)
<1>1. /\ \A i : i \in Live' <=> i \in Live \/ i = Len(receipts) + 1
      /\ Len(receipts) + 1 \notin Live
      /\ \A i \in Live : receipts'[i] = receipts[i]
      /\ receipts'[Len(receipts) + 1] = [action |-> a, items |-> paths, previous |-> host]
  BY DEF Added, Live
<1>2. \A b : b # a => SameReceipts(b)
  BY <1>1 DEF SameReceipts
<1>3. ASSUME NEW b PROVE Held(b)' <=> Held(b) \/ b = a
  BY <1>1 DEF Held
<1> QED
  BY <1>1, <1>2, <1>3

\* Undoing a receipt leaves the others live.
LEMMA DropsLive ==
    ASSUME TypeInv, PlaceInv, phase = "rolling", at > 0, Undone, UNCHANGED receipts
    PROVE  /\ Live' \subseteq Live
           /\ \A b : Held(b)' <=> Held(b) /\ b # Undo.action
           /\ \A b : b # Undo.action => SameReceipts(b)
<1>1. /\ \A i : i \in Live' <=> i \in Live /\ i # at
      /\ at \in Live /\ receipts' = receipts
  BY DEF TypeInv, Undone, Live
<1>2. \A b : b # Undo.action => SameReceipts(b)
  BY <1>1 DEF SameReceipts, Undo
<1>3. ASSUME NEW b PROVE Held(b)' <=> Held(b) /\ b # Undo.action
  <2>1. \A i \in Live : receipts[i].action = receipts[at].action => i = at
    BY <1>1, LiveReceipts DEF Running
  <2> QED
    BY <1>1, <2>1 DEF Held, Undo
<1> QED
  BY <1>1, <1>2, <1>3

\* A step without a new receipt that undoes none keeps them all.
LEMMA KeepsLive ==
    ASSUME TypeInv, PlaceInv, Step, Running', UNCHANGED receipts,
           phase = "rolling" => step' # "undo"
    PROVE  \A a : SameReceipts(a)
<1>1. Live' = Live
  BY StepWalks DEF Walk, Live, Advance, Raise, Goto, Undone, Running
<1> QED
  BY <1>1 DEF SameReceipts

\* A step leaves the receipts of other actions than the one at hand alone.
LEMMA OtherReceipts ==
    ASSUME TypeInv, PlaceInv, Step, Running', NEW a, Hand # a
    PROVE  SameReceipts(a)
<1>1. CASE UNCHANGED receipts /\ (phase = "rolling" => step' # "undo")
  BY <1>1, KeepsLive
<1>2. CASE ~ UNCHANGED receipts
  <2>1. phase = "applying" /\ at <= Len(Plan) /\ phase' = "applying"
    BY <1>2, StepWalks DEF Walk, Advance
  <2>2. PICK paths \in Seq(Targets), host \in Hosts : Changed(paths, host)
    BY <1>2, StepWalks DEF Walk
  <2>3. In(Act, step)
    BY <2>1 DEF In
  <2>4. Added(Act, paths, host)
    BY <2>2, <2>3, NewReceipt
  <2> QED
    BY <2>1, <2>4, AddsLive DEF Hand
<1>3. CASE UNCHANGED receipts /\ phase = "rolling" /\ step' = "undo"
  <2>1. CASE at > 0 /\ Undone
    BY <1>3, <2>1, DropsLive DEF Hand
  <2>2. CASE Goto(step')
    <3>1. Live' = Live
      BY <1>3, <2>2 DEF Goto, Live
    <3> QED
      BY <1>3, <3>1 DEF SameReceipts
  <2> QED
    BY <1>3, <2>1, <2>2, StepWalks DEF Walk, Running
<1> QED
  BY <1>1, <1>2, <1>3

\* An apply that goes on is at an action of its plan.
LEMMA AtInPlan ==
    ASSUME HandInv, Step, Running', phase = "applying"
    PROVE  at <= Len(Plan)
<1>1. step = "inspect" => Inspect
  BY DEF Step, Inspect, Finish, ApplyPrerequisite, ApplyBridge, ApplyRender, WriteRendered,
      CompareRendered, StatRendered, CheckRendered, RestoreRendered, ApplyWorkerStop,
      ApplyReconcile, ReconcileToml,
      ReconcileUnit, ReconcileReload, UndoToml, UndoUnit, UndoReload, ApplyCheck, ApplyStart,
      StartRuntime, ApplyHealth, ApplyStop, UndoBridge, UndoRender, UndoReconcile,
      UndoWorkerStop, UndoStart, UndoStop, In, Undoing, Running
<1> QED
  BY <1>1 DEF Inspect, HandInv, Running

\* An apply that can still recover could before.
LEMMA RecoversBefore ==
    ASSUME TypeInv, PlaceInv, HandInv, Step, Recovers'
    PROVE  Recovers
<1>1. Running' /\ ~ disturbed' /\ reported' = {}
  BY DEF Recovers
<1>2. Running /\ ~ disturbed /\ reported = {}
  BY <1>1, Frames, StepWalks DEF Walk, Running, Raise, Advance
<1> QED
  BY <1>1, <1>2, AtInPlan DEF Recovers

\* An inspection changes neither the host nor the receipts.
LEMMA InspectKeeps ==
    ASSUME TypeInv, PlaceInv, Inspect
    PROVE  /\ UNCHANGED <<authority, link, files, svc, before, spoiled, receipts, items, previous>>
           /\ \A a : SameReceipts(a) /\ (Held(a)' <=> Held(a))
           /\ step = "inspect" /\ step' \in {"inspect", "apply", "undo"}
           /\ phase = "applying"
<1>1. /\ UNCHANGED <<authority, link, files, svc, before, spoiled, receipts, items, previous>>
      /\ step = "inspect" /\ step' \in {"inspect", "apply", "undo"}
      /\ phase = "applying" /\ Running'
  BY DEF Inspect, Raise, Advance, Goto, content, service, memory, fixed, history, Running
<1>2. \A a : SameReceipts(a)
  BY <1>1, KeepsLive DEF Step
<1> QED
  BY <1>1, <1>2, SameHeld

\* A rollback that goes on has a receipt at hand.
LEMMA HandsFull ==
    ASSUME TypeInv, PlaceInv, Step, Running'
    PROVE  phase = "rolling" => at > 0
BY DEF Step, Inspect, Finish, ApplyPrerequisite, ApplyBridge, ApplyRender, WriteRendered,
      CompareRendered, StatRendered, CheckRendered, RestoreRendered, ApplyWorkerStop,
      ApplyReconcile, ReconcileToml,
      ReconcileUnit, ReconcileReload, UndoToml, UndoUnit, UndoReload, ApplyCheck, ApplyStart,
      StartRuntime, ApplyHealth, ApplyStop, UndoBridge, UndoRender, UndoReconcile,
      UndoWorkerStop, UndoStart, UndoStop, In, Undoing, Running, PlaceInv, StepsInv

\* A restoring that gives up without a report is that of an apply.
LEMMA GaveUp ==
    ASSUME NEW left, GiveUp(left), reported' = {}
    PROVE  phase = "applying" /\ Raise /\ spoiled' = spoiled \cup left
BY DEF GiveUp, Leave, Report

\* The rollback finds the driver bridge again.
LEMMA StepRemembersBridge ==
    ASSUME TypeInv, PlaceInv, HandInv, Step, Recovers, Recovers', UnspoiledInv, RemembersBridge
    PROVE  RemembersBridge'
<1> DEFINE a == "ensure_nvidia_driver_bridge"
<1>0. Running' /\ UNCHANGED before /\ spoiled \subseteq spoiled'
  BY Frames DEF Recovers
<1>1. ASSUME UNCHANGED link \/ "link" \in spoiled', SameReceipts(a) PROVE RemembersBridge'
  <2>1. Held(a)' <=> Held(a)
    BY <1>1, SameHeld
  <2> QED
    BY <1>0, <1>1, <2>1 DEF RemembersBridge, SameReceipts
<1>2. CASE Hand # a
  BY <1>0, <1>1, <1>2, Frames, OtherReceipts
<1>3. CASE Inspect
  BY <1>1, <1>3, InspectKeeps
<1>4. CASE ApplyBridge
  <2>1. In(a, "apply") /\ phase = "applying" /\ Hand = a
    BY <1>4 DEF ApplyBridge, In, Hand
  <2>2. CASE UNCHANGED receipts
    <3>1. UNCHANGED link \/ "link" \in spoiled'
      BY <1>4, <2>2, ChangedFacts DEF ApplyBridge, Spoil, Changed, TypeInv
    <3> QED
      BY <1>0, <1>1, <2>1, <2>2, <3>1, KeepsLive
  <2>3. CASE Changed(<< >>, Snapshot) /\ Advance
    <3>1. Added(a, << >>, Snapshot)
      <4>1. << >> \in Seq(Targets) /\ Snapshot \in Hosts
        BY SnapshotType
      <4> QED
        BY <2>1, <2>3, <4>1, NewReceipt
    <3>2. ~ Held(a)
      BY <2>1, NothingAhead DEF Recovers
    <3>3. Snapshot.link = before.link
      BY <2>1, <3>2 DEF RemembersBridge, UnspoiledInv, Snapshot
    <3>4. phase' = "applying"
      BY <2>1, <2>3 DEF Advance
    <3>5. /\ \A i : i \in Live' <=> i \in Live \/ i = Len(receipts) + 1
          /\ \A i \in Live : receipts'[i] = receipts[i]
          /\ receipts'[Len(receipts) + 1] =
                [action |-> a, items |-> << >>, previous |-> Snapshot]
      BY <2>1, <3>1, <3>4, AddsLive
    <3>6. Held(a)'
      BY <3>5 DEF Held
    <3> QED
      BY <1>0, <3>3, <3>5, <3>6 DEF RemembersBridge
  <2> QED
    BY <1>4, <2>2, <2>3 DEF ApplyBridge
<1>5. CASE UndoBridge
  <2>1. /\ phase = "rolling" /\ at > 0 /\ Undone /\ UNCHANGED receipts /\ Undo.action = a
        /\ link' = Undo.previous.link
    BY <1>5 DEF UndoBridge, Undoing, Recovers, Report
  <2>2. at \in Live /\ Live' \subseteq Live
    BY <2>1, DropsLive DEF Live, TypeInv
  <2> QED
    BY <1>0, <2>1, <2>2 DEF RemembersBridge, Undo
<1> QED
  BY <1>0, <1>2, <1>3, <1>4, <1>5, Handlers

\* The rollback finds the rendered files again.
LEMMA StepRemembersFiles ==
    ASSUME TypeInv, PlaceInv, HandInv, Step, Recovers, Recovers', UnspoiledInv, RemembersFiles
    PROVE  RemembersFiles'
<1> DEFINE a == "render_config"
<1>0. /\ Running' /\ UNCHANGED before /\ spoiled \subseteq spoiled'
      /\ files \in [Targets -> Contents] /\ before.files \in [Targets -> Contents]
      /\ items \in Seq(Targets) /\ previous \in Hosts
  BY Frames DEF Recovers, TypeInv, Hosts
<1>1. ASSUME UNCHANGED files, ~ Rendering, ~ Rendering', SameReceipts(a) PROVE RemembersFiles'
  BY <1>0, <1>1 DEF RemembersFiles, MayDiffer, SameReceipts
<1>2. CASE Hand # a
  BY <1>0, <1>1, <1>2, Frames, OtherReceipts
<1>3. CASE Inspect
  BY <1>1, <1>3, InspectKeeps DEF Rendering, Restoring
<1>a. ASSUME GiveUp(ToSet(items)), UNCHANGED receipts, Rendering,
             \A p \in Targets : p \notin ToSet(items) => files'[p] = files[p]
      PROVE  RemembersFiles'
  <2>1. phase = "applying" /\ Raise /\ spoiled' = spoiled \cup ToSet(items)
    BY <1>a, GaveUp DEF Recovers
  <2>2. ~ Rendering' /\ SameReceipts(a)
    BY <1>0, <1>a, <2>1, KeepsLive DEF Raise, Rendering, Restoring
  <2>3. \A p \in Targets \ spoiled' : files'[p] = before.files[p]
    BY <1>a, <2>1 DEF RemembersFiles, MayDiffer
  <2> QED
    BY <1>0, <2>2, <2>3 DEF RemembersFiles, SameReceipts
<1>4. ASSUME phase = "applying", Hand = a PROVE ~ Held(a)
  BY <1>4, NothingAhead DEF Recovers
<1>5. CASE ApplyRender
  <2>1. phase = "applying" /\ Hand = a /\ step = "apply" /\ UNCHANGED <<files, receipts, spoiled>>
    BY <1>5 DEF ApplyRender, In, Hand, content
  <2>2. SameReceipts(a)
    BY <1>0, <2>1, KeepsLive
  <2>3. CASE Raise
    BY <1>1, <2>1, <2>2, <2>3 DEF Raise, Rendering, Restoring
  <2>4. CASE Goto("write") /\ items' = << >> /\ previous' = Snapshot
    <3>1. \A p \in Targets : files[p] = before.files[p]
      BY <1>4, <2>1 DEF RemembersFiles, MayDiffer, Rendering, Restoring, UnspoiledInv, Held
    <3>2. files = before.files
      BY <1>0, <3>1
    <3>3. Rendering' /\ previous'.files = before.files
      BY <2>4, <3>2 DEF Goto, Rendering, Snapshot
    <3> QED
      BY <1>0, <2>1, <2>2, <3>2, <3>3 DEF RemembersFiles, SameReceipts
  <2> QED
    BY <1>5, <2>3, <2>4 DEF ApplyRender
<1>6. CASE WriteRendered
  <2>1. /\ phase = "applying" /\ Hand = a /\ Rendering /\ In(a, "write")
        /\ UNCHANGED previous /\ previous.files = before.files
    BY <1>6 DEF WriteRendered, In, Hand, Rendering, RemembersFiles
  <2>2. PICK i \in DOMAIN RenderTargets :
           LET p == RenderTargets[i]
           IN  \/ /\ files' = [files EXCEPT ![p] = "new"] /\ items' = Append(items, p)
                  /\ \/ Changed(items', previous) /\ Advance
                     \/ Goto("write") /\ UNCHANGED receipts
               \/ /\ files' = files \/ (files' = [files EXCEPT ![p] = "new"] /\ p \in spoiled')
                  /\ Goto("compare") /\ UNCHANGED <<items, receipts>>
    BY <1>6 DEF WriteRendered, ToWrite, Spoil
  <2>3. RenderTargets[i] \in Targets
    BY RenderTargetsIn
  <2>4. CASE Goto("write") \/ Goto("compare")
    <3>1. Rendering' /\ UNCHANGED receipts /\ SameReceipts(a)
      BY <1>0, <2>1, <2>2, <2>4, KeepsLive DEF Goto, Rendering, Advance
    <3>2. \A p \in Targets \ spoiled' : p \in ToSet(items') \/ files'[p] = before.files[p]
      <4>1. \A p : p \in ToSet(items) \/ p = RenderTargets[i] => p \in ToSet(Append(items, RenderTargets[i]))
        BY <1>0, <2>3, AppendSet
      <4> QED
        BY <1>0, <2>1, <2>2, <2>3, <2>4, <4>1 DEF RemembersFiles, MayDiffer, Goto, Advance
    <3> QED
      BY <1>0, <2>1, <3>1, <3>2 DEF RemembersFiles, MayDiffer, SameReceipts
  <2>5. CASE /\ files' = [files EXCEPT ![RenderTargets[i]] = "new"]
             /\ items' = Append(items, RenderTargets[i])
             /\ Changed(items', previous) /\ Advance
    <3>1. items' \in Seq(Targets)
      BY <1>0, <2>3, <2>5
    <3>2. Added(a, items', previous) /\ phase' = "applying" /\ ~ Rendering'
      BY <1>0, <2>1, <2>5, <3>1, NewReceipt DEF Advance, Rendering, Restoring
    <3>3. /\ \A k : k \in Live' <=> k \in Live \/ k = Len(receipts) + 1
          /\ \A k \in Live : receipts'[k] = receipts[k]
          /\ receipts'[Len(receipts) + 1] = [action |-> a, items |-> items', previous |-> previous]
      BY <2>1, <3>2, AddsLive
    <3>4. \A p : p \in ToSet(items) \/ p = RenderTargets[i] => p \in ToSet(items')
      BY <1>0, <2>3, <2>5, AppendSet
    <3>5. \A p \in Targets \ spoiled' : p \in ToSet(items') \/ files'[p] = before.files[p]
      BY <1>0, <2>1, <2>3, <2>5, <3>4 DEF RemembersFiles, MayDiffer
    <3>6. \A p \in ToSet(items') : MayDiffer(p)'
      BY <3>2, <3>3 DEF MayDiffer
    <3>7. \A k \in Live' : receipts'[k].action = a => receipts'[k].previous.files = before.files
      BY <2>1, <3>3 DEF RemembersFiles
    <3> QED
      BY <1>0, <3>2, <3>5, <3>6, <3>7 DEF RemembersFiles
  <2> QED
    BY <2>2, <2>4, <2>5
<1>7. CASE CompareRendered \/ StatRendered \/ CheckRendered
  <2>1. /\ Rendering /\ UNCHANGED <<files, items, previous, receipts>>
        /\ \/ GiveUp(ToSet(items))
           \/ step' \in Restoring /\ UNCHANGED <<phase, spoiled>>
           \/ items = << >> /\ Leave /\ UNCHANGED spoiled
    BY <1>7 DEF CompareRendered, StatRendered, CheckRendered, Rendering, Restoring, content,
                history, Goto
  <2>2. CASE step' \in Restoring /\ UNCHANGED <<phase, spoiled>>
    <3>1. Rendering' /\ SameReceipts(a)
      BY <1>0, <2>1, <2>2, KeepsLive DEF Restoring, Rendering
    <3> QED
      BY <1>0, <2>1, <2>2, <3>1 DEF RemembersFiles, MayDiffer, SameReceipts
  <2>3. CASE items = << >> /\ Leave /\ UNCHANGED spoiled
    <3>1. \A p \in Targets \ spoiled : files[p] = before.files[p]
      BY <2>1, <2>3 DEF RemembersFiles, MayDiffer, ToSet
    <3>2. ~ Rendering'
      BY <2>3 DEF Leave, Raise, Undone, Rendering, Restoring
    <3>3. Live' \subseteq Live
      BY <2>1, <2>3 DEF Leave, Raise, Undone, Live, TypeInv, Recovers, Running
    <3> QED
      BY <1>0, <2>1, <2>3, <3>1, <3>2, <3>3 DEF RemembersFiles
  <2> QED
    BY <1>a, <2>1, <2>2, <2>3
<1>8. CASE RestoreRendered
  <2>0. /\ step = "restore" /\ Rendering /\ UNCHANGED <<previous, receipts>>
        /\ Last(items) \in Targets /\ Last(items) \in ToSet(items)
        /\ \A p : p \notin ToSet(Front(items)) /\ p # Last(items) => p \notin ToSet(items)
    BY <1>0, <1>8, LastFront DEF RestoreRendered, PlaceInv, StepsInv, Recovers, Restoring,
                                 Rendering
  <2>1. CASE /\ files' = [files EXCEPT ![Last(items)] = previous.files[Last(items)]]
             /\ items' = Front(items) /\ Goto("compare") /\ UNCHANGED spoiled
    <3>1. Rendering' /\ SameReceipts(a)
      BY <1>0, <2>0, <2>1, KeepsLive DEF Goto, Rendering
    <3>2. previous.files = before.files
      BY <2>0 DEF RemembersFiles
    <3>3. \A p \in Targets \ spoiled : p \in ToSet(items') \/ files'[p] = before.files[p]
      BY <1>0, <2>0, <2>1, <3>2 DEF RemembersFiles, MayDiffer
    <3> QED
      BY <1>0, <2>0, <2>1, <3>1, <3>2, <3>3 DEF RemembersFiles, MayDiffer, SameReceipts
  <2>2. CASE /\ GiveUp(ToSet(items))
             /\ files' \in {files, [files EXCEPT ![Last(items)] = previous.files[Last(items)]]}
    <3>1. \A p \in Targets : p \notin ToSet(items) => files'[p] = files[p]
      BY <1>0, <2>0, <2>2
    <3> QED
      BY <1>a, <2>0, <2>2, <3>1
  <2> QED
    BY <1>8, <2>1, <2>2 DEF RestoreRendered, AtHand
<1>9. CASE UndoRender
  <2>1. /\ phase = "rolling" /\ step = "undo" /\ at > 0 /\ Undo.action = a /\ Goto("compare")
        /\ items' = Undo.items /\ previous' = Undo.previous
        /\ UNCHANGED <<files, receipts, spoiled>>
    BY <1>9 DEF UndoRender, Undoing, content, history
  <2>2. at \in Live /\ ~ Rendering /\ Rendering' /\ SameReceipts(a)
    BY <1>0, <2>1, KeepsLive DEF Goto, Rendering, Restoring, Live, TypeInv
  <2>3. \A i \in Live : receipts[i].action = a => i = at
    BY <2>1, <2>2, LiveReceipts DEF Undo, Recovers
  <2> QED
    BY <1>0, <2>1, <2>2, <2>3 DEF RemembersFiles, MayDiffer, SameReceipts, Undo
<1> QED
  BY <1>0, <1>2, <1>3, <1>5, <1>6, <1>7, <1>8, <1>9, Handlers

\* The rollback finds the Worker's TOML and unit again.
LEMMA StepRemembersAuthority ==
    ASSUME TypeInv, PlaceInv, HandInv, Step, Recovers, Recovers',
           "authority" \notin spoiled', AuthorityRemembered
    PROVE  AuthorityRemembered'
<1> DEFINE a == "reconcile_worker_execution"
<1> USE DEF AuthoritySteps
<1>0. Running' /\ UNCHANGED before /\ reported' = {}
  BY Frames DEF Recovers
<1>1. ASSUME UNCHANGED <<toml, unit>>, loaded' \in {loaded, unit}, SameReceipts(a),
             step \notin AuthoritySteps, step' \notin AuthoritySteps
      PROVE  AuthorityRemembered'
  <2>1. Held(a)' <=> Held(a)
    BY <1>1, SameHeld
  <2> QED
    BY <1>0, <1>1, <2>1 DEF AuthorityRemembered, SameReceipts
<1>2. CASE Hand # a
  BY <1>0, <1>1, <1>2, Frames, OtherReceipts
<1>3. CASE Inspect
  BY <1>1, <1>3, InspectKeeps DEF authority
<1>4. CASE ApplyReconcile
  <2>1. phase = "applying" /\ Hand = a /\ step = "apply" /\ UNCHANGED <<authority, receipts>>
    BY <1>4 DEF ApplyReconcile, In, Hand
  <2>2. SameReceipts(a)
    BY <1>0, <2>1, KeepsLive
  <2>3. CASE Advance \/ Raise
    BY <1>1, <2>1, <2>2, <2>3 DEF Advance, Raise, authority
  <2>4. CASE Goto("toml") /\ previous' = Snapshot
    <3>1. ~ Held(a)
      BY <2>1, NothingAhead DEF Recovers
    <3>2. previous'.toml = toml /\ previous'.unit = unit
      BY <2>4 DEF Snapshot
    <3> QED
      BY <1>0, <2>1, <2>2, <2>4, <3>1, <3>2 DEF AuthorityRemembered, SameReceipts, Goto, authority
  <2> QED
    BY <1>4, <2>3, <2>4 DEF ApplyReconcile
<1>5. CASE ReconcileToml \/ ReconcileUnit
  <2>1. /\ phase = "applying" /\ phase' = "applying" /\ step \in {"toml", "unit"}
        /\ step' \in {"unit", "reload", "undo_toml"}
        /\ UNCHANGED <<receipts, previous>>
        /\ toml' \in {toml, IF previous.toml = "runtime" THEN toml ELSE "runtime"}
    BY <1>5 DEF ReconcileToml, ReconcileUnit, In, Goto, memory
  <2>2. SameReceipts(a)
    BY <1>0, <2>1, KeepsLive
  <2> QED
    BY <1>0, <2>1, <2>2 DEF AuthorityRemembered, SameReceipts
<1>6. CASE ReconcileReload
  <2>1. /\ phase = "applying" /\ phase' = "applying" /\ step = "reload" /\ In(a, "reload")
        /\ UNCHANGED <<toml, unit, previous>>
        /\ \/ Changed(<< >>, previous) /\ step' = "inspect"
           \/ UNCHANGED receipts /\ step' = "undo_toml"
    BY <1>6 DEF ReconcileReload, In, Goto, Advance
  <2>2. CASE UNCHANGED receipts /\ step' = "undo_toml"
    <3>1. SameReceipts(a)
      BY <1>0, <2>1, <2>2, KeepsLive
    <3> QED
      BY <1>0, <2>1, <2>2, <3>1 DEF AuthorityRemembered, SameReceipts
  <2>3. CASE Changed(<< >>, previous) /\ step' = "inspect"
    <3>1. Added(a, << >>, previous)
      <4>1. << >> \in Seq(Targets) /\ previous \in Hosts
        BY DEF TypeInv
      <4> QED
        BY <2>1, <2>3, <4>1, NewReceipt
    <3>2. /\ \A i : i \in Live' <=> i \in Live \/ i = Len(receipts) + 1
          /\ \A i \in Live : receipts'[i] = receipts[i]
          /\ receipts'[Len(receipts) + 1] =
                [action |-> a, items |-> << >>, previous |-> previous]
      BY <2>1, <3>1, AddsLive
    <3>3. Held(a)'
      BY <3>2 DEF Held
    <3> QED
      BY <1>0, <2>1, <2>3, <3>2, <3>3 DEF AuthorityRemembered
  <2> QED
    BY <2>1, <2>2, <2>3
<1>7. CASE UndoToml \/ UndoUnit
  <2>1. /\ Running /\ UNCHANGED <<phase, receipts, previous>>
        /\ \/ /\ step = "undo_toml" /\ step' = "undo_unit" /\ UNCHANGED unit
              /\ toml' = IF phase = "applying" /\ previous.toml = "runtime"
                         THEN toml ELSE previous.toml
           \/ /\ step = "undo_unit" /\ step' = "undo_reload" /\ UNCHANGED toml
              /\ unit' = previous.unit
    BY <1>0, <1>7, GaveUp DEF UndoToml, UndoUnit, GiveUpUndoing, Goto
  <2>2. SameReceipts(a)
    BY <1>0, <2>1, KeepsLive
  <2> QED
    BY <1>0, <2>1, <2>2 DEF AuthorityRemembered, SameReceipts
<1>8. CASE UndoReload
  <2>1. /\ step = "undo_reload" /\ UNCHANGED <<toml, unit, receipts>> /\ loaded' = unit
        /\ Leave
    BY <1>0, <1>8, GaveUp DEF UndoReload, GiveUpUndoing
  <2>2. step' = "undo" /\ Live' \subseteq Live
    BY <2>1 DEF Leave, Raise, Undone, Live, TypeInv, Recovers, Running
  <2> QED
    BY <1>0, <2>1, <2>2 DEF AuthorityRemembered
<1>9. CASE UndoReconcile
  <2>1. /\ phase = "rolling" /\ phase' = "rolling" /\ at > 0 /\ Undo.action = a
        /\ step' = "undo_toml" /\ previous' = Undo.previous /\ UNCHANGED receipts
    BY <1>0, <1>9 DEF UndoReconcile, Undoing, Goto, Report
  <2>2. at \in Live /\ SameReceipts(a)
    BY <1>0, <2>1, KeepsLive DEF Live, TypeInv
  <2>3. Held(a)'
    BY <2>1, <2>2, SameHeld DEF Held, Undo
  <2> QED
    BY <1>0, <2>1, <2>2, <2>3 DEF AuthorityRemembered, SameReceipts, Undo
<1> QED
  BY <1>0, <1>2, <1>3, <1>4, <1>5, <1>6, <1>7, <1>8, <1>9, Handlers

\* The Worker stays safe to restart, unless its reconciliation could not be cleaned up.
LEMMA StepRemembersSafety ==
    ASSUME TypeInv, PlaceInv, HandInv, Step, Recovers, Recovers', RemembersSafety
    PROVE  RemembersSafety'
<1>0. Running' /\ UNCHANGED before /\ reported' = {} /\ spoiled \subseteq spoiled'
  BY Frames DEF Recovers
<1>1. ASSUME UNCHANGED restart_safe, step \notin AuthoritySteps PROVE RemembersSafety'
  BY <1>0, <1>1 DEF RemembersSafety
<1>2. CASE Inspect
  BY <1>1, <1>2, InspectKeeps DEF Inspect, memory, AuthoritySteps
<1>3. CASE Hand # "reconcile_worker_execution"
  <2>1. UNCHANGED restart_safe
    BY <1>0, <1>3 DEF Step, Inspect, Finish, ApplyPrerequisite, ApplyBridge, ApplyRender,
      WriteRendered, CompareRendered, StatRendered, CheckRendered, RestoreRendered,
      ApplyWorkerStop, ApplyReconcile, ReconcileToml, ReconcileUnit, ReconcileReload, UndoToml,
      UndoUnit, UndoReload, ApplyCheck, ApplyStart, StartRuntime, ApplyHealth, ApplyStop,
      UndoBridge, UndoRender, UndoReconcile, UndoWorkerStop, UndoStart, UndoStop, In, Undoing,
      Hand, HandInv, AuthoritySteps, memory
  <2> QED
    BY <1>0, <1>1, <1>3, <2>1, Frames
<1>4. CASE ApplyReconcile \/ ReconcileToml \/ ReconcileUnit \/ ReconcileReload
  <2>1. \/ step' \in AuthoritySteps \/ restart_safe' = TRUE
        \/ UNCHANGED restart_safe /\ step = "apply"
    BY <1>4 DEF ApplyReconcile, ReconcileToml, ReconcileUnit, ReconcileReload, In, Goto,
                AuthoritySteps
  <2> QED
    BY <1>0, <1>1, <2>1 DEF RemembersSafety, AuthoritySteps
<1>5. CASE UndoToml \/ UndoUnit \/ UndoReload
  <2>1. step' \in AuthoritySteps \/ restart_safe' = TRUE \/ GiveUp({"authority"})
    BY <1>5 DEF UndoToml, UndoUnit, UndoReload, GiveUpUndoing, Goto, AuthoritySteps
  <2>2. GiveUp({"authority"}) => "authority" \in spoiled'
    BY <1>0, GaveUp
  <2> QED
    BY <1>0, <2>1, <2>2 DEF RemembersSafety
<1>6. CASE UndoReconcile
  <2>1. step' \in AuthoritySteps
    BY <1>0, <1>6 DEF UndoReconcile, Report, Goto, AuthoritySteps
  <2> QED
    BY <1>0, <2>1 DEF RemembersSafety
<1> QED
  BY <1>0, <1>2, <1>3, <1>4, <1>5, <1>6, Handlers

\* Only a release stops the runtime.
LEMMA ReleaseStops ==
    ASSUME wish \in Wish, Planned("runtime_stop")
    PROVE  wish.goal = "release"
<1>1. wish.goal \in {"activate", "release"}
  BY DEF Wish
<1>2. wish.goal = "activate" => ~ Planned("runtime_stop")
  <2>1. Ordered(build_runtime_setup_plan(wish), 1, 13)
    BY SetupOrder
  <2> QED
    BY <2>1, Ranks DEF Planned, Plan, PlanOf, Ordered
<1> QED
  BY <1>1, <1>2

\* The rollback starts a Worker that was running, and stops one that was not.
LEMMA StepRemembersService ==
    ASSUME TypeInv, PlaceInv, HandInv, StartsInv, AuthorityInv, Step, Recovers, Recovers',
           UnspoiledInv, RemembersAuthority, RemembersSafety, RemembersService
    PROVE  RemembersService'
<1> DEFINE W == Held("worker_stop")
           S == Held("runtime_start")
           R == Held("runtime_stop")
           C == Held("reconcile_worker_execution")
<1>0. /\ Running' /\ UNCHANGED before /\ reported' = {} /\ spoiled \subseteq spoiled'
      /\ ~ disturbed /\ before.active \in BOOLEAN /\ UNCHANGED wish
      /\ phase = "rolling" => phase' = "rolling"
  BY Frames, StepWalks DEF Recovers, Running, TypeInv, Hosts, Walk, Advance, Raise, Goto, Undone
<1>a. LeftStopped /\ svc' # "active" => LeftStopped'
  BY <1>0 DEF LeftStopped
<1>1. ASSUME "service" \in spoiled' \/ (svc' = "active" <=> svc = "active"),
             W' <=> W, S' <=> S, R' <=> R, C' <=> C
      PROVE  RemembersService'
  BY <1>0, <1>a, <1>1 DEF RemembersService, LeftStopped
<1>2. ASSUME "service" \in spoiled' \/ (svc' = "active" <=> svc = "active"),
             \A a : SameReceipts(a)
      PROVE  RemembersService'
  <2>1. (W' <=> W) /\ (S' <=> S) /\ (R' <=> R) /\ (C' <=> C)
    BY <1>2, SameHeld
  <2> QED
    BY <1>1, <1>2, <2>1
<1>3. CASE Hand \notin {"worker_stop", "reconcile_worker_execution", "runtime_start",
                        "runtime_stop", "runtime_release"}
  <2>1. /\ SameReceipts("worker_stop") /\ SameReceipts("reconcile_worker_execution")
        /\ SameReceipts("runtime_start") /\ SameReceipts("runtime_stop")
    BY <1>0, <1>3, OtherReceipts
  <2>2. (W' <=> W) /\ (S' <=> S) /\ (R' <=> R) /\ (C' <=> C)
    BY <2>1, SameHeld
  <2>3. UNCHANGED svc
    BY <1>0, <1>3, Frames DEF service
  <2> QED
    BY <1>1, <2>2, <2>3
<1>4. CASE Inspect
  BY <1>2, <1>4, InspectKeeps
<1>5. /\ phase = "rolling" => at > 0
      /\ \A a : Rank(a) > Rank(Hand) \/ (phase = "applying" /\ a = Hand) => ~ Held(a)
  <2>1. phase = "rolling" => at > 0
    BY <1>0, HandsFull
  <2> QED
    BY <2>1, NothingAhead DEF Recovers
<1>6. ASSUME NEW a, In(a, step), Changed(<< >>, Snapshot) \/ Changed(<< >>, previous),
             phase' = "applying"
      PROVE  \A b : Held(b)' <=> Held(b) \/ b = a
  <2>1. << >> \in Seq(Targets) /\ Snapshot \in Hosts /\ previous \in Hosts
    BY SnapshotType DEF TypeInv
  <2>2. Added(a, << >>, Snapshot) \/ Added(a, << >>, previous)
    BY <1>6, <2>1, NewReceipt
  <2> QED
    BY <1>6, <2>2, AddsLive DEF In
<1>7. CASE ApplyWorkerStop
  <2>1. /\ phase = "applying" /\ In("worker_stop", step) /\ Hand = "worker_stop"
        /\ \/ UNCHANGED <<svc, receipts>>
           \/ /\ svc = "active" /\ svc' # "active"
              /\ \/ Changed(<< >>, Snapshot) /\ phase' = "applying"
                 \/ UNCHANGED receipts /\ "service" \in spoiled'
    BY <1>7 DEF ApplyWorkerStop, InspectWorkerStop, Needed, StopService, Spoil, In, Hand, Advance,
                service
  <2>2. CASE UNCHANGED receipts
    BY <1>0, <1>2, <2>1, <2>2, KeepsLive, ChangedFacts DEF Changed, TypeInv
  <2>3. CASE svc = "active" /\ svc' # "active" /\ Changed(<< >>, Snapshot) /\ phase' = "applying"
    <3>1. ~ W /\ ~ S /\ ~ R /\ ~ C
      BY <1>5, <2>1, Ranks
    <3>2. W' /\ ~ S' /\ ~ R' /\ ~ C'
      BY <1>6, <2>1, <2>3, <3>1
    <3> QED
      BY <1>0, <2>3, <3>1, <3>2 DEF RemembersService
  <2> QED
    BY <2>1, <2>2, <2>3
<1>8. CASE UndoWorkerStop
  <2>1. /\ phase = "rolling" /\ at > 0 /\ Undo.action = "worker_stop" /\ Hand = "worker_stop"
        /\ step = "undo" /\ Undone /\ UNCHANGED <<receipts, restart_safe, authority>>
        /\ svc' = "active" \/ (UNCHANGED svc /\ ~ (restart_safe /\ Contract = "smoke"))
    BY <1>0, <1>8 DEF UndoWorkerStop, Undoing, Hand, Report, StartService, service
  <2>2. ~ S /\ ~ R /\ ~ C
    BY <1>5, <2>1, Ranks
  <2>3. ~ W' /\ ~ S' /\ ~ R' /\ ~ C'
    BY <2>1, <2>2, DropsLive
  <2>4. W
    BY <2>1 DEF Held, Live, Undo, TypeInv
  <2>5. CASE svc' = "active"
    BY <1>0, <2>3, <2>4, <2>5 DEF RemembersService
  <2>6. CASE UNCHANGED svc /\ ~ (restart_safe /\ Contract = "smoke")
    <3>1. before.unit # "smoke" \/ "authority" \in spoiled
      <4>1. step \notin AuthoritySteps
        BY <2>1 DEF AuthoritySteps
      <4>2. CASE ~ restart_safe
        BY <4>1, <4>2 DEF RemembersSafety
      <4>3. CASE Contract # "smoke" /\ "authority" \notin spoiled
        <5>1. toml = before.toml /\ unit = before.unit
          BY <2>2, <4>1, <4>3 DEF RemembersAuthority, AuthorityRemembered
        <5> QED
          BY <4>3, <5>1 DEF RemembersSafety, Fit, Contract, UnitMode
      <4> QED
        BY <2>6, <4>2, <4>3
    <3>2. svc # "active" => LeftStopped
      BY <3>1 DEF LeftStopped
    <3>3. "service" \notin spoiled => svc # "active"
      BY <2>2, <2>4 DEF RemembersService
    <3> QED
      BY <1>0, <1>a, <2>1, <2>3, <2>6, <3>2, <3>3 DEF RemembersService
  <2> QED
    BY <2>1, <2>5, <2>6
<1>9. CASE ApplyReconcile \/ ReconcileToml \/ ReconcileUnit
  <2>1. UNCHANGED <<svc, receipts>> /\ phase = "applying"
    BY <1>9 DEF ApplyReconcile, ReconcileToml, ReconcileUnit, In, service, memory
  <2> QED
    BY <1>0, <1>2, <2>1, KeepsLive
<1>10. CASE ReconcileReload
  <2>1. /\ UNCHANGED svc /\ phase = "applying" /\ phase' = "applying" /\ step = "reload"
        /\ In("reconcile_worker_execution", step) /\ Hand = "reconcile_worker_execution"
        /\ UNCHANGED receipts \/ Changed(<< >>, previous)
    BY <1>10 DEF ReconcileReload, In, Hand, service, Advance, Goto
  <2>2. CASE UNCHANGED receipts
    BY <1>0, <1>2, <2>1, <2>2, KeepsLive
  <2>3. CASE Changed(<< >>, previous)
    <3>1. svc # "active"
      BY <1>0, <2>1 DEF AuthorityInv, AuthoritySteps, Running
    <3>2. ~ S /\ ~ R
      BY <1>5, <2>1, Ranks
    <3>3. (W' <=> W) /\ ~ S' /\ ~ R'
      BY <1>6, <2>1, <2>3, <3>2
    <3> QED
      BY <1>0, <2>1, <3>1, <3>2, <3>3 DEF RemembersService
  <2> QED
    BY <2>1, <2>2, <2>3
<1>11. CASE UndoToml \/ UndoUnit \/ UndoReload
  <2>1. /\ UNCHANGED <<svc, receipts>> /\ Running /\ Hand = "reconcile_worker_execution"
        /\ step # "undo" /\ (Leave \/ step' # "undo")
    BY <1>11 DEF UndoToml, UndoUnit, UndoReload, GiveUp, GiveUpUndoing, HandInv, AuthoritySteps,
                 Goto,
                 service
  <2>2. CASE phase = "applying" \/ step' # "undo"
    BY <1>0, <1>2, <2>1, <2>2, KeepsLive
  <2>3. CASE phase = "rolling" /\ step' = "undo"
    <3>1. at > 0 /\ Undone /\ Undo.action = "reconcile_worker_execution"
      BY <1>5, <2>1, <2>3 DEF Leave, Hand
    <3>2. (W' <=> W) /\ (S' <=> S) /\ (R' <=> R) /\ (C' => C)
      BY <2>1, <2>3, <3>1, DropsLive
    <3> QED
      BY <1>0, <1>a, <2>1, <3>2 DEF RemembersService, LeftStopped
  <2> QED
    BY <2>1, <2>2, <2>3 DEF Running
<1>12. CASE UndoReconcile
  <2>1. /\ phase = "rolling" /\ at > 0 /\ Undo.action = "reconcile_worker_execution"
        /\ Hand = "reconcile_worker_execution" /\ UNCHANGED receipts /\ step' = "undo_toml"
        /\ svc' # "active"
    BY <1>0, <1>12 DEF UndoReconcile, Undoing, Hand, Goto, Report, StopService, service
  <2>2. ~ S /\ ~ R
    BY <1>5, <2>1, Ranks
  <2>3. C
    BY <2>1 DEF Held, Live, Undo, TypeInv
  <2>4. \A a : SameReceipts(a)
    BY <1>0, <2>1, KeepsLive
  <2>5. (W' <=> W) /\ (S' <=> S) /\ (R' <=> R) /\ (C' <=> C)
    BY <2>4, SameHeld
  <2> QED
    BY <1>0, <2>1, <2>2, <2>3, <2>5 DEF RemembersService
<1>13. CASE ApplyStart
  <2>1. UNCHANGED <<svc, receipts>> /\ phase = "applying"
    BY <1>13 DEF ApplyStart, In, service, memory
  <2> QED
    BY <1>0, <1>2, <2>1, KeepsLive
<1>14. CASE StartRuntime
  <2>1. /\ phase = "applying" /\ In("runtime_start", step) /\ Hand = "runtime_start"
        /\ step = "start" /\ at <= Len(Plan) /\ Act = "runtime_start"
        /\ \/ UNCHANGED receipts /\ "service" \in spoiled'
           \/ Changed(<< >>, Snapshot) /\ phase' = "applying" /\ svc' = "active"
    BY <1>14 DEF StartRuntime, In, Hand, Advance, Spoil, StartService, service
  <2>2. CASE UNCHANGED receipts /\ "service" \in spoiled'
    BY <1>0, <1>2, <2>1, <2>2, KeepsLive
  <2>3. CASE Changed(<< >>, Snapshot) /\ phase' = "applying" /\ svc' = "active"
    <3>1. ~ S /\ ~ R
      BY <1>5, <2>1, Ranks
    <3>2. (W' <=> W) /\ S' /\ ~ R' /\ (C' <=> C)
      BY <1>6, <2>1, <2>3, <3>1
    <3>3. svc # "active"
      BY <1>0, <2>1 DEF StartsInv
    <3> QED
      BY <1>0, <2>1, <3>1, <3>2, <3>3 DEF RemembersService
  <2> QED
    BY <2>1, <2>2, <2>3
<1>15. CASE UndoStart
  <2>1. /\ phase = "rolling" /\ at > 0 /\ Undo.action = "runtime_start" /\ Hand = "runtime_start"
        /\ Undone /\ UNCHANGED receipts /\ svc' # "active"
    BY <1>0, <1>15 DEF UndoStart, Undoing, Hand, Report, StopService
  <2>2. ~ R
    BY <1>5, <2>1, Ranks
  <2>3. (W' <=> W) /\ ~ S' /\ ~ R' /\ (C' <=> C)
    BY <2>1, <2>2, DropsLive
  <2>4. S
    BY <2>1 DEF Held, Live, Undo, TypeInv
  <2> QED
    BY <1>0, <2>1, <2>3, <2>4 DEF RemembersService
<1>16. CASE ApplyStop("runtime_stop")
  <2>0. wish.goal = "release"
    <3>1. Planned("runtime_stop")
      BY <1>16, PlanIsSeq DEF ApplyStop, In, Act, Planned, TypeInv, PlaceInv, WalkInv
    <3> QED
      BY <3>1, ReleaseStops DEF TypeInv
  <2>1. /\ phase = "applying" /\ In("runtime_stop", step)
        /\ \/ UNCHANGED <<svc, receipts>>
           \/ /\ svc = "active" /\ svc' # "active"
              /\ \/ Changed(<< >>, Snapshot) /\ phase' = "applying"
                 \/ UNCHANGED receipts /\ "service" \in spoiled'
    BY <1>16 DEF ApplyStop, StopService, Spoil, In, Advance, service, Reversible
  <2>2. CASE UNCHANGED <<svc, receipts>>
    BY <1>0, <1>2, <2>1, <2>2, KeepsLive
  <2>3. CASE UNCHANGED receipts /\ "service" \in spoiled'
    BY <1>0, <1>2, <2>1, <2>3, KeepsLive
  <2>4. CASE svc = "active" /\ svc' # "active" /\ Changed(<< >>, Snapshot) /\ phase' = "applying"
    <3>1. (W' <=> W) /\ (S' <=> S) /\ R' /\ (C' <=> C)
      BY <1>6, <2>1, <2>4
    <3> QED
      BY <1>0, <2>0, <2>4, <3>1 DEF RemembersService
  <2> QED
    BY <2>1, <2>2, <2>3, <2>4
<1>17. CASE ApplyStop("runtime_release")
  <2>1. /\ phase = "applying" /\ UNCHANGED receipts /\ Act = "runtime_release"
        /\ at <= Len(Plan) /\ UNCHANGED wish
        /\ UNCHANGED svc \/ "service" \in spoiled' \/ Advance
    BY <1>17 DEF ApplyStop, StopService, Spoil, In, service, Reversible, fixed
  <2>2. ~ Advance
    <3>1. at \in 1 .. Len(Plan) /\ Len(Plan) \in Nat /\ Plan' = Plan /\ wish \in Wish
      BY <2>1, PlanIsSeq DEF TypeInv, PlaceInv, WalkInv, Plan
    <3>2. at + 1 \in 1 .. Len(Plan) => Rank(Plan[at + 1]) < 15 /\ Rank(Plan[at]) < Rank(Plan[at + 1])
      BY <3>1, PlanOrder DEF Ordered
    <3>3. at + 1 \notin 1 .. Len(Plan)
      <4>1. Rank(Plan[at]) = 14 /\ Rank(Plan[at + 1]) \in Nat
        BY <2>1, Ranks, RankNat DEF Act
      <4> QED
        BY <3>2, <4>1
    <3> QED
      BY <2>1, <3>1, <3>3 DEF Advance, Recovers
  <2> QED
    BY <1>0, <1>2, <2>1, <2>2, KeepsLive
<1>18. CASE UndoStop
  <2>1. /\ phase = "rolling" /\ at > 0 /\ Undo.action = "runtime_stop" /\ Undone
        /\ UNCHANGED <<receipts, svc>>
    BY <1>18 DEF UndoStop, Undoing, memory, service
  <2>2. (W' <=> W) /\ (S' <=> S) /\ ~ R' /\ (C' <=> C)
    BY <2>1, DropsLive
  <2>3. R
    BY <2>1 DEF Held, Live, Undo, TypeInv
  <2>4. "service" \notin spoiled => LeftStopped
    BY <2>3 DEF RemembersService, LeftStopped
  <2> QED
    BY <1>0, <1>a, <2>1, <2>2, <2>4 DEF RemembersService, LeftStopped
<1> QED
  BY <1>0, <1>3, <1>4, <1>7, <1>8, <1>9, <1>10, <1>11, <1>12, <1>13, <1>14, <1>15, <1>16, <1>17,
     <1>18, Handlers

\* Until the apply raises nothing is spoiled.
LEMMA StepKeepsUnspoiled ==
    ASSUME HandInv, Step, Recovers, Recovers', UnspoiledInv
    PROVE  UnspoiledInv'
<1> USE DEF UnspoiledInv, Restoring, GiveUp, Advance, Raise, Goto, Undone, history
<1>0. phase' = "applying" => phase = "applying"
  BY DEF Step, Inspect, Finish, ApplyPrerequisite, ApplyBridge, ApplyRender, WriteRendered,
      CompareRendered, StatRendered, CheckRendered, RestoreRendered, ApplyWorkerStop,
      ApplyReconcile, ReconcileToml,
      ReconcileUnit, ReconcileReload, UndoToml, UndoUnit, UndoReload, ApplyCheck, ApplyStart,
      StartRuntime, ApplyHealth, ApplyStop, UndoBridge, UndoRender, UndoReconcile,
      UndoWorkerStop, UndoStart, UndoStop, In, Undoing, Leave, GiveUp, GiveUpUndoing
<1>1. CASE WriteRendered
  <2>1. PICK i \in DOMAIN RenderTargets :
           \/ UNCHANGED spoiled
           \/ step' = "compare" /\ spoiled' \in {spoiled, spoiled \cup {RenderTargets[i]}}
    BY <1>1 DEF WriteRendered, ToWrite, Spoil
  <2>2. RenderTargets[i] \notin {"link", "service", "authority"}
    BY RenderTargetsIn DEF Targets
  <2>3. step = "write"
    BY <1>1 DEF WriteRendered, In
  <2> QED
    BY <1>0, <2>1, <2>2, <2>3
<1>2. CASE CompareRendered \/ StatRendered \/ CheckRendered \/ RestoreRendered
  BY <1>0, <1>2 DEF CompareRendered, StatRendered, CheckRendered, RestoreRendered, Leave
<1>3. CASE /\ ~ WriteRendered /\ ~ CompareRendered /\ ~ StatRendered /\ ~ CheckRendered
           /\ ~ RestoreRendered
  <2>1. phase' = "applying" => UNCHANGED spoiled /\ step \notin {"compare"} \cup Restoring
    BY <1>3 DEF Step, Inspect, Finish, ApplyPrerequisite, ApplyBridge, ApplyRender,
      ApplyWorkerStop, ApplyReconcile, ReconcileToml,
      ReconcileUnit, ReconcileReload, UndoToml, UndoUnit, UndoReload, ApplyCheck, ApplyStart,
      StartRuntime, ApplyHealth, ApplyStop, UndoBridge, UndoRender, UndoReconcile,
      UndoWorkerStop, UndoStart, UndoStop, In, Undoing, Leave, GiveUp, GiveUpUndoing
  <2> QED
    BY <1>0, <2>1
<1> QED
  BY <1>1, <1>2, <1>3

\* The Worker is found stopped before it is started.
LEMMA StepKeepsStarts ==
    ASSUME TypeInv, PlaceInv, HandInv, StartsInv, Step
    PROVE  StartsInv'
<1> USE DEF StartsInv, Goto, Advance, Raise, Undone
<1> SUFFICES ASSUME ~ disturbed', phase' = "applying", at' <= Len(Plan'),
                    step' \in {"apply", "start"}, Act' = "runtime_start"
             PROVE  svc' # "active"
  OBVIOUS
<1>0. Running' /\ ~ disturbed /\ UNCHANGED wish
  BY Frames, StepWalks DEF Running, Walk
<1>1. Inspect \/ ApplyStart
  BY DEF Step, Inspect, Finish, ApplyPrerequisite, ApplyBridge, ApplyRender, WriteRendered,
      CompareRendered, StatRendered, CheckRendered, RestoreRendered, ApplyWorkerStop,
      ApplyReconcile, ReconcileToml,
      ReconcileUnit, ReconcileReload, UndoToml, UndoUnit, UndoReload, ApplyCheck, ApplyStart,
      StartRuntime, ApplyHealth, ApplyStop, UndoBridge, UndoRender, UndoReconcile,
      UndoWorkerStop, UndoStart, UndoStop, In, Undoing, Leave, GiveUp, GiveUpUndoing
<1>2. CASE Inspect
  <2>1. Inspection("runtime_start") = Needed(svc # "active")
    BY DEF Inspection, Directories
  <2>2. Inspection(Act) = "needs_apply" /\ Act' = Act /\ UNCHANGED svc
    BY <1>0, <1>2 DEF Inspect, Act, Plan, service
  <2> QED
    BY <2>1, <2>2 DEF Needed
<1>3. CASE ApplyStart
  BY <1>0, <1>3 DEF ApplyStart, In, service
<1> QED
  BY <1>1, <1>2, <1>3

\* A rollback that has come to its end without reporting anything has restored the host.
LEMMA RestoredAtEnd ==
    ASSUME TypeInv, PlaceInv, RollbackInv, Finish
    PROVE  RollbackRestores'
<1> USE DEF authority, content, service, memory, fixed, history
<1> SUFFICES ASSUME phase' = "failed", ~ disturbed', reported' = {}
             PROVE  RollbackRestores'
  BY DEF RollbackRestores
<1>1. phase = "rolling" /\ step = "undo" /\ at = 0 /\ Recovers
  BY DEF Finish, Recovers, Running
<1>2. Live = {}
  BY <1>1 DEF Live
<1>3. \A a : ~ Held(a)
  BY <1>2 DEF Held
<1>4. RemembersAuthority /\ RemembersBridge /\ RemembersFiles /\ RemembersService
  BY <1>1 DEF RollbackInv
<1>5. /\ \/ "authority" \in spoiled
         \/ /\ toml = before.toml /\ unit = before.unit
            /\ loaded \in {before.loaded, before.unit}
      /\ "link" \in spoiled \/ link = before.link
  BY <1>1, <1>3, <1>4 DEF RemembersAuthority, AuthorityRemembered, RemembersBridge,
                          AuthoritySteps
<1>6. \A p \in Targets \ spoiled : files[p] = before.files[p]
  BY <1>1, <1>2, <1>4 DEF RemembersFiles, MayDiffer, Rendering, Restoring
<1>7. "service" \in spoiled \/ (svc = "active") = before.active \/ LeftStopped
  <2>1. before.active \in BOOLEAN
    BY DEF TypeInv, Hosts
  <2> QED
    BY <1>3, <1>4, <2>1 DEF RemembersService
<1>8. UNCHANGED <<toml, unit, loaded, files, link, svc, before, spoiled, wish>>
  BY DEF Finish
<1> QED
  BY <1>5, <1>6, <1>7, <1>8 DEF RollbackRestores, LeftStopped

\* A begun apply remembers the host it begins on.
LEMMA BeginRemembers ==
    ASSUME IInv', NEW granted, Begin(granted)
    PROVE  HandInv' /\ StartsInv' /\ RollbackInv'
<1> USE DEF Begin, authority, content, service
<1>1. Live' = {} /\ \A a : ~ Held(a)'
  <2>1. Live' = {}
    BY DEF Live
  <2> QED
    BY <2>1 DEF Held
<1>2. /\ before'.toml = toml /\ before'.unit = unit /\ before'.loaded = loaded
      /\ before'.files = files /\ before'.link = link /\ before'.active = (svc = "active")
  BY DEF Snapshot
<1>3. HandInv' /\ StartsInv'
  BY DEF HandInv, StartsInv, AuthoritySteps, Restoring
<1>4. RemembersAuthority' /\ RemembersBridge'
  BY <1>1, <1>2 DEF RemembersAuthority, AuthorityRemembered, RemembersBridge, AuthoritySteps
<1>5. RemembersFiles'
  BY <1>1, <1>2 DEF RemembersFiles, Rendering, Restoring
<1>8. Recovers' => RemembersSafety'
  BY <1>2 DEF IInv, AuthorityInv, AuthoritySteps, Recovers, RemembersSafety
<1>6. RemembersService'
  BY <1>1, <1>2 DEF RemembersService
<1>7. UnspoiledInv' /\ RollbackRestores'
  BY DEF UnspoiledInv, RollbackRestores
<1> QED
  BY <1>3, <1>4, <1>5, <1>6, <1>7, <1>8 DEF RollbackInv

\* What the rollback rests on, as an invariant.
RInv == IInv /\ HandInv /\ StartsInv /\ RollbackInv

\* Every step of the apply keeps it.
LEMMA StepKeepsRollback ==
    ASSUME RInv, Step
    PROVE  RInv'
<1> USE DEF RInv
<1>1. IInv' /\ TypeInv /\ PlaceInv /\ AuthorityInv
  BY NextKeeps DEF Next, IInv
<1>2. HandInv' /\ StartsInv'
  BY <1>1, StepKeepsHand, StepKeepsStarts
<1>3. ASSUME Recovers'
      PROVE  /\ RemembersAuthority' /\ RemembersSafety' /\ RemembersBridge'
             /\ RemembersFiles' /\ RemembersService' /\ UnspoiledInv'
  <2>1. Recovers
    BY <1>1, <1>3, RecoversBefore
  <2>2. /\ RemembersAuthority /\ RemembersSafety /\ RemembersBridge /\ RemembersFiles
        /\ RemembersService /\ UnspoiledInv
    BY <2>1 DEF RollbackInv
  <2>3. RemembersAuthority'
    <3> SUFFICES ASSUME "authority" \notin spoiled' PROVE AuthorityRemembered'
      BY DEF RemembersAuthority
    <3>1. "authority" \notin spoiled
      BY <1>3, Frames DEF Recovers
    <3> QED
      BY <1>1, <1>3, <2>1, <2>2, <3>1, StepRemembersAuthority DEF RemembersAuthority
  <2> QED
    BY <1>1, <1>3, <2>1, <2>2, <2>3, StepRemembersSafety, StepRemembersBridge,
       StepRemembersFiles, StepRemembersService, StepKeepsUnspoiled
<1>4. RollbackRestores'
  <2>1. CASE Finish
    BY <1>1, <2>1, RestoredAtEnd
  <2>2. CASE ~ Finish
    <3>1. phase' \in {"applying", "rolling"}
      BY <2>2 DEF Step, Inspect, ApplyPrerequisite, ApplyBridge, ApplyRender, WriteRendered,
      CompareRendered, StatRendered, CheckRendered, RestoreRendered, ApplyWorkerStop,
      ApplyReconcile, ReconcileToml,
      ReconcileUnit, ReconcileReload, UndoToml, UndoUnit, UndoReload, ApplyCheck, ApplyStart,
      StartRuntime, ApplyHealth, ApplyStop, UndoBridge, UndoRender, UndoReconcile,
      UndoWorkerStop, UndoStart, UndoStop, In, Undoing, Leave, GiveUp, GiveUpUndoing, Running,
      Advance, Raise, Goto, Undone
    <3> QED
      BY <3>1 DEF RollbackRestores
  <2> QED
    BY <2>1, <2>2
<1> QED
  BY <1>1, <1>2, <1>3, <1>4 DEF RollbackInv

\* What happens around the setup keeps it.
LEMMA OutsideKeepsRollback ==
    ASSUME RInv, Outside
    PROVE  RInv'
<1> USE DEF RInv
<1>1. IInv'
  BY NextKeeps DEF Next, Outside
<1>2. /\ UNCHANGED <<wish, receipts, items, previous, before, spoiled, reported, restart_safe>>
      /\ UNCHANGED <<phase, at, step>> \/ (phase' = "idle")
      /\ disturbed' \/ UNCHANGED <<toml, unit, loaded, files, link, svc, disturbed>>
  BY DEF Outside, Kill, WorkerReady, WorkerFails, AutoRestart, EditRendered, EditBridge,
         EditToml, authority, content, service, place, memory, fixed, history
<1>3. Plan' = Plan
  BY <1>2 DEF Plan
<1>4. CASE phase' = "idle"
  BY <1>1, <1>4 DEF HandInv, StartsInv, RollbackInv, Recovers, RollbackRestores, Running
<1>5. CASE UNCHANGED <<phase, at, step>>
  <2>1. HandInv'
    BY <1>2, <1>3, <1>5 DEF HandInv, Hand, Act, Undo, Running
  <2>2. StartsInv'
    BY <1>2, <1>3, <1>5 DEF StartsInv, Act
  <2>3. CASE disturbed'
    BY <1>1, <2>1, <2>2, <2>3 DEF RollbackInv, Recovers, RollbackRestores
  <2>4. CASE ~ disturbed'
    <3>1. UNCHANGED <<toml, unit, loaded, files, link, svc, disturbed>>
      BY <1>2, <2>4
    <3>2. Live' = Live
      BY <1>2, <1>5 DEF Live
    <3>3. (RemembersAuthority <=> RemembersAuthority') /\ (RemembersBridge <=> RemembersBridge')
      BY <1>2, <1>5, <3>1, <3>2 DEF RemembersAuthority, AuthorityRemembered, RemembersBridge, Held
    <3>4. (RemembersFiles <=> RemembersFiles') /\ (RemembersSafety <=> RemembersSafety')
      BY <1>2, <1>5, <3>1, <3>2 DEF RemembersFiles, MayDiffer, Rendering, RemembersSafety, Fit
    <3>5. (RemembersService <=> RemembersService') /\ (UnspoiledInv <=> UnspoiledInv')
      BY <1>2, <1>5, <3>1, <3>2 DEF RemembersService, LeftStopped, UnspoiledInv, Held
    <3>6. (Recovers <=> Recovers') /\ (RollbackRestores <=> RollbackRestores')
      BY <1>2, <1>3, <1>5, <3>1 DEF Recovers, Running, RollbackRestores, LeftStopped
    <3> QED
      BY <1>1, <2>1, <2>2, <3>3, <3>4, <3>5, <3>6 DEF RollbackInv
  <2> QED
    BY <2>3, <2>4
<1> QED
  BY <1>2, <1>4, <1>5

\* Every step keeps what the rollback rests on.
LEMMA RollbackNext == RInv /\ [Next]_vars => RInv'
<1> SUFFICES ASSUME RInv, [Next]_vars PROVE RInv'
  OBVIOUS
<1>1. CASE Step
  BY <1>1, StepKeepsRollback
<1>2. CASE Outside
  BY <1>2, OutsideKeepsRollback
<1>3. ASSUME NEW granted, Begin(granted) PROVE RInv'
  BY <1>3, BeginKeeps, BeginRemembers DEF RInv, IInv
<1>4. CASE UNCHANGED vars
  <2>1. IInv'
    BY NextKeeps DEF RInv
  <2> USE DEF vars, authority, content, service, place, memory, fixed, history
  <2>2. HandInv' /\ StartsInv'
    BY <1>4 DEF RInv, HandInv, StartsInv, Hand, Act, Undo, Plan, Running
  <2>3. Live' = Live /\ (Recovers' => Recovers)
    BY <1>4 DEF Live, Recovers, Running, Plan
  <2>4. (RemembersAuthority => RemembersAuthority') /\ (RemembersBridge => RemembersBridge')
    BY <1>4, <2>3 DEF RemembersAuthority, AuthorityRemembered, RemembersBridge, Held
  <2>5. (RemembersFiles => RemembersFiles') /\ (RemembersSafety => RemembersSafety')
    BY <1>4, <2>3 DEF RemembersFiles, MayDiffer, Rendering, RemembersSafety, Fit
  <2>6. (RemembersService => RemembersService') /\ (UnspoiledInv => UnspoiledInv')
    BY <1>4, <2>3 DEF RemembersService, LeftStopped, UnspoiledInv, Held
  <2>7. RollbackRestores => RollbackRestores'
    BY <1>4 DEF RollbackRestores, LeftStopped
  <2> HIDE DEF vars, authority, content, service, place, memory, fixed, history
  <2> QED
    BY <2>1, <2>2, <2>3, <2>4, <2>5, <2>6, <2>7 DEF RInv, RollbackInv
<1> QED
  BY <1>1, <1>2, <1>3, <1>4 DEF Next, Outside

\* A failed apply without a ROLLBACK_FAILED has put back everything reversible: TOML, unit,
\* bridge, rendered files and the Worker, for every plan, whichever step raised and however
\* many applies came before; except what the action that raised left behind, and a Worker it
\* may not start again, which the results do not tell apart from one that is restored.
THEOREM FailedApplyRestores == Spec => []RollbackRestores
<1>1. Init => RInv
  BY InitHolds DEF Init, RInv, HandInv, StartsInv, RollbackInv, Recovers, RollbackRestores,
                   Running
<1>2. RInv => RollbackRestores
  BY DEF RInv, RollbackInv
<1> QED
  BY <1>1, <1>2, RollbackNext, PTL DEF Spec

-----------------------------------------------------------------------------
(* The success                                                             *)

\* The plan has the action.
Has(s, a) == \E i \in 1 .. Len(s) : s[i] = a

\* Whatever one of the parts has, the whole has.
LEMMA HasConcat ==
    ASSUME NEW s \in Seq(Actions), NEW t \in Seq(Actions), NEW a, Has(s, a) \/ Has(t, a)
    PROVE  Has(s \o t, a)
<1>1. /\ Len(s \o t) = Len(s) + Len(t) /\ Len(s) \in Nat /\ Len(t) \in Nat
      /\ \A i \in 1 .. Len(s \o t) : (s \o t)[i] = IF i <= Len(s) THEN s[i] ELSE t[i - Len(s)]
  OBVIOUS
<1>2. CASE Has(s, a)
  <2>1. PICK i \in 1 .. Len(s) : s[i] = a
    BY <1>2 DEF Has
  <2>2. i \in 1 .. Len(s \o t) /\ (s \o t)[i] = a
    BY <1>1, <2>1
  <2> QED
    BY <2>2 DEF Has
<1>3. CASE Has(t, a)
  <2>1. PICK i \in 1 .. Len(t) : t[i] = a
    BY <1>3 DEF Has
  <2>2. i + Len(s) \in 1 .. Len(s \o t) /\ (s \o t)[i + Len(s)] = a
    <3>1. i + Len(s) \in 1 .. Len(s \o t) /\ ~ (i + Len(s) <= Len(s)) /\ (i + Len(s)) - Len(s) = i
      BY <1>1
    <3> QED
      BY <1>1, <2>1, <3>1
  <2> QED
    BY <2>2 DEF Has
<1> QED
  BY <1>2, <1>3

\* What a setup plan has: it ends with a start and a health check, and has the optional
\* actions that are asked for.
LEMMA SetupHas ==
    ASSUME wish \in Wish, wish.goal = "activate"
    PROVE  /\ Planned("runtime_start") /\ Planned("health_check")
           /\ wish.gpu => Planned("ensure_nvidia_driver_bridge")
           /\ wish.configuration => Planned("render_config")
           /\ wish.reconcile => Planned("reconcile_worker_execution")
           /\ \A i \in 1 .. Len(Plan) : Rank(Plan[i]) < 13
<1> DEFINE first == <<"config", "state", "cache">> \o Only(wish.package, <<"ensure_package">>)
           bridge == Only(wish.gpu, <<"ensure_nvidia_driver_bridge">>)
           render == Only(wish.configuration, <<"render_config">>)
           model == <<ModelAction(wish)>>
           worker == Only(wish.reconcile, <<"worker_stop", "reconcile_worker_execution">>)
           last == <<"preflight", "runtime_start", "health_check">>
<1>1. Plan = ((((first \o bridge) \o render) \o model) \o worker) \o last
  BY DEF Plan, PlanOf, build_runtime_setup_plan
<1>2. /\ wish.package \in BOOLEAN /\ wish.gpu \in BOOLEAN /\ wish.configuration \in BOOLEAN
      /\ wish.reconcile \in BOOLEAN /\ wish.preparation \in Preparations
  BY DEF Wish
<1>3. ModelAction(wish) \in Actions
  BY <1>2 DEF ModelAction, Preparations, Actions
<1>4. /\ <<"config", "state", "cache">> \in Seq(Actions) /\ <<"ensure_package">> \in Seq(Actions)
      /\ <<"ensure_nvidia_driver_bridge">> \in Seq(Actions) /\ <<"render_config">> \in Seq(Actions)
      /\ <<"worker_stop", "reconcile_worker_execution">> \in Seq(Actions)
      /\ << >> \in Seq(Actions)
  BY DEF Actions
<1>5. /\ first \in Seq(Actions) /\ bridge \in Seq(Actions) /\ render \in Seq(Actions)
      /\ model \in Seq(Actions) /\ worker \in Seq(Actions) /\ last \in Seq(Actions)
  <2>1. Only(wish.package, <<"ensure_package">>) \in Seq(Actions)
    BY <1>4 DEF Only
  <2>2. first \in Seq(Actions)
    BY <1>4, <2>1
  <2>3. bridge \in Seq(Actions) /\ render \in Seq(Actions) /\ worker \in Seq(Actions)
    BY <1>4 DEF Only
  <2>4. model \in Seq(Actions)
    BY <1>3
  <2>5. last \in Seq(Actions)
    BY DEF Actions
  <2> QED
    BY <2>2, <2>3, <2>4, <2>5
<1>6. Has(last, "runtime_start") /\ Has(last, "health_check")
  <2>1. Len(last) = 3 /\ last[2] = "runtime_start" /\ last[3] = "health_check"
    OBVIOUS
  <2> QED
    BY <2>1 DEF Has
<1>7. wish.gpu => Has(bridge, "ensure_nvidia_driver_bridge")
  BY DEF Only, Has
<1>8. wish.configuration => Has(render, "render_config")
  BY DEF Only, Has
<1>9. wish.reconcile => Has(worker, "reconcile_worker_execution")
  <2>1. wish.reconcile => Len(worker) = 2 /\ worker[2] = "reconcile_worker_execution"
    BY DEF Only
  <2> HIDE DEF worker
  <2> QED
    BY <2>1 DEF Has
<1> HIDE DEF first, bridge, render, model, worker, last
<1>10. /\ first \o bridge \in Seq(Actions) /\ (first \o bridge) \o render \in Seq(Actions)
       /\ ((first \o bridge) \o render) \o model \in Seq(Actions)
       /\ (((first \o bridge) \o render) \o model) \o worker \in Seq(Actions)
  BY <1>5
<1>11. \A a : Has(Plan, a) => Planned(a)
  BY PlanIsSeq DEF Has, Planned
<1>12. Planned("runtime_start") /\ Planned("health_check")
  BY <1>1, <1>5, <1>6, <1>10, <1>11, HasConcat
<1>13. wish.reconcile => Planned("reconcile_worker_execution")
  BY <1>1, <1>5, <1>9, <1>10, <1>11, HasConcat
<1>14. wish.configuration => Planned("render_config")
  BY <1>1, <1>5, <1>8, <1>10, <1>11, HasConcat
<1>15. wish.gpu => Planned("ensure_nvidia_driver_bridge")
  BY <1>1, <1>5, <1>7, <1>10, <1>11, HasConcat
<1>16. \A i \in 1 .. Len(Plan) : Rank(Plan[i]) < 13
  BY SetupOrder DEF Ordered, Plan, PlanOf
<1> QED
  BY <1>12, <1>13, <1>14, <1>15, <1>16

\* The action at hand is one of the plan.
LEMMA HandPlanned ==
    ASSUME TypeInv, PlaceInv, HandInv, Step, Running'
    PROVE  Planned(Hand)
<1>1. CASE phase = "applying"
  BY <1>1, AtInPlan, PlanIsSeq DEF Planned, Hand, Act, TypeInv, PlaceInv, WalkInv
<1>2. CASE phase # "applying"
  <2>1. phase = "rolling"
    BY <1>2, StepWalks DEF Walk, Running
  <2>2. at \in DOMAIN receipts
    BY <2>1, HandsFull DEF TypeInv, PlaceInv, WalkInv
  <2> QED
    BY <1>2, <2>2 DEF PlaceInv, WalkInv, Hand, Undo
<1> QED
  BY <1>1, <1>2

\* Every step of the apply keeps the installer's unit where it does not reconcile.
LEMMA StepKeepsUnit ==
    ASSUME TypeInv, PlaceInv, HandInv, UnitInv, Step
    PROVE  UnitInv'
<1>1. UNCHANGED wish /\ \A a : Planned(a)' <=> Planned(a)
  BY StepWalks DEF Walk, Planned, Plan
<1>2. CASE Running'
  BY <1>1, <1>2, HandPlanned, Frames DEF UnitInv
<1>3. CASE ~ Running'
  <2>1. UNCHANGED unit
    BY <1>3 DEF Step, Finish, Inspect, ApplyPrerequisite, ApplyBridge, ApplyRender,
      WriteRendered, CompareRendered, StatRendered, CheckRendered, RestoreRendered,
      ApplyWorkerStop, ApplyReconcile,
      ReconcileToml, ReconcileUnit, ReconcileReload, UndoToml, UndoUnit, UndoReload, ApplyCheck,
      ApplyStart, StartRuntime, ApplyHealth, ApplyStop, UndoBridge, UndoRender, UndoReconcile,
      UndoWorkerStop, UndoStart, UndoStop, authority, In, Running, Goto, Leave, GiveUp,
      GiveUpUndoing,
      Raise, Undone
  <2> QED
    BY <1>1, <2>1 DEF UnitInv
<1> QED
  BY <1>2, <1>3

\* Whether the files are rendered depends on the files alone.
LEMMA SameRendered ==
    ASSUME UNCHANGED <<files, wish>>
    PROVE  (Rendered' <=> Rendered) /\ RenderTargets' = RenderTargets
BY DEF Rendered, RenderTargets

\* The last write leaves every target as reviewed.
LEMMA LastWrite ==
    ASSUME TypeInv, RenderInv, phase = "applying", WriteRendered, Advance
    PROVE  Rendered'
<1>1. UNCHANGED wish /\ step = "write"
  BY DEF WriteRendered, In, fixed
<1>2. PICK i \in ToWrite : ToWrite = {i} /\ files' = [files EXCEPT ![RenderTargets[i]] = "new"]
  <2>1. step' = "inspect"
    BY DEF Advance
  <2> QED
    BY <2>1 DEF WriteRendered, Goto
<1>3. RenderTargets' = RenderTargets /\ \A k \in DOMAIN RenderTargets : RenderTargets[k] \in Targets
  BY <1>1, RenderTargetsIn DEF RenderTargets
<1>4. ASSUME NEW k \in DOMAIN RenderTargets PROVE files'[RenderTargets[k]] = "new"
  <2>1. k = i \/ k \notin ToWrite
    BY <1>2
  <2>2. CASE k = i
    BY <1>2, <1>3, <2>2 DEF TypeInv
  <2>3. CASE k \notin ToWrite
    <3>1. files[RenderTargets[k]] = "new"
      BY <1>1, <1>3, <2>3 DEF ToWrite, RenderInv
    <3> QED
      BY <1>2, <1>3, <3>1 DEF TypeInv
  <2> QED
    BY <2>1, <2>2, <2>3
<1> QED
  BY <1>3, <1>4 DEF Rendered

\* An action that was passed has achieved what it is for, and nothing takes that back.
LEMMA StepKeepsDone ==
    ASSUME TypeInv, PlaceInv, AuthorityInv, HandInv, Step, Activates, DoneInv, RenderInv
    PROVE  DoneInv'
<1> SUFFICES ASSUME phase' = "applying", NEW i \in 1 .. Len(Plan'), i < at'
             PROVE  /\ Plan'[i] = "ensure_nvidia_driver_bridge" => link' = "new"
                    /\ Plan'[i] = "render_config" => Rendered'
                    /\ Plan'[i] = "reconcile_worker_execution" => unit' = "runtime"
                    /\ Plan'[i] = "runtime_start" => svc' = "active"
                    /\ Plan'[i] = "health_check" => ready'
  BY DEF DoneInv, Done
<1>1. /\ phase = "applying" /\ Running' /\ UNCHANGED wish /\ Plan' = Plan
      /\ at' = at \/ (at' = at + 1 /\ Advance)
  <2>1. phase = "applying" /\ Running'
    BY StepWalks DEF Walk, Running, Advance, Raise, Goto, Undone
  <2>2. (at' = at \/ (at' = at + 1 /\ Advance)) /\ UNCHANGED wish
    BY <2>1, StepWalks DEF Walk, Advance, Raise, Goto, Running
  <2> QED
    BY <2>1, <2>2 DEF Plan
<1>2. /\ at \in 1 .. Len(Plan) /\ Len(Plan) \in Nat /\ Hand = Plan[at] /\ at \in Nat
      /\ wish \in Wish /\ ~ disturbed
  BY <1>1, AtInPlan, PlanIsSeq DEF TypeInv, PlaceInv, WalkInv, Hand, Act, Activates
<1>3. CASE i < at
  <2>1. Done(Plan[i])
    BY <1>1, <1>3 DEF DoneInv
  <2>2. Rank(Plan[i]) < Rank(Hand) /\ Rank(Hand) < 13
    BY <1>1, <1>2, <1>3, PlanRanks, SetupHas DEF Activates
  <2>3. Plan[i] # Hand /\ Rank(Hand) \in Nat
    BY <2>2, RankNat
  <2>4. Plan[i] = "ensure_nvidia_driver_bridge" => link' = "new"
    BY <1>1, <2>1, <2>3, Frames DEF Done
  <2>5. Plan[i] = "render_config" => Rendered'
    BY <1>1, <2>1, <2>3, Frames, SameRendered DEF Done
  <2>6. Plan[i] = "reconcile_worker_execution" => unit' = "runtime"
    BY <1>1, <2>1, <2>3, Frames DEF Done
  <2>7. Plan[i] = "runtime_start" => svc' = "active"
    <3>1. Plan[i] = "runtime_start" =>
             Hand \notin {"worker_stop", "reconcile_worker_execution", "runtime_start",
                          "runtime_stop", "runtime_release"}
      BY <2>2, <2>3, Ranks
    <3> QED
      BY <1>1, <2>1, <3>1, Frames DEF Done, service
  <2>8. Plan[i] # "health_check"
    BY <2>2, <2>3, Ranks
  <2> QED
    BY <1>1, <2>4, <2>5, <2>6, <2>7, <2>8
<1>4. CASE i = at /\ Advance
  <2>0. Act = Hand /\ Plan'[i] = Hand /\ step' = "inspect" /\ UNCHANGED phase
    BY <1>1, <1>2, <1>4 DEF Act, Advance
  <2>1. Inspect => Inspection(Hand) = "satisfied"
    BY <2>0, <1>1 DEF Inspect, Raise, Goto
  <2>2. Inspect => UNCHANGED <<link, files, unit, svc, ready>>
    BY DEF Inspect, content, authority, service
  <2>3. Hand = "ensure_nvidia_driver_bridge" => link' = "new"
    <3>1. Inspection("ensure_nvidia_driver_bridge") = InspectBridge
      BY DEF Inspection, Directories
    <3>2. ApplyBridge => link' = "new"
      BY <1>1, <2>0 DEF ApplyBridge, Raise
    <3> QED
      BY <1>1, <2>1, <2>2, <3>1, <3>2, Handlers DEF InspectBridge, Needed, UndoBridge, Undoing
  <2>4. Hand = "render_config" => Rendered'
    <3>1. Inspection("render_config") = InspectRender
      BY DEF Inspection, Directories
    <3>2. /\ ~ ApplyRender /\ ~ CompareRendered /\ ~ StatRendered /\ ~ CheckRendered
          /\ ~ RestoreRendered /\ ~ UndoRender
      BY <1>1, <2>0 DEF ApplyRender, CompareRendered, StatRendered, CheckRendered, RestoreRendered,
                        UndoRender, Undoing, GiveUp, Raise, Undone, Goto, Leave
    <3>3. Inspect /\ Hand = "render_config" => Rendered
      BY <2>1, <3>1 DEF InspectRender, Needed
    <3> QED
      BY <1>1, <1>4, <2>2, <3>2, <3>3, Handlers, LastWrite, SameRendered
  <2>5. Hand = "reconcile_worker_execution" => unit' = "runtime"
    <3>1. Inspection("reconcile_worker_execution") = InspectWorkerExecution
      BY DEF Inspection, Directories
    <3>2. InspectWorkerExecution = "satisfied" => unit = "runtime"
      BY DEF InspectWorkerExecution, Needed
    <3>3. ~ ReconcileToml /\ ~ ReconcileUnit /\ ~ UndoToml /\ ~ UndoUnit /\ ~ UndoReload
          /\ ~ UndoReconcile
      BY <1>1, <2>0 DEF ReconcileToml, ReconcileUnit, UndoToml, UndoUnit, UndoReload,
                        UndoReconcile, Undoing, Raise, Goto, Leave, GiveUp, GiveUpUndoing
    <3>4. ApplyReconcile => unit' = "runtime"
      BY <1>1, <2>0, <3>2 DEF ApplyReconcile, Raise, Goto, authority
    <3>5. ReconcileReload => unit' = "runtime"
      BY <1>1, <1>2 DEF ReconcileReload, In, AuthorityInv
    <3> QED
      BY <1>1, <2>1, <2>2, <3>1, <3>2, <3>3, <3>4, <3>5, Handlers
  <2>6. Hand = "runtime_start" => svc' = "active"
    <3>1. Inspection("runtime_start") = Needed(svc # "active")
      BY DEF Inspection, Directories
    <3>2. ~ ApplyStart /\ ~ UndoStart
      BY <1>1, <2>0 DEF ApplyStart, UndoStart, Undoing, Raise, Goto
    <3>3. StartRuntime => svc' = "active"
      BY <1>1, <2>0 DEF StartRuntime, Raise, StartService, service
    <3> QED
      BY <1>1, <2>1, <2>2, <3>1, <3>2, <3>3, Handlers DEF Needed
  <2>7. Hand = "health_check" => ready'
    <3>1. Inspection("health_check") = Needed(~ ready)
      BY DEF Inspection, Directories
    <3>2. ApplyHealth => ready'
      BY <1>1, <2>0 DEF ApplyHealth, Raise, service
    <3>3. Needed(~ ready) = "satisfied" => ready
      BY DEF Needed
    <3> QED
      BY <1>1, <2>1, <2>2, <3>1, <3>2, <3>3, Handlers
  <2> QED
    BY <2>0, <2>3, <2>4, <2>5, <2>6, <2>7
<1> QED
  BY <1>1, <1>2, <1>3, <1>4

\* A Worker comes to run by a start of the plan, or by a rollback that finds it in smoke mode.
LEMMA ServiceChange ==
    ASSUME Step
    PROVE  \/ UNCHANGED <<svc, running>> \/ svc' # "active"
           \/ StartRuntime /\ StartService
           \/ UndoWorkerStop /\ StartService /\ Contract = "smoke"
BY ZenonT(60) DEF Step, Inspect, Finish, ApplyPrerequisite, ApplyBridge, ApplyRender, WriteRendered,
      CompareRendered, StatRendered, CheckRendered, RestoreRendered, ApplyWorkerStop,
      ApplyReconcile, ReconcileToml,
      ReconcileUnit, ReconcileReload, UndoToml, UndoUnit, UndoReload, ApplyCheck, ApplyStart,
      StartRuntime, ApplyHealth, ApplyStop, UndoBridge, UndoRender, UndoReconcile,
      UndoWorkerStop, UndoStart, UndoStop, service, StopService

\* Once every action that the plan has before this one is done, the files are rendered.
LEMMA RenderedByNow ==
    ASSUME TypeInv, PlaceInv, DoneInv, Activates, phase = "applying", NEW n \in 1 .. Len(Plan) + 1,
           n <= at, n <= Len(Plan) => Rank("render_config") < Rank(Plan[n])
    PROVE  Rendered
<1>1. PICK i \in 1 .. Len(Plan) : Plan[i] = "render_config"
  BY SetupHas, PlanIsSeq DEF Planned, Activates, TypeInv
<1>2. i < n
  <2>1. CASE n <= Len(Plan)
    <3>1. n \in 1 .. Len(Plan) /\ Rank(Plan[i]) < Rank(Plan[n])
      BY <1>1, <2>1, PlanIsSeq DEF TypeInv
    <3>2. n < i => Rank(Plan[n]) < Rank(Plan[i])
      BY <3>1, PlanRanks DEF TypeInv
    <3>3. n # i
      BY <3>1, RankNat
    <3>4. ~ (n < i)
      BY <3>1, <3>2, RankNat
    <3> QED
      BY <3>1, <3>3, <3>4
  <2>2. CASE n > Len(Plan)
    BY <2>2, PlanIsSeq DEF TypeInv
  <2> QED
    BY <2>1, <2>2, PlanIsSeq DEF TypeInv
<1> QED
  BY <1>1, <1>2, PlanIsSeq DEF DoneInv, Done, TypeInv

\* Whatever runs in runtime mode keeps its manifest.
LEMMA StepKeepsManifest ==
    ASSUME TypeInv, PlaceInv, AuthorityInv, InstalledInv, HandInv, Step, Activates, DoneInv,
           RenderInv, ManifestInv
    PROVE  ManifestInv'
<1> SUFFICES ASSUME svc' = "active", running'.toml = "runtime"
             PROVE  running'.manifest = "new"
                    \/ (wish'.reconcile /\ running'.manifest = files'["manifest"])
  BY DEF ManifestInv
<1>0. UNCHANGED wish /\ ~ disturbed /\ "manifest" \in Targets
  BY StepWalks DEF Walk, Activates, PlaceInv, StepsInv, Targets
<1>1. CASE UNCHANGED <<svc, running>>
  <2>0. running.manifest = "new" \/ (wish.reconcile /\ running.manifest = files["manifest"])
    BY <1>1 DEF ManifestInv
  <2>1. CASE WriteRendered
    <3>1. wish.reconcile => toml = "smoke"
      BY <2>1 DEF WriteRendered, In, RenderInv
    <3>2. toml = "runtime"
      BY <1>0, <1>1 DEF AuthorityInv
    <3> QED
      BY <1>1, <2>0, <3>1, <3>2
  <2>2. CASE RestoreRendered
    <3>1. files[Last(items)] = "new"
      BY <1>0, <2>2 DEF RestoreRendered, InstalledInv, Restoring, AtHand
    <3>2. Last(items) # "manifest" => files'["manifest"] = files["manifest"]
      BY <1>0, <2>2 DEF RestoreRendered, AtHand, TypeInv
    <3> QED
      BY <1>0, <1>1, <2>0, <3>1, <3>2
  <2>3. CASE ~ WriteRendered /\ ~ RestoreRendered
    BY <1>0, <1>1, <2>0, <2>3, FilesChange
  <2> QED
    BY <2>1, <2>2, <2>3
<1>2. CASE ~ UNCHANGED <<svc, running>> /\ StartRuntime /\ StartService
  <2>1. /\ phase = "applying" /\ at \in 1 .. Len(Plan) + 1 /\ at <= Len(Plan)
        /\ Plan[at] = "runtime_start"
    BY <1>2, PlanIsSeq DEF StartRuntime, In, Act, TypeInv, PlaceInv, WalkInv
  <2>2. Rendered
    BY <2>1, RenderedByNow, Ranks
  <2>3. files["manifest"] = "new"
    BY <2>2, RenderTargetsIn DEF Rendered
  <2> QED
    BY <1>2, <2>3 DEF StartService, Process, service
<1>3. CASE ~ UNCHANGED <<svc, running>> /\ StartService /\ Contract = "smoke"
  <2>1. toml # "runtime"
    BY <1>3 DEF Contract, Modes
  <2> QED
    BY <1>3, <2>1 DEF StartService, Process, service
<1> QED
  BY <1>1, <1>2, <1>3, ServiceChange

\* Files are rendered where they differ, and what is written stays written.
LEMMA StepKeepsRender ==
    ASSUME TypeInv, PlaceInv, AuthorityInv, HandInv, Step, Activates, RenderInv
    PROVE  RenderInv'
<1> SUFFICES ASSUME phase' = "applying"
             PROVE  /\ at' <= Len(Plan') /\ step' = "apply" /\ Act' = "render_config" => ~ Rendered'
                    /\ step' = "write" /\ wish'.reconcile => toml' = "smoke"
                    /\ step' = "write" => \A p \in Targets :
                          p \in ToSet(items') \/ previous'.files[p] = "new" => files'[p] = "new"
  BY DEF RenderInv
<1>0. UNCHANGED wish /\ ~ disturbed /\ Plan' = Plan
  BY StepWalks DEF Walk, Activates, Plan
<1>1. ASSUME step' = "apply", Act' = "render_config" PROVE ~ Rendered'
  <2>1. Inspect
    BY <1>1 DEF Step, Inspect, Finish, ApplyPrerequisite, ApplyBridge, ApplyRender,
      WriteRendered, CompareRendered, StatRendered, CheckRendered, RestoreRendered,
      ApplyWorkerStop, ApplyReconcile,
      ReconcileToml, ReconcileUnit, ReconcileReload, UndoToml, UndoUnit, UndoReload, ApplyCheck,
      ApplyStart, StartRuntime, ApplyHealth, ApplyStop, UndoBridge, UndoRender, UndoReconcile,
      UndoWorkerStop, UndoStart, UndoStop, In, Undoing, Leave, GiveUp, GiveUpUndoing, Goto, Advance,
      Raise, Undone
  <2>2. Inspection(Act) = "needs_apply" /\ Act' = Act /\ UNCHANGED files
    BY <1>0, <1>1, <2>1 DEF Inspect, Act, Goto, Advance, Raise, content
  <2>3. Inspection("render_config") = InspectRender
    BY DEF Inspection, Directories
  <2>4. ~ Rendered
    BY <1>1, <2>2, <2>3 DEF InspectRender, Needed
  <2> QED
    BY <1>0, <2>2, <2>4, SameRendered
<1>2. ASSUME step' = "write" PROVE ApplyRender \/ WriteRendered
  BY <1>2 DEF Step, Inspect, Finish, ApplyPrerequisite, ApplyBridge, ApplyRender, WriteRendered,
      CompareRendered, StatRendered, CheckRendered, RestoreRendered, ApplyWorkerStop,
      ApplyReconcile, ReconcileToml,
      ReconcileUnit, ReconcileReload, UndoToml, UndoUnit, UndoReload, ApplyCheck, ApplyStart,
      StartRuntime, ApplyHealth, ApplyStop, UndoBridge, UndoRender, UndoReconcile,
      UndoWorkerStop, UndoStart, UndoStop, In, Undoing, Leave, GiveUp, GiveUpUndoing, Goto, Advance,
      Raise, Undone
<1>3. ASSUME ApplyRender, step' = "write"
      PROVE  /\ wish'.reconcile => toml' = "smoke"
             /\ \A p \in Targets :
                   p \in ToSet(items') \/ previous'.files[p] = "new" => files'[p] = "new"
  <2>1. InspectRender # "blocked" /\ items' = << >> /\ previous' = Snapshot
    BY <1>3 DEF ApplyRender, Raise
  <2>2. UNCHANGED <<toml, files>> /\ ~ Rendered
    BY <1>3 DEF ApplyRender, authority, content, In, RenderInv
  <2>3. wish.reconcile => toml = "smoke"
    BY <1>0, <2>1, <2>2 DEF InspectRender, Foreign, Contract, Modes
  <2>4. previous'.files = files /\ \A p : p \notin ToSet(items')
    BY <2>1 DEF Snapshot, ToSet
  <2> QED
    BY <1>0, <2>2, <2>3, <2>4
<1>4. ASSUME WriteRendered, step' = "write"
      PROVE  /\ wish'.reconcile => toml' = "smoke"
             /\ \A p \in Targets :
                   p \in ToSet(items') \/ previous'.files[p] = "new" => files'[p] = "new"
  <2>1. /\ phase = "applying" /\ step = "write" /\ UNCHANGED <<toml, previous>>
    BY <1>4 DEF WriteRendered, In, authority
  <2>2. PICK k \in DOMAIN RenderTargets : /\ files' = [files EXCEPT ![RenderTargets[k]] = "new"]
                                          /\ items' = Append(items, RenderTargets[k])
    BY <1>4 DEF WriteRendered, ToWrite, Goto
  <2>3. RenderTargets[k] \in Targets
    BY RenderTargetsIn
  <2>4. \A p : p \in ToSet(items') <=> p \in ToSet(items) \/ p = RenderTargets[k]
    BY <2>2, <2>3, AppendSet DEF TypeInv
  <2> QED
    BY <1>0, <2>1, <2>2, <2>3, <2>4 DEF RenderInv, TypeInv
<1> QED
  BY <1>1, <1>2, <1>3, <1>4

\* An apply that comes to its end has done everything its plan is for.
LEMMA SucceedsAtEnd ==
    ASSUME TypeInv, PlaceInv, AuthorityInv, HandInv, UnitInv, Activates, DoneInv, ManifestInv,
           Finish
    PROVE  SuccessRunsReviewed'
<1> SUFFICES ASSUME phase' = "succeeded" PROVE SuccessRunsReviewed'
  BY DEF SuccessRunsReviewed
<1>1. /\ phase = "applying" /\ at > Len(Plan) /\ step \notin AuthoritySteps /\ ~ disturbed
      /\ wish \in Wish /\ Len(Plan) \in Nat /\ at \in Nat
  BY PlanIsSeq DEF Finish, HandInv, TypeInv, Activates, Running, AuthoritySteps
<1>2. \A a : Planned(a) => Done(a)
  BY <1>1, PlanIsSeq DEF Planned, DoneInv
<1>3. /\ Rendered /\ svc = "active" /\ ready
      /\ wish.gpu => link = "new"
      /\ wish.reconcile => unit = "runtime"
  BY <1>1, <1>2, SetupHas DEF Done, Activates
<1>4. unit = "runtime"
  BY <1>2, <1>3 DEF UnitInv, Done
<1>5. running.toml = "runtime" /\ running.unit = "runtime"
  BY <1>1, <1>3, <1>4 DEF AuthorityInv, Fit, UnitMode
<1>6. running.manifest = "new"
  BY <1>3, <1>5, RenderTargetsIn DEF ManifestInv, Rendered
<1>7. running = Process("runtime", "runtime", "new")
  BY <1>5, <1>6 DEF TypeInv, Processes, NoProcess, Process
<1>8. UNCHANGED <<svc, ready, running, files, link, wish>> /\ RenderTargets' = RenderTargets
  BY DEF Finish, service, content, fixed, RenderTargets
<1> QED
  BY <1>3, <1>7, <1>8 DEF SuccessRunsReviewed, Rendered

\* What the success rests on, as an invariant.
SInv == RInv /\ SuccessInv

\* Every step of the apply keeps it.
LEMMA StepKeepsSuccess ==
    ASSUME SInv, Step
    PROVE  SuccessInv'
<1>1. /\ TypeInv /\ PlaceInv /\ AuthorityInv /\ InstalledInv /\ HandInv /\ UnitInv
      /\ Activates => DoneInv /\ ManifestInv /\ RenderInv
  BY DEF SInv, RInv, IInv, SuccessInv
<1>2. UnitInv'
  BY <1>1, StepKeepsUnit
<1>3. UNCHANGED <<wish, disturbed>>
  <2>1. UNCHANGED wish
    BY <1>1, StepWalks DEF Walk
  <2>2. UNCHANGED disturbed
    BY DEF Step, Inspect, Finish, ApplyPrerequisite, ApplyBridge, ApplyRender, WriteRendered,
      CompareRendered, StatRendered, CheckRendered, RestoreRendered, ApplyWorkerStop,
      ApplyReconcile, ReconcileToml,
      ReconcileUnit, ReconcileReload, UndoToml, UndoUnit, UndoReload, ApplyCheck, ApplyStart,
      StartRuntime, ApplyHealth, ApplyStop, UndoBridge, UndoRender, UndoReconcile,
      UndoWorkerStop, UndoStart, UndoStop, history, GiveUp, GiveUpUndoing
  <2> QED
    BY <2>1, <2>2
<1>4. Activates' => Activates
  BY <1>3 DEF Activates
<1>5. Activates' => DoneInv' /\ ManifestInv' /\ RenderInv'
  BY <1>1, <1>4, StepKeepsDone, StepKeepsManifest, StepKeepsRender
<1>6. Activates' => SuccessRunsReviewed'
  <2>1. CASE Finish
    BY <1>1, <1>4, <2>1, SucceedsAtEnd
  <2>2. CASE ~ Finish
    <3>1. phase' # "succeeded"
      BY <2>2 DEF Step, Inspect, ApplyPrerequisite, ApplyBridge, ApplyRender, WriteRendered,
      CompareRendered, StatRendered, CheckRendered, RestoreRendered, ApplyWorkerStop,
      ApplyReconcile, ReconcileToml,
      ReconcileUnit, ReconcileReload, UndoToml, UndoUnit, UndoReload, ApplyCheck, ApplyStart,
      StartRuntime, ApplyHealth, ApplyStop, UndoBridge, UndoRender, UndoReconcile,
      UndoWorkerStop, UndoStart, UndoStop, In, Undoing, Leave, GiveUp, GiveUpUndoing, Running,
      Advance, Raise, Goto, Undone
    <3> QED
      BY <3>1 DEF SuccessRunsReviewed
  <2> QED
    BY <2>1, <2>2
<1> QED
  BY <1>2, <1>5, <1>6 DEF SuccessInv

\* A success lasts: what happens around the setup keeps it or disturbs the host.
LEMMA OutsideKeepsSuccess ==
    ASSUME SInv, Outside \/ UNCHANGED vars
    PROVE  SuccessInv'
<1>1. /\ UNCHANGED <<wish, unit, items, previous>>
      /\ UNCHANGED <<phase, at, step>> \/ (phase' = "idle")
      /\ disturbed' \/ UNCHANGED <<toml, files, link, svc, running, disturbed>>
      /\ disturbed' \/ (ready => ready')
  BY DEF Outside, Kill, WorkerReady, WorkerFails, AutoRestart, EditRendered, EditBridge,
         EditToml, vars, authority, content, service, place, memory, fixed, history
<1>2. Plan' = Plan /\ RenderTargets' = RenderTargets /\ \A a : Planned(a)' <=> Planned(a)
  BY <1>1 DEF Plan, RenderTargets, Planned
<1>3. UnitInv'
  BY <1>1, <1>2 DEF SInv, SuccessInv, UnitInv
<1>4. ASSUME Activates' PROVE DoneInv' /\ ManifestInv' /\ RenderInv' /\ SuccessRunsReviewed'
  <2>1. /\ UNCHANGED <<toml, files, link, svc, running>> /\ (ready => ready') /\ Activates
    BY <1>1, <1>4 DEF Activates
  <2>2. DoneInv /\ ManifestInv /\ RenderInv /\ SuccessRunsReviewed
    BY <2>1 DEF SInv, SuccessInv
  <2>3. Rendered' <=> Rendered
    BY <1>1, <2>1, SameRendered
  <2>4. DoneInv'
    BY <1>1, <1>2, <2>1, <2>2, <2>3 DEF DoneInv, Done
  <2>5. ManifestInv'
    BY <1>1, <2>1, <2>2 DEF ManifestInv
  <2>6. RenderInv'
    BY <1>1, <1>2, <2>1, <2>2, <2>3 DEF RenderInv, Act
  <2>7. SuccessRunsReviewed'
    BY <1>1, <1>2, <2>1, <2>2 DEF SuccessRunsReviewed
  <2> QED
    BY <2>4, <2>5, <2>6, <2>7
<1> QED
  BY <1>3, <1>4 DEF SuccessInv

\* Beginning an apply keeps it.
LEMMA BeginKeepsSuccess ==
    ASSUME SInv, NEW granted, Begin(granted)
    PROVE  SuccessInv'
<1>1. /\ UNCHANGED <<wish, unit, files, svc, running>> /\ phase' = "applying" /\ at' = 1
      /\ step' = "inspect" /\ (disturbed /\ ~ disturbed' => svc = "inactive")
  BY DEF Begin, authority, content, service
<1>2. \A a : Planned(a)' <=> Planned(a)
  BY <1>1 DEF Plan, Planned
<1>3. UnitInv'
  BY <1>1, <1>2 DEF SInv, SuccessInv, UnitInv
<1>4. DoneInv' /\ RenderInv' /\ SuccessRunsReviewed'
  BY <1>1 DEF DoneInv, RenderInv, SuccessRunsReviewed
<1>5. Activates' => ManifestInv'
  <2>1. CASE svc # "active"
    BY <1>1, <2>1 DEF ManifestInv
  <2>2. CASE svc = "active"
    BY <1>1, <2>2 DEF Activates, SInv, SuccessInv, ManifestInv
  <2> QED
    BY <2>1, <2>2
<1> QED
  BY <1>3, <1>4, <1>5 DEF SuccessInv

\* The hosts the setup is run on.
LEMMA InitSucceeds == Init => SuccessInv
<1> SUFFICES ASSUME Init PROVE SuccessInv
  OBVIOUS
<1>1. UnitInv
  BY DEF Init, UnitInv
<1>2. ManifestInv
  BY DEF Init, ManifestInv, Process
<1> QED
  BY <1>1, <1>2 DEF Init, SuccessInv, DoneInv, RenderInv, SuccessRunsReviewed

\* An activation that succeeds leaves the Worker running and ready under the reviewed
\* deployment.  Every provider's setup intent has a configuration, which is what makes the plan
\* render one.
THEOREM ActivationRunsReviewed ==
    ASSUME \A w \in Wishes : w.goal = "activate" => w.configuration
    PROVE  Spec => []SuccessRunsReviewed
<1>1. Init => SInv
  BY InitHolds, InitSucceeds DEF Init, SInv, RInv, HandInv, StartsInv, RollbackInv, Recovers,
     RollbackRestores, Running
<1>2. ASSUME SInv, [Next]_vars PROVE SInv'
  <2>1. RInv'
    BY <1>2, RollbackNext DEF SInv
  <2>2. SuccessInv'
    BY <1>2, StepKeepsSuccess, OutsideKeepsSuccess, BeginKeepsSuccess DEF Next, Outside
  <2> QED
    BY <2>1, <2>2 DEF SInv
<1>3. SInv => SuccessRunsReviewed
  BY DEF SInv, SuccessInv, UnitInv, Activates, SuccessRunsReviewed
<1> QED
  BY <1>1, <1>2, <1>3, PTL DEF Spec
=============================================================================
