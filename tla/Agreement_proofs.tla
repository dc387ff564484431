-------------------------- MODULE Agreement_proofs --------------------------
(***************************************************************************)
(* Proofs that the places where the program says a thing twice agree: the  *)
(* ledger and the schema (ControlService), the claim query and the matcher *)
(* (Scheduling), and the runtime that is started and the plan that was     *)
(* reviewed (RuntimeDeployment), each for every value of the constants.    *)
(***************************************************************************)
EXTENDS MCAgreement, FiniteSetTheorems, TLAPS

-----------------------------------------------------------------------------
(* The ledger and the schema *)

Programs == {"this", "before"}
States == {"idle", "apply", "record", "done"}
Migrators == [pc : States, at : Int, seen : SUBSET Int]

\* A row of the ledger stands for statements that are in the database, and a
\* migrator that is about to write one has executed the file.
LedgerInv ==
    /\ migrator \in [Programs -> Migrators]
    /\ recorded \subseteq schema
    /\ schema \subseteq Int
    /\ \A who \in Programs : migrator[who].pc = "record" => migrator[who].at \in schema
    /\ ReadyMeansMigrated

\* The states of a migrator, and the one it is in when it is not running.
LEMMA MigratorStates ==
  /\ \A pc \in States, at \in Int : \A seen : seen \subseteq Int =>
        [pc |-> pc, at |-> at, seen |-> seen] \in Migrators
  /\ \A seen : seen \subseteq Int => [pc |-> "apply", at |-> 1, seen |-> seen] \in Migrators
  /\ \A pc \in States : [pc |-> pc, at |-> 1, seen |-> {}] \in Migrators
  /\ Resting \in Migrators /\ [Resting EXCEPT !.pc = "done"] \in Migrators
<1>1. \A pc \in States, at \in Int : \A seen : seen \subseteq Int =>
          [pc |-> pc, at |-> at, seen |-> seen] \in Migrators
  BY DEF Migrators
<1>2. "apply" \in States /\ "idle" \in States /\ "done" \in States /\ 1 \in Int
  BY DEF States
<1>3. \A seen : seen \subseteq Int => [pc |-> "apply", at |-> 1, seen |-> seen] \in Migrators
  BY <1>1, <1>2, Zenon
<1>4. {} \subseteq Int
  OBVIOUS
<1>5. \A pc \in States : [pc |-> pc, at |-> 1, seen |-> {}] \in Migrators
  BY <1>1, <1>2, <1>4, Zenon
<1>6. Resting \in Migrators
  BY <1>2, <1>5, Zenon DEF Resting
<1>7. [Resting EXCEPT !.pc = "done"] = [pc |-> "done", at |-> 1, seen |-> {}]
  BY DEF Resting
<1>8. [pc |-> "done", at |-> 1, seen |-> {}] \in Migrators
  BY <1>2, <1>5, Zenon
<1>. QED BY <1>1, <1>3, <1>5, <1>6, <1>7, <1>8, Zenon

\* What a step of a migrator must show: it comes to a state that is allowed, the schema
\* only grows, and the rows of the ledger stay within it.
LEMMA LedgerStep ==
  ASSUME LedgerInv, NEW who \in Programs, NEW next \in Migrators,
         migrator' = [migrator EXCEPT ![who] = next], answer' = answer,
         schema \subseteq schema', schema' \subseteq Int, recorded' \subseteq schema',
         next.pc = "record" => next.at \in schema'
  PROVE  LedgerInv'
<1>1. migrator' \in [Programs -> Migrators]
  BY DEF LedgerInv
<1>2. \A other \in Programs : migrator'[other].pc = "record" => migrator'[other].at \in schema'
  BY DEF LedgerInv
<1>3. ReadyMeansMigrated'
  BY DEF LedgerInv, ReadyMeansMigrated
<1>. QED BY <1>1, <1>2, <1>3 DEF LedgerInv

\* No migration is ever undone: what a migrator does leaves the schema as it was or
\* larger, and every new row of the ledger is of a file that has been executed.
LEMMA MigratorsKeepLedger ==
  ASSUME LedgerInv, NEW who \in Programs, Migrate(who) \/ MigratorFails(who)
  PROVE  LedgerInv'
<1>. DEFINE m == migrator[who]
<1>1. /\ m.pc \in States /\ m.at \in Int /\ m.seen \subseteq Int
      /\ m.pc = "record" => m.at \in schema
      /\ schema \subseteq Int /\ recorded \subseteq schema
      /\ m = [pc |-> m.pc, at |-> m.at, seen |-> m.seen]
  BY DEF LedgerInv, Migrators
<1>2. "apply" \in States /\ "record" \in States /\ m.at + 1 \in Int
  BY <1>1 DEF States
<1>3. CASE ReadLedger(who)
  <2>. DEFINE n == [pc |-> "apply", at |-> 1, seen |-> recorded_migrations]
  <2>1. recorded_migrations \subseteq Int
    BY <1>1 DEF recorded_migrations
  <2>2. n \in Migrators
    BY <2>1, MigratorStates, Zenon
  <2>3. migrator' = [migrator EXCEPT ![who] = n] /\ UNCHANGED <<schema, recorded, answer>>
    BY <1>3 DEF ReadLedger, Migrating
  <2>. QED BY <1>1, <2>2, <2>3, LedgerStep
<1>4. CASE Skip(who)
  <2>. DEFINE n == [m EXCEPT !.at = @ + 1]
  <2>1. n = [pc |-> m.pc, at |-> m.at + 1, seen |-> m.seen] /\ m.pc = "apply"
    BY <1>1, <1>4 DEF Skip
  <2>3. migrator' = [migrator EXCEPT ![who] = n] /\ UNCHANGED <<schema, recorded, answer>>
    BY <1>4 DEF Skip, Migrating
  <2>. HIDE DEF n
  <2>2. n \in Migrators
    BY <1>1, <1>2, <2>1, MigratorStates, Zenon
  <2>. QED BY <1>1, <2>1, <2>2, <2>3, LedgerStep
<1>5. CASE Apply(who)
  <2>. DEFINE n == [m EXCEPT !.pc = "record"]
  <2>1. n = [pc |-> "record", at |-> m.at, seen |-> m.seen]
    BY <1>1
  <2>3. /\ migrator' = [migrator EXCEPT ![who] = n] /\ UNCHANGED <<recorded, answer>>
        /\ schema' = schema \cup {m.at}
    BY <1>5 DEF Apply, Migrating
  <2>. HIDE DEF n
  <2>2. n \in Migrators
    BY <1>1, <1>2, <2>1, MigratorStates, Zenon
  <2>. QED BY <1>1, <2>1, <2>2, <2>3, LedgerStep
<1>6. CASE Record(who)
  <2>. DEFINE seen == IF 1 \in schema THEN m.seen \cup {m.at} ELSE m.seen
              n == [m EXCEPT !.pc = "apply", !.at = @ + 1,
                             !.seen = IF 1 \in schema THEN @ \cup {m.at} ELSE @]
  <2>1. seen \in SUBSET Int
    BY <1>1
  <2>2. m \in [pc : States, at : Int, seen : SUBSET Int]
    BY DEF LedgerInv, Migrators
  <2>3. n = [m EXCEPT !.pc = "apply", !.at = m.at + 1, !.seen = seen]
    OBVIOUS
  <2>. HIDE DEF m, n, seen
  <2>4. n \in Migrators /\ n.pc = "apply"
    BY <1>2, <2>1, <2>2, <2>3 DEF Migrators
  <2>. USE DEF m, n
  <2>5. /\ migrator' = [migrator EXCEPT ![who] = n] /\ UNCHANGED <<schema, answer>>
        /\ m.pc = "record"
        /\ recorded' = IF 1 \in schema THEN recorded \cup {m.at} ELSE recorded
    BY <1>6 DEF Record, Migrating
  <2>. HIDE DEF n
  <2>. QED BY <1>1, <2>4, <2>5, LedgerStep
<1>7. CASE Finish(who) \/ MigratorFails(who)
  <2>1. Resting \in Migrators /\ [Resting EXCEPT !.pc = "done"] \in Migrators
    BY MigratorStates
  <2>2. /\ \/ migrator' = [migrator EXCEPT ![who] = Resting]
           \/ migrator' = [migrator EXCEPT ![who] = [Resting EXCEPT !.pc = "done"]]
        /\ UNCHANGED <<schema, recorded, answer>>
    BY <1>7 DEF Finish, MigratorFails, Migrating
  <2>3. Resting.pc # "record" /\ [Resting EXCEPT !.pc = "done"].pc # "record"
    BY DEF Resting
  <2>. QED BY <1>1, <2>1, <2>2, <2>3, LedgerStep
<1>. QED BY <1>3, <1>4, <1>5, <1>6, <1>7 DEF Migrate

\* The readiness check answers from the ledger alone, and the invariant carries its
\* answer over to the schema; the maintenance loop touches neither.
LEMMA ServiceKeepsLedger ==
  ASSUME LedgerInv, [ServiceNext]_serviceVars
  PROVE  LedgerInv'
<1>1. CASE \E who \in Programs : Migrate(who) \/ MigratorFails(who)
  BY <1>1, MigratorsKeepLedger
<1>2. CASE check_storage
  BY <1>2 DEF check_storage, LedgerInv, ReadyMeansMigrated
<1>3. CASE ServiceDies
  <2>1. Resting \in Migrators /\ Resting.pc = "idle" /\ "this" \in Programs
    BY MigratorStates DEF Resting, Programs
  <2>2. /\ \/ migrator' = [migrator EXCEPT !["this"] = Resting]
           \/ migrator' = migrator
        /\ UNCHANGED <<schema, recorded>>
        /\ answer' = "none"
    BY <1>3 DEF ServiceDies
  <2>3. migrator' \in [Programs -> Migrators]
    BY <2>1, <2>2 DEF LedgerInv
  <2>. QED BY <2>1, <2>2, <2>3 DEF LedgerInv, ReadyMeansMigrated
<1>4. CASE \/ ServiceStarts \/ Wakes \/ expire_stale_workers \/ recover_expired_jobs
           \/ SweepFails \/ TimePasses \/ UNCHANGED serviceVars
  BY <1>4 DEF ServiceStarts, Wakes, expire_stale_workers, recover_expired_jobs, SweepFails,
              TimePasses, serviceVars, Serving, LedgerInv, ReadyMeansMigrated
<1>. QED BY <1>1, <1>2, <1>3, <1>4 DEF ServiceNext, Programs

\* Control says that it is ready only when every migration of its binary is in the
\* database: for any number of failures and restarts, next to a migrator of the release
\* before, on each of the databases it may find, and also when it was started without
\* migrateOnStart on one that nobody has migrated.
THEOREM ReadyOnlyWhenMigrated ==
  ServiceInit /\ [][ServiceNext]_serviceVars => []ReadyMeansMigrated
<1>1. ASSUME ServiceInit PROVE LedgerInv
  <2>1. Resting \in Migrators /\ Resting.pc = "idle"
    BY MigratorStates DEF Resting
  <2>2. migrator = [who \in Programs |-> Resting] /\ answer = "none"
    BY <1>1 DEF ServiceInit, Programs
  <2>3. schema \subseteq Int /\ recorded \subseteq schema
    BY <1>1 DEF ServiceInit
  <2>4. migrator \in [Programs -> Migrators]
    BY <2>1, <2>2
  <2>. QED BY <2>1, <2>2, <2>3, <2>4 DEF LedgerInv, ReadyMeansMigrated
<1>2. LedgerInv /\ [ServiceNext]_serviceVars => LedgerInv'
  BY ServiceKeepsLedger
<1>3. LedgerInv => ReadyMeansMigrated
  BY DEF LedgerInv
<1>. QED BY <1>1, <1>2, <1>3, PTL

-----------------------------------------------------------------------------
(* The claim query and the matcher *)

\* The numbers of a worker and of a job's requirements are integers.
NumbersOf(w, r) ==
    /\ w.gpu_count \in Int /\ w.total_vram_mb \in Int /\ w.max_single_gpu_vram_mb \in Int
    /\ r.min_gpu_count \in Int /\ r.min_total_vram_mb \in Int
    /\ r.min_single_gpu_vram_mb \in Int

\* Whatever workers, jobs, names and sizes there are: the claim query selects a job for a
\* worker exactly when the matcher finds no reason against it, and where a cast does not
\* fit it raises instead of answering.
THEOREM ClaimQueryIsMatcher ==
  ASSUME NEW w, NEW r, NEW intMax \in Int, NumbersOf(w, r)
  PROVE  ClaimQuery(w, r, intMax) =
            IF CastOverflows(r, intMax) THEN "error"
            ELSE IF worker_matches(w, r) THEN "match" ELSE "no_match"
<1>1. worker_matches(w, r) <=>
         /\ r.worker_class = AnyClass \/ w.worker_class = r.worker_class
         /\ r.required_capabilities \subseteq w.capabilities
         /\ \A q \in r.required_labels : q \in w.labels
         /\ r.required_gpu_uuids \subseteq w.gpu_uuids
         /\ ~(w.gpu_count < r.min_gpu_count)
         /\ ~(w.total_vram_mb < r.min_total_vram_mb)
         /\ ~(w.max_single_gpu_vram_mb < r.min_single_gpu_vram_mb)
  BY Zenon DEF worker_matches, MatchReasons
<1>2. QueryPredicate(w, r) <=>
         /\ r.worker_class = AnyClass \/ w.worker_class = r.worker_class
         /\ r.required_capabilities \subseteq w.capabilities
         /\ \A q \in r.required_labels : q \in w.labels
         /\ r.required_gpu_uuids \subseteq w.gpu_uuids
         /\ w.gpu_count >= r.min_gpu_count
         /\ w.total_vram_mb >= r.min_total_vram_mb
         /\ w.max_single_gpu_vram_mb >= r.min_single_gpu_vram_mb
  BY Zenon DEF QueryPredicate
<1>3. /\ w.gpu_count >= r.min_gpu_count <=> ~(w.gpu_count < r.min_gpu_count)
      /\ w.total_vram_mb >= r.min_total_vram_mb <=> ~(w.total_vram_mb < r.min_total_vram_mb)
      /\ w.max_single_gpu_vram_mb >= r.min_single_gpu_vram_mb
           <=> ~(w.max_single_gpu_vram_mb < r.min_single_gpu_vram_mb)
  BY SMT DEF NumbersOf
<1>4. worker_matches(w, r) <=> QueryPredicate(w, r)
  BY <1>1, <1>2, <1>3, Zenon
<1>. QED BY <1>4, Zenon DEF ClaimQuery

\* Every worker and every job that the run looks at has numbers, and the jobs' minima fit
\* a PostgreSQL integer when all amounts do.
MatchInv ==
    /\ NumbersOf(worker, requirements)
    /\ ~CastOverflows(requirements, IntMax)

\* The next job that is looked at is one of the valid ones, or has no requirements.
LEMMA MatchInvHolds ==
  ASSUME IntMax \in Nat, Amounts \subseteq 0 .. IntMax
  PROVE  MCInit /\ [][MCNext]_allVars => []MatchInv
<1>1. \A w \in Workers : /\ w.gpu_count \in Int /\ w.total_vram_mb \in Int
                         /\ w.max_single_gpu_vram_mb \in Int
  BY DEF Workers
<1>2. \A r \in Requirements \cup {Unrestricted} :
          /\ r.min_gpu_count \in 0 .. IntMax /\ r.min_total_vram_mb \in 0 .. IntMax
          /\ r.min_single_gpu_vram_mb \in 0 .. IntMax
  <2>1. \A r \in Requirements : /\ r.min_gpu_count \in Amounts /\ r.min_total_vram_mb \in Amounts
                                /\ r.min_single_gpu_vram_mb \in Amounts
    BY DEF Requirements
  <2>2. /\ Unrestricted.min_gpu_count = 0 /\ Unrestricted.min_total_vram_mb = 0
        /\ Unrestricted.min_single_gpu_vram_mb = 0
    BY DEF Unrestricted
  <2>3. 0 \in 0 .. IntMax
    OBVIOUS
  <2>. QED BY <2>1, <2>2, <2>3, Zenon
<1>3. ASSUME worker \in Workers, requirements \in Requirements \cup {Unrestricted}
      PROVE  MatchInv
  BY <1>1, <1>2, <1>3 DEF MatchInv, NumbersOf, CastOverflows
<1>. DEFINE Chosen == worker \in Workers /\ requirements \in Requirements \cup {Unrestricted}
<1>4. MCInit => Chosen
  <2>1. Workers # {}
    <3>. DEFINE w == [worker_class |-> "large", capabilities |-> {}, labels |-> {},
                      gpu_uuids |-> {}, gpu_count |-> 0, total_vram_mb |-> 0,
                      max_single_gpu_vram_mb |-> 0]
    <3>1. w \in Workers
      BY FS_EmptySet DEF Workers, WorkerSpecValid, ResourceShapeValid, LabelsValid, Labels, GpuSets
    <3>. QED BY <3>1
  <2>. QED BY <2>1 DEF MCInit
<1>5. Chosen /\ [MCNext]_allVars => Chosen'
  BY DEF MCNext, Submit, Settle, allVars
<1>. QED BY <1>3, <1>4, <1>5, PTL

\* As long as every minimum of a job fits a PostgreSQL integer, the claim query and the
\* matcher agree on every worker and job of the run.
THEOREM QueryAgrees ==
  ASSUME IntMax \in Nat, Amounts \subseteq 0 .. IntMax
  PROVE  MCSpec => []QueryAgreesWithMatcher
<1>1. MatchInv => QueryAgreesWithMatcher
  BY ClaimQueryIsMatcher DEF MatchInv, QueryAgreesWithMatcher
<1>. QED BY <1>1, MatchInvHolds, PTL DEF MCSpec

-----------------------------------------------------------------------------
(* The runtime that is started and the plan that was reviewed *)

\* A tuple survives being a JSON array, and None being null.
LEMMA TupleOfList == ASSUME NEW t, [array |-> t] # None PROVE Tuple(List(t)) = t
BY DEF Tuple, List

\* What is in the JSON document under a name.
LEMMA JsonField ==
  ASSUME NEW r, NEW k \in DOMAIN r
  PROVE  json_value(r)[k] = IF k \in TupleFields THEN List(r[k]) ELSE r[k]
BY DEF json_value

\* A configuration is read back from the manifest as it was written.
LEMMA ConfigRoundTrip ==
  ASSUME NEW provider \in Providers, NEW c \in Configs[provider]
  PROVE  read_back(json_value(c)) = c
<1>1. c = [k \in DOMAIN c |-> c[k]]
  BY ConfigsAssumption
<1>2. DOMAIN json_value(c) = DOMAIN c
  BY DEF json_value
<1>3. \A k \in DOMAIN c :
         (IF k \in TupleFields THEN Tuple(json_value(c)[k]) ELSE json_value(c)[k]) = c[k]
  BY JsonField, TupleOfList, ConfigsAssumption
<1>. QED BY <1>1, <1>2, <1>3, Zenon DEF read_back

\* What the manifest and the last start say of the review: there is a choice of the
\* operator that was compatible with the Worker of the review, the manifest holds it, with
\* the intent of that Worker or with none, and the last start was a start of it.
DeploymentInv ==
    /\ facts \in Facts
    /\ manifest # None =>
          \E provider \in Providers, d \in Demands, i \in BOOLEAN : \E c \in Configs[provider] :
             /\ reviewed.facts \in Facts
             /\ compatible(evaluate_provider(provider, reviewed.facts, d, c))
             /\ reviewed.command = Shown(provider, reviewed.facts, d, c)
             /\ manifest = deployment_spec(provider, d, c,
                    IF i THEN setup_intent(provider, reviewed.facts, d, c) ELSE None)
    /\ launched # None =>
          manifest # None /\ launched = managed_runtime_from_deployment(manifest, facts)

\* A review is made once, a start happens on the manifest as it is, and a Worker that
\* changes is stopped.
LEMMA DeploymentInvHolds == Spec => []DeploymentInv
<1>1. Init => DeploymentInv
  BY DEF Init, DeploymentInv
<1>2. ASSUME DeploymentInv, [Next]_vars PROVE DeploymentInv'
  <2>1. CASE UNCHANGED vars
    BY <1>2, <2>1 DEF DeploymentInv, vars
  <2>2. ASSUME manifest = None, NEW provider \in Providers, NEW d \in Demands,
               NEW i \in BOOLEAN, NEW c \in Configs[provider], Review(provider, c, d, i)
        PROVE  DeploymentInv'
    <3>1. /\ facts' = facts /\ launched' = launched
          /\ manifest' = deployment_spec(provider, d, c,
                             IF i THEN setup_intent(provider, facts, d, c) ELSE None)
          /\ reviewed' = [facts |-> facts, command |-> Shown(provider, facts, d, c)]
      BY <2>2 DEF Review
    <3>2. reviewed'.facts = facts /\ reviewed'.command = Shown(provider, facts, d, c)
      BY <3>1
    <3>3. compatible(evaluate_provider(provider, facts, d, c))
      BY <2>2 DEF Review, resolve_runtime
    <3>4. launched' = None /\ facts' \in Facts
      BY <1>2, <2>2, <3>1 DEF DeploymentInv
    <3>5. /\ reviewed'.facts \in Facts
          /\ compatible(evaluate_provider(provider, reviewed'.facts, d, c))
          /\ reviewed'.command = Shown(provider, reviewed'.facts, d, c)
          /\ manifest' = deployment_spec(provider, d, c,
                 IF i THEN setup_intent(provider, reviewed'.facts, d, c) ELSE None)
      BY <1>2, <3>1, <3>2, <3>3, Zenon DEF DeploymentInv
    <3>. QED BY <3>4, <3>5, Zenon DEF DeploymentInv
  <2>3. CASE Start
    BY <1>2, <2>3, Zenon DEF Start, DeploymentInv
  <2>4. CASE Change
    BY <1>2, <2>4, Zenon DEF Change, DeploymentInv
  <2>. QED BY <1>2, <2>1, <2>2, <2>3, <2>4 DEF Next
<1>. QED BY <1>1, <1>2, PTL DEF Spec

\* The outcome of a start on the Worker f with the intent of the Worker h and the file
\* that TabbyAPI finds.
Outcome(provider, f, d, c, h, file) ==
    IF \/ ~compatible(compatibility(provider, f, d, c))
       \/ WrongGpus(provider, f, setup_intent(provider, h, d, c))
    THEN Refused
    ELSE [ok |-> TRUE,
          command |-> Command(provider, f, setup_intent(provider, h, d, c), file)]

\* The manifest m holds a choice that was reviewed on the Worker g.
Holds(m, provider, d, c, g) ==
    /\ m.provider_id = provider /\ m.demand = d /\ m.provider_config = json_value(c)
    /\ m.setup_intent \in {setup_intent(provider, g, d, c), None}

\* What a start on the Worker f does with it: the intent is the one of the review if it
\* was persisted, and the one of the present Worker if not.
StartsIt(m, provider, d, c, g, f) ==
    /\ m.setup_intent = None =>
          managed_runtime_from_deployment(m, f) = Outcome(provider, f, d, c, f, {})
    /\ m.setup_intent # None =>
          managed_runtime_from_deployment(m, f) =
             Outcome(provider, f, d, c, g, setup_intent(provider, g, d, c).tabby_config)

\* A start goes by what the manifest holds.
LEMMA StartOf ==
  ASSUME NEW provider \in Providers, NEW d, NEW c \in Configs[provider], NEW g, NEW f,
         NEW m, Holds(m, provider, d, c, g)
  PROVE  StartsIt(m, provider, d, c, g, f)
<1>1. /\ m.provider_id = provider /\ m.demand = d /\ m.provider_config = json_value(c)
      /\ m.setup_intent # None => m.setup_intent = setup_intent(provider, g, d, c)
  BY DEF Holds
<1>2. read_back(m.provider_config) = c /\ ConfigValid(provider, c)
  BY <1>1, ConfigRoundTrip, ConfigsAssumption
<1>3. ASSUME m.setup_intent = None
      PROVE  managed_runtime_from_deployment(m, f) = Outcome(provider, f, d, c, f, {})
  BY <1>1, <1>2, <1>3, Zenon DEF managed_runtime_from_deployment, Outcome
<1>4. ASSUME m.setup_intent # None
      PROVE  managed_runtime_from_deployment(m, f) =
                Outcome(provider, f, d, c, g, setup_intent(provider, g, d, c).tabby_config)
  BY <1>1, <1>2, <1>4, Zenon DEF managed_runtime_from_deployment, Outcome
<1>. QED BY <1>3, <1>4 DEF StartsIt

\* Each provider derives its own policy.
LEMMA PolicyOf ==
  ASSUME NEW f, NEW d, NEW c
  PROVE  /\ launch_policy("ollama", f, d, c) = [sched_spread |-> Multi(d), options |-> c.options]
         /\ launch_policy("llama-cpp", f, d, c) = LlamaPolicy(f, d, c)
         /\ launch_policy("vllm", f, d, c) = VllmPolicy(f, d, c)
         /\ launch_policy("freetoken", f, d, c) = FreeTokenPolicy(f, d, c)
         /\ launch_policy("exllamav3", f, d, c) = ExllamaPolicy(f, d, c)
BY DEF launch_policy

\* What an intent holds of the Worker h that it was made for.
LEMMA IntentFields ==
  ASSUME NEW provider, NEW h, NEW d, NEW c
  PROVE  /\ setup_intent(provider, h, d, c).policy = json_value(launch_policy(provider, h, d, c))
         /\ setup_intent(provider, h, d, c).gpu_uuids = List(h.gpu_uuids)
         /\ setup_intent(provider, h, d, c).tabby_config =
               IF provider = "exllamav3" THEN TabbyConfig(launch_policy(provider, h, d, c)) ELSE {}
BY DEF setup_intent

\* The GPUs that ExLlamaV3 and FreeToken are bound to are in their intent as they were.
LEMMA WrongGpusOf ==
  ASSUME NEW provider \in Providers, NEW f, NEW h \in Facts, NEW d, NEW c
  PROVE  WrongGpus(provider, f, setup_intent(provider, h, d, c)) <=>
            \/ provider = "exllamav3" /\ h.gpu_uuids # f.gpu_uuids
            \/ provider = "freetoken" /\ FreeTokenPolicy(h, d, c).gpu_uuid # f.gpu_uuids[1]
<1>. DEFINE p == FreeTokenPolicy(h, d, c)
<1>1. Tuple(setup_intent(provider, h, d, c).gpu_uuids) = h.gpu_uuids
  BY IntentFields, TupleOfList, FactsAssumption
<1>2. "gpu_uuid" \in DOMAIN p /\ "gpu_uuid" \notin TupleFields
  BY DEF FreeTokenPolicy, TupleFields
<1>3. json_value(p).gpu_uuid = p.gpu_uuid
  BY <1>2, JsonField
<1>4. provider = "freetoken" => setup_intent(provider, h, d, c).policy = json_value(p)
  <2>1. launch_policy("freetoken", h, d, c) = p
    BY PolicyOf, ZenonT(60)
  <2>2. setup_intent(provider, h, d, c).policy = json_value(launch_policy(provider, h, d, c))
    BY IntentFields
  <2>. HIDE DEF p
  <2>. QED BY <2>1, <2>2
<1>. QED BY <1>1, <1>3, <1>4 DEF WrongGpus

\* llama.cpp is started with the policy of the Worker the intent was made for.
LEMMA LlamaStart ==
  ASSUME NEW f, NEW h, NEW d, NEW c \in Configs["llama-cpp"], NEW file
  PROVE  Command("llama-cpp", f, setup_intent("llama-cpp", h, d, c), file) =
            LlamaCommand(f.gpu_uuids, LlamaPolicy(h, d, c))
<1>. DEFINE p == LlamaPolicy(h, d, c)
            j == json_value(p)
<1>1. setup_intent("llama-cpp", h, d, c).policy = j
  <2>1. launch_policy("llama-cpp", h, d, c) = p
    BY PolicyOf, ZenonT(60)
  <2>2. setup_intent("llama-cpp", h, d, c).policy = json_value(launch_policy("llama-cpp", h, d, c))
    BY IntentFields
  <2>. HIDE DEF p
  <2>. QED BY <2>1, <2>2
<1>2. /\ p.tensor_split = c.tensor_split /\ p.fit_target_mb = c.fit_target_mb
      /\ \A k \in {"gpu_layers", "split_mode", "fit", "main_gpu", "cpu_moe", "n_cpu_moe",
                   "n_cpu_ffn", "options"} : k \in DOMAIN p /\ k \notin TupleFields
      /\ \A k \in {"tensor_split", "fit_target_mb"} : k \in DOMAIN p /\ k \in TupleFields
  BY DEF LlamaPolicy, TupleFields
<1>3. /\ j.gpu_layers = p.gpu_layers /\ j.split_mode = p.split_mode /\ j.fit = p.fit
      /\ j.main_gpu = p.main_gpu /\ j.cpu_moe = p.cpu_moe /\ j.n_cpu_moe = p.n_cpu_moe
      /\ j.n_cpu_ffn = p.n_cpu_ffn /\ j.options = p.options
      /\ j.tensor_split = List(p.tensor_split) /\ j.fit_target_mb = List(p.fit_target_mb)
  <2>. HIDE DEF p
  <2>. QED BY <1>2, JsonField, Zenon
<1>4. [array |-> c.tensor_split] # None /\ [array |-> c.fit_target_mb] # None
  <2>1. /\ \A k \in DOMAIN c \cap TupleFields : [array |-> c[k]] # None
        /\ {"tensor_split", "fit_target_mb"} \subseteq DOMAIN c
    BY ConfigsAssumption DEF Providers
  <2>. QED BY <2>1 DEF TupleFields
<1>5. Tuple(j.tensor_split) = p.tensor_split /\ Tuple(j.fit_target_mb) = p.fit_target_mb
  BY <1>2, <1>3, <1>4, TupleOfList
<1>6. LlamaFrozen(j) = p
  <2>1. LlamaFrozen(j) =
          [gpu_layers |-> p.gpu_layers, split_mode |-> p.split_mode, fit |-> p.fit,
           tensor_split |-> p.tensor_split, fit_target_mb |-> p.fit_target_mb,
           main_gpu |-> p.main_gpu, cpu_moe |-> p.cpu_moe, n_cpu_moe |-> p.n_cpu_moe,
           n_cpu_ffn |-> p.n_cpu_ffn, options |-> p.options]
    <3>. HIDE DEF p, j
    <3>. QED BY <1>3, <1>5, Zenon DEF LlamaFrozen
  <2>2. @ = p
    BY DEF LlamaPolicy
  <2>. QED BY <2>1, <2>2
<1>. QED BY <1>1, <1>6, Zenon DEF Command

\* vLLM is started with the policy of the Worker the intent was made for.
LEMMA VllmStart ==
  ASSUME NEW f, NEW h, NEW d, NEW c, NEW file
  PROVE  Command("vllm", f, setup_intent("vllm", h, d, c), file) =
            VllmCommand(f.gpu_uuids, VllmPolicy(h, d, c))
<1>. DEFINE p == VllmPolicy(h, d, c)
            j == json_value(p)
<1>1. setup_intent("vllm", h, d, c).policy = j
  <2>1. launch_policy("vllm", h, d, c) = p
    BY PolicyOf, ZenonT(60)
  <2>2. setup_intent("vllm", h, d, c).policy = json_value(launch_policy("vllm", h, d, c))
    BY IntentFields
  <2>. HIDE DEF p
  <2>. QED BY <2>1, <2>2
<1>2. \A k \in {"tensor_parallel_size", "enable_expert_parallel", "gpu_memory_utilization",
                "cpu_offload_gb", "options"} : k \in DOMAIN p /\ k \notin TupleFields
  BY DEF VllmPolicy, TupleFields
<1>3. /\ j.tensor_parallel_size = p.tensor_parallel_size
      /\ j.enable_expert_parallel = p.enable_expert_parallel
      /\ j.gpu_memory_utilization = p.gpu_memory_utilization
      /\ j.cpu_offload_gb = p.cpu_offload_gb /\ j.options = p.options
  <2>. HIDE DEF p
  <2>. QED BY <1>2, JsonField, Zenon
<1>4. VllmFrozen(j) = p
  <2>1. VllmFrozen(j) =
          [tensor_parallel_size |-> p.tensor_parallel_size,
           enable_expert_parallel |-> p.enable_expert_parallel,
           gpu_memory_utilization |-> p.gpu_memory_utilization,
           cpu_offload_gb |-> p.cpu_offload_gb, options |-> p.options]
    <3>. HIDE DEF p, j
    <3>. QED BY <1>3, Zenon DEF VllmFrozen
  <2>2. @ = p
    BY DEF VllmPolicy
  <2>. QED BY <2>1, <2>2
<1>. QED BY <1>1, <1>4, Zenon DEF Command

\* FreeToken is started on the Worker's GPU with the settings of the operator.
LEMMA FreeTokenStart ==
  ASSUME NEW f, NEW h, NEW d, NEW c, NEW file
  PROVE  Command("freetoken", f, setup_intent("freetoken", h, d, c), file) =
            FreeTokenCommand([gpu_uuid |-> f.gpu_uuids[1], moe_strategy |-> c.moe_strategy,
                              moe_cache_size |-> c.moe_cache_size,
                              moe_cache_rate |-> c.moe_cache_rate,
                              moe_hybrid_max_fetch |-> c.moe_hybrid_max_fetch,
                              options |-> c.options])
<1>. DEFINE p == FreeTokenPolicy(h, d, c)
            j == json_value(p)
<1>1. setup_intent("freetoken", h, d, c).policy = j
  <2>1. launch_policy("freetoken", h, d, c) = p
    BY PolicyOf, ZenonT(60)
  <2>2. setup_intent("freetoken", h, d, c).policy = json_value(launch_policy("freetoken", h, d, c))
    BY IntentFields
  <2>. HIDE DEF p
  <2>. QED BY <2>1, <2>2
<1>2. /\ \A k \in {"moe_strategy", "moe_cache_size", "moe_cache_rate", "moe_hybrid_max_fetch",
                   "options"} : k \in DOMAIN p /\ k \notin TupleFields
      /\ p.moe_strategy = c.moe_strategy /\ p.moe_cache_size = c.moe_cache_size
      /\ p.moe_cache_rate = c.moe_cache_rate /\ p.options = c.options
      /\ p.moe_hybrid_max_fetch = c.moe_hybrid_max_fetch
  BY DEF FreeTokenPolicy, TupleFields
<1>3. /\ j.moe_strategy = c.moe_strategy /\ j.moe_cache_size = c.moe_cache_size
      /\ j.moe_cache_rate = c.moe_cache_rate /\ j.options = c.options
      /\ j.moe_hybrid_max_fetch = c.moe_hybrid_max_fetch
  <2>. HIDE DEF p
  <2>. QED BY <1>2, JsonField, Zenon
<1>. HIDE DEF j
<1>4. FreeTokenFrozen(f, j) =
         [gpu_uuid |-> f.gpu_uuids[1], moe_strategy |-> c.moe_strategy,
          moe_cache_size |-> c.moe_cache_size, moe_cache_rate |-> c.moe_cache_rate,
          moe_hybrid_max_fetch |-> c.moe_hybrid_max_fetch, options |-> c.options]
  BY <1>3, Zenon DEF FreeTokenFrozen
<1>. QED BY <1>1, <1>4, Zenon DEF Command

\* Ollama is started with the settings of the operator, spread or not by the demand.
LEMMA OllamaStart ==
  ASSUME NEW f, NEW h, NEW d, NEW c, NEW file
  PROVE  Command("ollama", f, setup_intent("ollama", h, d, c), file) =
            OllamaCommand(f.gpu_uuids, [sched_spread |-> Multi(d), options |-> c.options])
<1>. DEFINE p == [sched_spread |-> Multi(d), options |-> c.options]
            j == json_value(p)
<1>1. setup_intent("ollama", h, d, c).policy = j
  <2>1. launch_policy("ollama", h, d, c) = p
    BY PolicyOf
  <2>2. setup_intent("ollama", h, d, c).policy = json_value(launch_policy("ollama", h, d, c))
    BY IntentFields
  <2>. HIDE DEF p
  <2>. QED BY <2>1, <2>2
<1>2. \A k \in {"sched_spread", "options"} : k \in DOMAIN p /\ k \notin TupleFields
  BY DEF TupleFields
<1>3. j.sched_spread = p.sched_spread /\ j.options = p.options
  <2>. HIDE DEF p
  <2>. QED BY <1>2, JsonField, Zenon
<1>4. OllamaCommand(f.gpu_uuids, j) = OllamaCommand(f.gpu_uuids, p)
  <2>. HIDE DEF p, j
  <2>. QED BY <1>3, Zenon DEF OllamaCommand
<1>5. Command("ollama", f, setup_intent("ollama", h, d, c), file) = OllamaCommand(f.gpu_uuids, j)
  <2>. HIDE DEF j
  <2>. QED BY <1>1 DEF Command
<1>. QED BY <1>4, <1>5

\* TabbyAPI is started on its file, and the file is the one of the intent.
LEMMA ExllamaStart ==
  ASSUME NEW f, NEW h, NEW d, NEW c, NEW file
  PROVE  /\ Command("exllamav3", f, setup_intent("exllamav3", h, d, c), file) =
               file \cup {<<"CUDA_VISIBLE_DEVICES", f.gpu_uuids>>}
         /\ setup_intent("exllamav3", h, d, c).tabby_config = TabbyConfig(ExllamaPolicy(h, d, c))
<1>1. setup_intent("exllamav3", h, d, c).tabby_config
        = TabbyConfig(launch_policy("exllamav3", h, d, c))
  BY IntentFields
<1>2. launch_policy("exllamav3", h, d, c) = ExllamaPolicy(h, d, c)
  BY PolicyOf, Zenon
<1>3. Command("exllamav3", f, setup_intent("exllamav3", h, d, c), file) =
               file \cup {<<"CUDA_VISIBLE_DEVICES", f.gpu_uuids>>}
  BY DEF Command
<1>. QED BY <1>1, <1>2, <1>3, Zenon

\* A reason that blocks is given only against what is not compatible.
LEMMA NotBlocked ==
  ASSUME NEW reasons, NEW condition \in BOOLEAN, NEW code,
         compatible(reasons), Blocks(condition, code) \subseteq reasons
  PROVE  ~condition
BY DEF compatible, Blocks

\* What FreeToken, llama.cpp, vLLM, ExLlamaV3 and Ollama have made sure of when they have
\* no objection: the part of it that the command depends on.
LEMMA FreeTokenFits ==
  ASSUME NEW f, NEW d, NEW c, compatible(FreeTokenReasons(f, d, c))
  PROVE  Single(d) /\ gpu_count(f) = 1 /\ ~Vram(d)
<1>1. /\ Blocks(~Single(d) \/ gpu_count(f) # 1, "single-gpu-required")
            \subseteq FreeTokenReasons(f, d, c)
      /\ Blocks(Vram(d), "vram-only-unsupported") \subseteq FreeTokenReasons(f, d, c)
  BY Zenon DEF FreeTokenReasons
<1>2. Vram(d) \in BOOLEAN /\ Single(d) \in BOOLEAN
  BY DEF Vram, Single
<1>. QED BY <1>1, <1>2, NotBlocked

\* The rules of llama.cpp.
LEMMA LlamaFits ==
  ASSUME NEW f, NEW d, NEW c, compatible(LlamaReasons(f, d, c))
  PROVE  LET p == LlamaPolicy(f, d, c) IN
         /\ Vram(d) => /\ p.gpu_layers = "all" /\ ~p.fit /\ ~p.cpu_moe
                       /\ p.n_cpu_moe \in {None, "0"} /\ p.n_cpu_ffn \in {None, "0"}
         /\ p.tensor_split # None => Multi(d) /\ Len(p.tensor_split) = gpu_count(f)
<1>. DEFINE p == LlamaPolicy(f, d, c)
<1>1. /\ LlamaVramReasons(f, d, p) \subseteq LlamaReasons(f, d, c)
      /\ LlamaSplitReasons(f, d, p) \subseteq LlamaReasons(f, d, c)
  BY Zenon DEF LlamaReasons
<1>2. compatible(LlamaVramReasons(f, d, p)) /\ compatible(LlamaSplitReasons(f, d, p))
  BY <1>1 DEF compatible
<1>. HIDE DEF p
<1>3. ASSUME Vram(d)
      PROVE  /\ p.gpu_layers = "all" /\ ~p.fit /\ ~p.cpu_moe
             /\ p.n_cpu_moe \in {None, "0"} /\ p.n_cpu_ffn \in {None, "0"}
  <2>1. /\ Blocks(p.gpu_layers # "all" \/ p.fit, "vram-only-policy-overridden")
              \subseteq LlamaVramReasons(f, d, p)
        /\ Blocks(p.cpu_moe \/ p.n_cpu_moe \notin {None, "0"} \/ p.n_cpu_ffn \notin {None, "0"},
                  "cpu-offload-conflicts-with-vram-only") \subseteq LlamaVramReasons(f, d, p)
    BY <1>3, Zenon DEF LlamaVramReasons
  <2>2. ~(p.gpu_layers # "all" \/ p.fit)
    BY <1>2, <2>1, NotBlocked
  <2>3. ~(p.cpu_moe \/ p.n_cpu_moe \notin {None, "0"} \/ p.n_cpu_ffn \notin {None, "0"})
    BY <1>2, <2>1, NotBlocked
  <2>. QED BY <2>2, <2>3
<1>4. ASSUME p.tensor_split # None
      PROVE  Multi(d) /\ Len(p.tensor_split) = gpu_count(f)
  <2>1. Blocks(~Multi(d) /\ p.tensor_split # None, "tensor-split-requires-multi-gpu")
              \subseteq LlamaSplitReasons(f, d, p)
    BY Zenon DEF LlamaSplitReasons
  <2>2. ~(~Multi(d) /\ p.tensor_split # None)
    BY <1>2, <2>1, NotBlocked
  <2>3. Multi(d)
    BY <1>4, <2>2
  <2>4. Blocks(p.tensor_split # None /\ Len(p.tensor_split) # gpu_count(f),
               "tensor-split-length-mismatch") \subseteq LlamaSplitReasons(f, d, p)
    BY <2>3, Zenon DEF LlamaSplitReasons
  <2>5. ~(p.tensor_split # None /\ Len(p.tensor_split) # gpu_count(f))
    BY <1>2, <2>4, NotBlocked
  <2>. QED BY <1>4, <2>3, <2>5
<1>. QED BY <1>3, <1>4 DEF p

\* The rules of vLLM.
LEMMA VllmFits ==
  ASSUME NEW f, NEW d, NEW c, compatible(VllmReasons(f, d, c))
  PROVE  LET p == VllmPolicy(f, d, c) IN
         /\ Vram(d) => ~(p.cpu_offload_gb > 0)
         /\ Multi(d) => p.tensor_parallel_size = gpu_count(f)
<1>. DEFINE p == VllmPolicy(f, d, c)
<1>1. /\ VllmParallelReasons(f, d, p) \subseteq VllmReasons(f, d, c)
      /\ VllmMemoryReasons(f, d, p) \subseteq VllmReasons(f, d, c)
  BY Zenon DEF VllmReasons
<1>2. compatible(VllmParallelReasons(f, d, p)) /\ compatible(VllmMemoryReasons(f, d, p))
  BY <1>1 DEF compatible
<1>. HIDE DEF p
<1>3. /\ Blocks(\/ Single(d) /\ p.tensor_parallel_size # 1
                \/ Multi(d) /\ p.tensor_parallel_size # gpu_count(f),
                "tensor-parallel-size-mismatch") \subseteq VllmParallelReasons(f, d, p)
      /\ Blocks(Vram(d) /\ p.cpu_offload_gb > 0, "cpu-offload-conflicts-with-vram-only")
                \subseteq VllmMemoryReasons(f, d, p)
  BY Zenon DEF VllmParallelReasons, VllmMemoryReasons
<1>4. ~(\/ Single(d) /\ p.tensor_parallel_size # 1
        \/ Multi(d) /\ p.tensor_parallel_size # gpu_count(f))
  BY <1>2, <1>3, NotBlocked
<1>5. ~(Vram(d) /\ p.cpu_offload_gb > 0)
  BY <1>2, <1>3, NotBlocked
<1>. QED BY <1>4, <1>5, Zenon DEF p

\* The rules of ExLlamaV3.
LEMMA ExllamaFits ==
  ASSUME NEW f, NEW d \in Demands, NEW c, compatible(ExllamaReasons(f, d, c))
  PROVE  /\ gpu_count(f) # 0
         /\ c.gpu_split # None => Len(c.gpu_split) = gpu_count(f)
         /\ c.autosplit_reserve_mb # None => Len(c.autosplit_reserve_mb) = gpu_count(f)
<1>. DEFINE p == ExllamaPolicy(f, d, c)
            R == ExllamaGpuReasons(f, d, p)
<1>1. R \subseteq ExllamaReasons(f, d, c)
  BY Zenon DEF ExllamaReasons
<1>2. compatible(R)
  BY <1>1 DEF compatible
<1>3. p.gpu_split = c.gpu_split /\ p.autosplit_reserve_mb = c.autosplit_reserve_mb
  BY DEF ExllamaPolicy
<1>. HIDE DEF p
<1>4. /\ Blocks(d.gpu_topology = "none" \/ gpu_count(f) = 0, "gpu-required") \subseteq R
      /\ Blocks(Single(d) /\ p.gpu_split # None, "gpu-split-requires-multi-gpu") \subseteq R
      /\ Blocks(p.autosplit_reserve_mb # None /\ Len(p.autosplit_reserve_mb) # gpu_count(f),
                "autosplit-reserve-length-mismatch") \subseteq R
      /\ Blocks(Multi(d) /\ p.gpu_split # None /\ Len(p.gpu_split) # gpu_count(f),
                "gpu-split-length-mismatch") \subseteq R
  BY Zenon DEF ExllamaGpuReasons
<1>. HIDE DEF R
<1>5. ~(d.gpu_topology = "none" \/ gpu_count(f) = 0)
  BY <1>2, <1>4, NotBlocked
<1>6. ~(Single(d) /\ p.gpu_split # None)
  BY <1>2, <1>4, NotBlocked
<1>7. ~(p.autosplit_reserve_mb # None /\ Len(p.autosplit_reserve_mb) # gpu_count(f))
  BY <1>2, <1>4, NotBlocked
<1>8. ~(Multi(d) /\ p.gpu_split # None /\ Len(p.gpu_split) # gpu_count(f))
  BY <1>2, <1>4, NotBlocked
<1>9. Single(d) \/ Multi(d)
  BY <1>5, DemandsAssumption DEF Single, Multi
<1>. QED BY <1>3, <1>5, <1>6, <1>7, <1>8, <1>9, Zenon

\* The rules of Ollama: a model has a size, and a Worker without GPUs has no VRAM for it.
LEMMA OllamaFits ==
  ASSUME NEW f \in Facts, NEW d \in Demands, compatible(OllamaReasons(f, d)), Vram(d)
  PROVE  f.gpu_uuids # <<>>
<1>1. /\ Blocks(Vram(d) /\ d.estimated_size_mb = None, "model-size-required-for-vram-only")
           \subseteq OllamaReasons(f, d)
      /\ Blocks(Vram(d) /\ Larger(d, f.total_vram_mb), "model-exceeds-total-vram")
           \subseteq OllamaReasons(f, d)
  BY Zenon DEF OllamaReasons
<1>2. ~(Vram(d) /\ d.estimated_size_mb = None)
  BY <1>1, NotBlocked
<1>3. ~(Vram(d) /\ Larger(d, f.total_vram_mb))
  BY <1>1, NotBlocked
<1>4. /\ d.estimated_size_mb # None /\ d.estimated_size_mb \in Nat /\ d.estimated_size_mb > 0
      /\ ~(d.estimated_size_mb > f.total_vram_mb)
  BY <1>2, <1>3, DemandsAssumption DEF Larger, DemandValid
<1>5. f.gpu_uuids = <<>> => f.total_vram_mb = 0
  BY FactsAssumption
<1>. QED BY <1>4, <1>5

\* Each provider is asked for its own reasons.
LEMMA CompatibilityOf ==
  ASSUME NEW f, NEW d, NEW c
  PROVE  /\ compatibility("ollama", f, d, c) = OllamaReasons(f, d)
         /\ compatibility("llama-cpp", f, d, c) = LlamaReasons(f, d, c)
         /\ compatibility("vllm", f, d, c) = VllmReasons(f, d, c)
         /\ compatibility("freetoken", f, d, c) = FreeTokenReasons(f, d, c)
         /\ compatibility("exllamav3", f, d, c) = ExllamaReasons(f, d, c)
BY DEF compatibility

\* What a plan shows is shown with the provider's own command line.
LEMMA ShownOf ==
  ASSUME NEW f, NEW d, NEW c
  PROVE  /\ Shown("ollama", f, d, c) =
               OllamaCommand(f.gpu_uuids, [sched_spread |-> Multi(d), options |-> c.options])
         /\ Shown("llama-cpp", f, d, c) = LlamaCommand(f.gpu_uuids, LlamaPolicy(f, d, c))
         /\ Shown("vllm", f, d, c) = VllmCommand(f.gpu_uuids, VllmPolicy(f, d, c))
         /\ Shown("freetoken", f, d, c) = FreeTokenCommand(FreeTokenPolicy(f, d, c))
         /\ Shown("exllamav3", f, d, c) = TabbyConfig(ExllamaPolicy(f, d, c))
                                            \cup {<<"CUDA_VISIBLE_DEVICES", f.gpu_uuids>>}
<1>1. /\ Shown("ollama", f, d, c) = OllamaCommand(f.gpu_uuids, launch_policy("ollama", f, d, c))
      /\ Shown("llama-cpp", f, d, c)
            = LlamaCommand(f.gpu_uuids, launch_policy("llama-cpp", f, d, c))
      /\ Shown("vllm", f, d, c) = VllmCommand(f.gpu_uuids, launch_policy("vllm", f, d, c))
      /\ Shown("freetoken", f, d, c) = FreeTokenCommand(launch_policy("freetoken", f, d, c))
      /\ Shown("exllamav3", f, d, c) = TabbyConfig(launch_policy("exllamav3", f, d, c))
                                         \cup {<<"CUDA_VISIBLE_DEVICES", f.gpu_uuids>>}
  BY DEF Shown
<1>2. launch_policy("ollama", f, d, c) = [sched_spread |-> Multi(d), options |-> c.options]
  BY PolicyOf
<1>3. /\ launch_policy("llama-cpp", f, d, c) = LlamaPolicy(f, d, c)
      /\ launch_policy("vllm", f, d, c) = VllmPolicy(f, d, c)
      /\ launch_policy("freetoken", f, d, c) = FreeTokenPolicy(f, d, c)
      /\ launch_policy("exllamav3", f, d, c) = ExllamaPolicy(f, d, c)
  BY PolicyOf
<1>. QED BY <1>1, <1>2, <1>3, Zenon

\* On the Worker of the review a provider starts exactly what the plan showed; ExLlamaV3
\* does so when the file that TabbyAPI reads was written from the intent.
LEMMA StartsWhatWasShown ==
  ASSUME NEW provider \in Providers, NEW f \in Facts, NEW d, NEW c \in Configs[provider],
         NEW file, compatible(compatibility(provider, f, d, c)),
         provider = "exllamav3" => file = setup_intent(provider, f, d, c).tabby_config
  PROVE  /\ ~WrongGpus(provider, f, setup_intent(provider, f, d, c))
         /\ Command(provider, f, setup_intent(provider, f, d, c), file)
               = Shown(provider, f, d, c)
<1>1. ASSUME provider = "freetoken"
      PROVE  FreeTokenPolicy(f, d, c) =
                [gpu_uuid |-> f.gpu_uuids[1], moe_strategy |-> c.moe_strategy,
                 moe_cache_size |-> c.moe_cache_size, moe_cache_rate |-> c.moe_cache_rate,
                 moe_hybrid_max_fetch |-> c.moe_hybrid_max_fetch, options |-> c.options]
  <2>1. compatibility("freetoken", f, d, c) = FreeTokenReasons(f, d, c)
    BY CompatibilityOf
  <2>2. gpu_count(f) = 1
    BY <1>1, <2>1, FreeTokenFits
  <2>. QED BY <2>2, Zenon DEF FreeTokenPolicy
<1>2. ~WrongGpus(provider, f, setup_intent(provider, f, d, c))
  <2>1. provider = "freetoken" => FreeTokenPolicy(f, d, c).gpu_uuid = f.gpu_uuids[1]
    BY <1>1
  <2>. QED BY <2>1, WrongGpusOf
<1>3. CASE provider = "ollama"
  <2>1. Command("ollama", f, setup_intent("ollama", f, d, c), file) =
            OllamaCommand(f.gpu_uuids, [sched_spread |-> Multi(d), options |-> c.options])
    BY OllamaStart
  <2>2. Shown("ollama", f, d, c) =
            OllamaCommand(f.gpu_uuids, [sched_spread |-> Multi(d), options |-> c.options])
    BY ShownOf
  <2>. QED BY <1>2, <1>3, <2>1, <2>2, Zenon
<1>4. CASE provider = "llama-cpp"
  <2>1. Command("llama-cpp", f, setup_intent("llama-cpp", f, d, c), file) =
            LlamaCommand(f.gpu_uuids, LlamaPolicy(f, d, c))
    BY <1>4, LlamaStart
  <2>2. Shown("llama-cpp", f, d, c) = LlamaCommand(f.gpu_uuids, LlamaPolicy(f, d, c))
    BY ShownOf
  <2>. QED BY <1>2, <1>4, <2>1, <2>2, Zenon
<1>5. CASE provider = "vllm"
  <2>1. Command("vllm", f, setup_intent("vllm", f, d, c), file) =
            VllmCommand(f.gpu_uuids, VllmPolicy(f, d, c))
    BY VllmStart
  <2>2. Shown("vllm", f, d, c) = VllmCommand(f.gpu_uuids, VllmPolicy(f, d, c))
    BY ShownOf
  <2>. QED BY <1>2, <1>5, <2>1, <2>2, Zenon
<1>6. CASE provider = "freetoken"
  <2>1. Command("freetoken", f, setup_intent("freetoken", f, d, c), file)
            = FreeTokenCommand(FreeTokenPolicy(f, d, c))
    <3>1. Command("freetoken", f, setup_intent("freetoken", f, d, c), file) =
            FreeTokenCommand([gpu_uuid |-> f.gpu_uuids[1], moe_strategy |-> c.moe_strategy,
                              moe_cache_size |-> c.moe_cache_size,
                              moe_cache_rate |-> c.moe_cache_rate,
                              moe_hybrid_max_fetch |-> c.moe_hybrid_max_fetch,
                              options |-> c.options])
      BY FreeTokenStart
    <3>. QED BY <1>1, <1>6, <3>1, Zenon
  <2>2. Shown("freetoken", f, d, c) = FreeTokenCommand(FreeTokenPolicy(f, d, c))
    BY ShownOf
  <2>. QED BY <1>2, <1>6, <2>1, <2>2, Zenon
<1>7. CASE provider = "exllamav3"
  <2>1. Command("exllamav3", f, setup_intent("exllamav3", f, d, c), file)
            = file \cup {<<"CUDA_VISIBLE_DEVICES", f.gpu_uuids>>}
    BY ExllamaStart
  <2>2. file = TabbyConfig(ExllamaPolicy(f, d, c))
    BY <1>7, ExllamaStart
  <2>3. Shown("exllamav3", f, d, c) = TabbyConfig(ExllamaPolicy(f, d, c))
                                         \cup {<<"CUDA_VISIBLE_DEVICES", f.gpu_uuids>>}
    BY ShownOf
  <2>. QED BY <1>2, <1>7, <2>1, <2>2, <2>3, Zenon
<1>. QED BY <1>3, <1>4, <1>5, <1>6, <1>7 DEF Providers

\* For every Worker, demand and configuration: as long as the Worker is what it was at the
\* review, its service starts, and starts the command that the operator was shown,
\* whether the intent was persisted or is derived anew.
THEOREM StartsAsReviewed == Spec => []LaunchedAsReviewed
<1>1. ASSUME DeploymentInv, launched # None, facts = reviewed.facts
      PROVE  /\ launched.ok
             /\ \/ launched.command = reviewed.command
                \/ manifest.provider_id = "exllamav3" /\ manifest.setup_intent = None
  <2>1. manifest # None /\ launched = managed_runtime_from_deployment(manifest, facts)
    BY <1>1 DEF DeploymentInv
  <2>0. PICK provider \in Providers, d \in Demands, i \in BOOLEAN : \E c \in Configs[provider] :
             /\ compatible(evaluate_provider(provider, facts, d, c))
             /\ reviewed.command = Shown(provider, facts, d, c)
             /\ manifest = deployment_spec(provider, d, c,
                    IF i THEN setup_intent(provider, facts, d, c) ELSE None)
    BY <1>1, <2>1, Zenon DEF DeploymentInv
  <2>2. PICK c \in Configs[provider] :
             /\ compatible(evaluate_provider(provider, facts, d, c))
             /\ reviewed.command = Shown(provider, facts, d, c)
             /\ manifest = deployment_spec(provider, d, c,
                    IF i THEN setup_intent(provider, facts, d, c) ELSE None)
    BY <2>0
  <2>3. compatible(compatibility(provider, facts, d, c)) /\ facts \in Facts
    BY <1>1, <2>2 DEF compatible, evaluate_provider, DeploymentInv
  <2>4. /\ manifest.provider_id = provider
        /\ manifest.setup_intent = None =>
              launched = Outcome(provider, facts, d, c, facts, {})
        /\ manifest.setup_intent # None =>
              launched =
                 Outcome(provider, facts, d, c, facts, setup_intent(provider, facts, d, c).tabby_config)
    <3>1. Holds(manifest, provider, d, c, facts)
      BY <2>2 DEF Holds, deployment_spec
    <3>2. StartsIt(manifest, provider, d, c, facts, facts)
      BY <3>1, StartOf, Zenon
    <3>. QED BY <2>1, <3>1, <3>2 DEF Holds, StartsIt
  <2>. DEFINE intent == setup_intent(provider, facts, d, c)
  <2>5. /\ ~WrongGpus(provider, facts, intent)
        /\ provider # "exllamav3" => Command(provider, facts, intent, {}) = reviewed.command
        /\ Command(provider, facts, intent, intent.tabby_config) = reviewed.command
    BY <2>2, <2>3, StartsWhatWasShown
  <2>6. CASE manifest.setup_intent = None
    <3>1. launched = [ok |-> TRUE, command |-> Command(provider, facts, intent, {})]
      BY <2>3, <2>4, <2>5, <2>6, Zenon DEF Outcome
    <3>2. launched.ok /\ launched.command = Command(provider, facts, intent, {})
      BY <3>1
    <3>. QED BY <2>4, <2>5, <2>6, <3>2, Zenon
  <2>7. CASE manifest.setup_intent # None
    <3>1. launched = [ok |-> TRUE,
                      command |-> Command(provider, facts, intent, intent.tabby_config)]
      BY <2>3, <2>4, <2>5, <2>7, Zenon DEF Outcome
    <3>2. launched.ok /\ launched.command = Command(provider, facts, intent, intent.tabby_config)
      BY <3>1
    <3>. QED BY <2>5, <3>2, Zenon
  <2>. QED BY <2>6, <2>7
<1>2. DeploymentInv => LaunchedAsReviewed
  BY <1>1 DEF LaunchedAsReviewed
<1>. QED BY <1>2, DeploymentInvHolds, PTL

\* A setting with its value, and the values that a command gives to a setting.
Pair(name, value) == <<name, value>>
First(a) == a[1]
Second(a) == a[2]
IsPair(a) == \E n, v : a = Pair(n, v)
Settings(command, name) == {a[2] : a \in {b \in command : b[1] = name}}

\* A pair is its two parts.
LEMMA Pairs ==
  /\ \A n, v : First(Pair(n, v)) = n /\ Second(Pair(n, v)) = v
  /\ \A m, v, n, x : Pair(m, v) = Pair(n, x) <=> m = n /\ v = x
BY DEF Pair, First, Second

\* A value is given to a setting when the pair of both is in the command.
LEMMA SettingsOf ==
  ASSUME NEW command, \A a \in command : IsPair(a)
  PROVE  \A name, x : x \in Settings(command, name) <=> Pair(name, x) \in command
<1>1. \A name, x : x \in Settings(command, name) <=>
                      \E a \in command : First(a) = name /\ Second(a) = x
  BY Zenon DEF Settings, First, Second
<1>2. \A a \in command : a = Pair(First(a), Second(a))
  BY Pairs DEF IsPair
<1>. QED BY <1>1, <1>2, Pairs, SMT

\* What `llama-server` is given.
LlamaGives(gpus, p, name, x) ==
    \/ name = "--n-gpu-layers" /\ x = p.gpu_layers
    \/ name = "--fit" /\ x = p.fit
    \/ name = "options" /\ x = p.options
    \/ gpus # <<>> /\ name = "CUDA_VISIBLE_DEVICES" /\ x = gpus
    \/ gpus # <<>> /\ name = "--split-mode" /\ x = p.split_mode
    \/ gpus # <<>> /\ p.split_mode \in {"none", "row"} /\ name = "--main-gpu" /\ x = p.main_gpu
    \/ gpus # <<>> /\ p.tensor_split # None /\ name = "--tensor-split" /\ x = p.tensor_split
    \/ gpus # <<>> /\ p.fit_target_mb # None /\ name = "--fit-target" /\ x = p.fit_target_mb
    \/ p.cpu_moe /\ name = "--cpu-moe" /\ x = TRUE
    \/ p.n_cpu_moe # None /\ name = "--n-cpu-moe" /\ x = p.n_cpu_moe
    \/ p.n_cpu_ffn # None /\ name = "--n-cpu-ffn" /\ x = p.n_cpu_ffn

\* That is what its command holds.
LEMMA LlamaSettings ==
  ASSUME NEW gpus, NEW p
  PROVE  \A name, x : x \in Settings(LlamaCommand(gpus, p), name) <=> LlamaGives(gpus, p, name, x)
<1>. DEFINE command == LlamaCommand(gpus, p)
<1>1. \A a : a \in command <=>
          \/ a = Pair("--n-gpu-layers", p.gpu_layers)
          \/ a = Pair("--fit", p.fit)
          \/ a = Pair("options", p.options)
          \/ gpus # <<>> /\ a = Pair("CUDA_VISIBLE_DEVICES", gpus)
          \/ gpus # <<>> /\ a = Pair("--split-mode", p.split_mode)
          \/ gpus # <<>> /\ p.split_mode \in {"none", "row"} /\ a = Pair("--main-gpu", p.main_gpu)
          \/ gpus # <<>> /\ p.tensor_split # None /\ a = Pair("--tensor-split", p.tensor_split)
          \/ gpus # <<>> /\ p.fit_target_mb # None /\ a = Pair("--fit-target", p.fit_target_mb)
          \/ p.cpu_moe /\ a = Pair("--cpu-moe", TRUE)
          \/ p.n_cpu_moe # None /\ a = Pair("--n-cpu-moe", p.n_cpu_moe)
          \/ p.n_cpu_ffn # None /\ a = Pair("--n-cpu-ffn", p.n_cpu_ffn)
  BY Zenon DEF LlamaCommand, Flag, Pair
<1>. HIDE DEF command
<1>2. \A a \in command : IsPair(a)
  BY <1>1, Zenon DEF IsPair
<1>3. \A name, x : x \in Settings(command, name) <=> Pair(name, x) \in command
  BY <1>2, SettingsOf, Zenon
<1>4. ASSUME NEW name, NEW x
      PROVE  x \in Settings(command, name) <=> LlamaGives(gpus, p, name, x)
  <2>. DEFINE Is(n, v) == Pair(name, x) = Pair(n, v)
  <2>1. \A n, v : Is(n, v) <=> name = n /\ x = v
    BY Pairs
  <2>2. x \in Settings(command, name) <=>
          \/ Is("--n-gpu-layers", p.gpu_layers)
          \/ Is("--fit", p.fit)
          \/ Is("options", p.options)
          \/ gpus # <<>> /\ Is("CUDA_VISIBLE_DEVICES", gpus)
          \/ gpus # <<>> /\ Is("--split-mode", p.split_mode)
          \/ gpus # <<>> /\ p.split_mode \in {"none", "row"} /\ Is("--main-gpu", p.main_gpu)
          \/ gpus # <<>> /\ p.tensor_split # None /\ Is("--tensor-split", p.tensor_split)
          \/ gpus # <<>> /\ p.fit_target_mb # None /\ Is("--fit-target", p.fit_target_mb)
          \/ p.cpu_moe /\ Is("--cpu-moe", TRUE)
          \/ p.n_cpu_moe # None /\ Is("--n-cpu-moe", p.n_cpu_moe)
          \/ p.n_cpu_ffn # None /\ Is("--n-cpu-ffn", p.n_cpu_ffn)
    BY <1>1, <1>3
  <2>. HIDE DEF Is
  <2>. QED BY <2>1, <2>2, ZenonT(60) DEF LlamaGives
<1>. QED BY <1>4, Zenon DEF command

\* What `vllm serve` is given.
VllmGives(gpus, p, name, x) ==
    \/ name = "--gpu-memory-utilization" /\ x = p.gpu_memory_utilization
    \/ name = "options" /\ x = p.options
    \/ gpus # <<>> /\ name = "--device-ids" /\ x = gpus
    \/ p.tensor_parallel_size > 1 /\ name = "--tensor-parallel-size" /\ x = p.tensor_parallel_size
    \/ p.enable_expert_parallel /\ name = "--enable-expert-parallel" /\ x = TRUE
    \/ p.cpu_offload_gb > 0 /\ name = "--cpu-offload-gb" /\ x = p.cpu_offload_gb

\* That is what its command holds.
LEMMA VllmSettings ==
  ASSUME NEW gpus, NEW p
  PROVE  \A name, x : x \in Settings(VllmCommand(gpus, p), name) <=> VllmGives(gpus, p, name, x)
<1>. DEFINE command == VllmCommand(gpus, p)
<1>1. \A a : a \in command <=>
          \/ a = Pair("--gpu-memory-utilization", p.gpu_memory_utilization)
          \/ a = Pair("options", p.options)
          \/ gpus # <<>> /\ a = Pair("--device-ids", gpus)
          \/ p.tensor_parallel_size > 1 /\ a = Pair("--tensor-parallel-size", p.tensor_parallel_size)
          \/ p.enable_expert_parallel /\ a = Pair("--enable-expert-parallel", TRUE)
          \/ p.cpu_offload_gb > 0 /\ a = Pair("--cpu-offload-gb", p.cpu_offload_gb)
  BY Zenon DEF VllmCommand, Flag, Pair
<1>. HIDE DEF command
<1>2. \A a \in command : IsPair(a)
  BY <1>1, Zenon DEF IsPair
<1>3. \A name, x : x \in Settings(command, name) <=> Pair(name, x) \in command
  BY <1>2, SettingsOf, Zenon
<1>4. ASSUME NEW name, NEW x
      PROVE  x \in Settings(command, name) <=> VllmGives(gpus, p, name, x)
  <2>. DEFINE Is(n, v) == Pair(name, x) = Pair(n, v)
  <2>1. \A n, v : Is(n, v) <=> name = n /\ x = v
    BY Pairs
  <2>2. x \in Settings(command, name) <=>
          \/ Is("--gpu-memory-utilization", p.gpu_memory_utilization)
          \/ Is("options", p.options)
          \/ gpus # <<>> /\ Is("--device-ids", gpus)
          \/ p.tensor_parallel_size > 1 /\ Is("--tensor-parallel-size", p.tensor_parallel_size)
          \/ p.enable_expert_parallel /\ Is("--enable-expert-parallel", TRUE)
          \/ p.cpu_offload_gb > 0 /\ Is("--cpu-offload-gb", p.cpu_offload_gb)
    BY <1>1, <1>3
  <2>. HIDE DEF Is
  <2>. QED BY <2>1, <2>2, Zenon DEF VllmGives
<1>. QED BY <1>4, Zenon DEF command

\* What FreeToken is given.
FreeTokenGives(p, name, x) ==
    \/ name = "--gpu" /\ x = p.gpu_uuid
    \/ name = "--moe-strategy" /\ x = p.moe_strategy
    \/ name = "options" /\ x = p.options
    \/ p.moe_cache_size # None /\ name = "--moe-cache-size" /\ x = p.moe_cache_size
    \/ p.moe_cache_rate # None /\ name = "--moe-cache-rate" /\ x = p.moe_cache_rate
    \/ p.moe_hybrid_max_fetch # None /\ name = "--moe-hybrid-max-fetch" /\ x = p.moe_hybrid_max_fetch

\* That is what its command holds.
LEMMA FreeTokenSettings ==
  ASSUME NEW p
  PROVE  \A name, x : x \in Settings(FreeTokenCommand(p), name) <=> FreeTokenGives(p, name, x)
<1>. DEFINE command == FreeTokenCommand(p)
<1>1. \A a : a \in command <=>
          \/ a = Pair("--gpu", p.gpu_uuid)
          \/ a = Pair("--moe-strategy", p.moe_strategy)
          \/ a = Pair("options", p.options)
          \/ p.moe_cache_size # None /\ a = Pair("--moe-cache-size", p.moe_cache_size)
          \/ p.moe_cache_rate # None /\ a = Pair("--moe-cache-rate", p.moe_cache_rate)
          \/ p.moe_hybrid_max_fetch # None /\ a = Pair("--moe-hybrid-max-fetch", p.moe_hybrid_max_fetch)
  BY Zenon DEF FreeTokenCommand, Flag, Pair
<1>. HIDE DEF command
<1>2. \A a \in command : IsPair(a)
  BY <1>1, Zenon DEF IsPair
<1>3. \A name, x : x \in Settings(command, name) <=> Pair(name, x) \in command
  BY <1>2, SettingsOf, Zenon
<1>4. ASSUME NEW name, NEW x
      PROVE  x \in Settings(command, name) <=> FreeTokenGives(p, name, x)
  <2>. DEFINE Is(n, v) == Pair(name, x) = Pair(n, v)
  <2>1. \A n, v : Is(n, v) <=> name = n /\ x = v
    BY Pairs
  <2>2. x \in Settings(command, name) <=>
          \/ Is("--gpu", p.gpu_uuid)
          \/ Is("--moe-strategy", p.moe_strategy)
          \/ Is("options", p.options)
          \/ p.moe_cache_size # None /\ Is("--moe-cache-size", p.moe_cache_size)
          \/ p.moe_cache_rate # None /\ Is("--moe-cache-rate", p.moe_cache_rate)
          \/ p.moe_hybrid_max_fetch # None /\ Is("--moe-hybrid-max-fetch", p.moe_hybrid_max_fetch)
    BY <1>1, <1>3
  <2>. HIDE DEF Is
  <2>. QED BY <2>1, <2>2, Zenon DEF FreeTokenGives
<1>. QED BY <1>4, Zenon DEF command

\* What `ollama serve` is given.
OllamaGives(gpus, p, name, x) ==
    \/ name = "options" /\ x = p.options
    \/ gpus # <<>> /\ name = "CUDA_VISIBLE_DEVICES" /\ x = gpus
    \/ p.sched_spread /\ name = "OLLAMA_SCHED_SPREAD" /\ x = TRUE

\* That is what its command holds.
LEMMA OllamaSettings ==
  ASSUME NEW gpus, NEW p
  PROVE  \A name, x : x \in Settings(OllamaCommand(gpus, p), name) <=> OllamaGives(gpus, p, name, x)
<1>. DEFINE command == OllamaCommand(gpus, p)
<1>1. \A a : a \in command <=>
          \/ a = Pair("options", p.options)
          \/ gpus # <<>> /\ a = Pair("CUDA_VISIBLE_DEVICES", gpus)
          \/ p.sched_spread /\ a = Pair("OLLAMA_SCHED_SPREAD", TRUE)
  BY Zenon DEF OllamaCommand, Flag, Pair
<1>. HIDE DEF command
<1>2. \A a \in command : IsPair(a)
  BY <1>1, Zenon DEF IsPair
<1>3. \A name, x : x \in Settings(command, name) <=> Pair(name, x) \in command
  BY <1>2, SettingsOf, Zenon
<1>4. ASSUME NEW name, NEW x
      PROVE  x \in Settings(command, name) <=> OllamaGives(gpus, p, name, x)
  <2>. DEFINE Is(n, v) == Pair(name, x) = Pair(n, v)
  <2>1. \A n, v : Is(n, v) <=> name = n /\ x = v
    BY Pairs
  <2>2. x \in Settings(command, name) <=>
          \/ Is("options", p.options)
          \/ gpus # <<>> /\ Is("CUDA_VISIBLE_DEVICES", gpus)
          \/ p.sched_spread /\ Is("OLLAMA_SCHED_SPREAD", TRUE)
    BY <1>1, <1>3
  <2>. HIDE DEF Is
  <2>. QED BY <2>1, <2>2, Zenon DEF OllamaGives
<1>. QED BY <1>4, Zenon DEF command

\* What TabbyAPI is given when it reads the file of an intent.
TabbyGives(gpus, p, name, x) ==
    \/ name = "tensor_parallel" /\ x = p.tensor_parallel
    \/ name = "gpu_split_auto" /\ x = p.gpu_split_auto
    \/ p.gpu_split = None /\ name = "gpu_split" /\ x = <<>>
    \/ p.gpu_split # None /\ name = "gpu_split" /\ x = p.gpu_split
    \/ name = "options" /\ x = p.options
    \/ p.autosplit_reserve_mb # None /\ name = "autosplit_reserve" /\ x = p.autosplit_reserve_mb
    \/ name = "CUDA_VISIBLE_DEVICES" /\ x = gpus

\* That is what its command holds.
LEMMA TabbySettings ==
  ASSUME NEW gpus, NEW p
  PROVE  \A name, x : x \in Settings(TabbyConfig(p) \cup {<<"CUDA_VISIBLE_DEVICES", gpus>>}, name) <=> TabbyGives(gpus, p, name, x)
<1>. DEFINE command == TabbyConfig(p) \cup {<<"CUDA_VISIBLE_DEVICES", gpus>>}
<1>1. \A a : a \in command <=>
          \/ a = Pair("tensor_parallel", p.tensor_parallel)
          \/ a = Pair("gpu_split_auto", p.gpu_split_auto)
          \/ p.gpu_split = None /\ a = Pair("gpu_split", <<>>)
          \/ p.gpu_split # None /\ a = Pair("gpu_split", p.gpu_split)
          \/ a = Pair("options", p.options)
          \/ p.autosplit_reserve_mb # None /\ a = Pair("autosplit_reserve", p.autosplit_reserve_mb)
          \/ a = Pair("CUDA_VISIBLE_DEVICES", gpus)
  BY Zenon DEF TabbyConfig, Flag, Pair
<1>. HIDE DEF command
<1>2. \A a \in command : IsPair(a)
  BY <1>1, Zenon DEF IsPair
<1>3. \A name, x : x \in Settings(command, name) <=> Pair(name, x) \in command
  BY <1>2, SettingsOf, Zenon
<1>4. ASSUME NEW name, NEW x
      PROVE  x \in Settings(command, name) <=> TabbyGives(gpus, p, name, x)
  <2>. DEFINE Is(n, v) == Pair(name, x) = Pair(n, v)
  <2>1. \A n, v : Is(n, v) <=> name = n /\ x = v
    BY Pairs
  <2>2. x \in Settings(command, name) <=>
          \/ Is("tensor_parallel", p.tensor_parallel)
          \/ Is("gpu_split_auto", p.gpu_split_auto)
          \/ p.gpu_split = None /\ Is("gpu_split", <<>>)
          \/ p.gpu_split # None /\ Is("gpu_split", p.gpu_split)
          \/ Is("options", p.options)
          \/ p.autosplit_reserve_mb # None /\ Is("autosplit_reserve", p.autosplit_reserve_mb)
          \/ Is("CUDA_VISIBLE_DEVICES", gpus)
    BY <1>1, <1>3
  <2>. HIDE DEF Is
  <2>. QED BY <2>1, <2>2, Zenon DEF TabbyGives
<1>. QED BY <1>4, Zenon DEF command

\* What TabbyAPI is given when there is no file of setup.
NoFileGives(gpus, name, x) ==
    \/ name = "CUDA_VISIBLE_DEVICES" /\ x = gpus

\* That is what its command holds.
LEMMA NoFileSettings ==
  ASSUME NEW gpus
  PROVE  \A name, x : x \in Settings({} \cup {<<"CUDA_VISIBLE_DEVICES", gpus>>}, name) <=> NoFileGives(gpus, name, x)
<1>. DEFINE command == {} \cup {<<"CUDA_VISIBLE_DEVICES", gpus>>}
<1>1. \A a : a \in command <=>
          \/ a = Pair("CUDA_VISIBLE_DEVICES", gpus)
  BY Zenon DEF Pair
<1>. HIDE DEF command
<1>2. \A a \in command : IsPair(a)
  BY <1>1, Zenon DEF IsPair
<1>3. \A name, x : x \in Settings(command, name) <=> Pair(name, x) \in command
  BY <1>2, SettingsOf, Zenon
<1>4. ASSUME NEW name, NEW x
      PROVE  x \in Settings(command, name) <=> NoFileGives(gpus, name, x)
  <2>. DEFINE Is(n, v) == Pair(name, x) = Pair(n, v)
  <2>1. \A n, v : Is(n, v) <=> name = n /\ x = v
    BY Pairs
  <2>2. x \in Settings(command, name) <=>
          \/ Is("CUDA_VISIBLE_DEVICES", gpus)
    BY <1>1, <1>3
  <2>. HIDE DEF Is
  <2>. QED BY <2>1, <2>2, Zenon DEF NoFileGives
<1>. QED BY <1>4, Zenon DEF command

-----------------------------------------------------------------------------
(* What is started fits the Worker that starts it *)

\* The three parts of FitsWorkerNow, said of a command: it confines the runtime to the GPUs
\* of the Worker f, it honours vram_only, and its splits cover the GPUs; h is the Worker
\* that the policy was derived for.
OwnGpus(command, f) ==
    Settings(command, "CUDA_VISIBLE_DEVICES") \cup Settings(command, "--device-ids")
            \cup {<<gpu>> : gpu \in Settings(command, "--gpu")}
        = IF f.gpu_uuids = <<>> THEN {} ELSE {f.gpu_uuids}

InVram(command, provider, d, f) ==
    Vram(d) =>
        /\ f.gpu_uuids # <<>> \/ provider = "vllm"
        /\ provider = "llama-cpp" =>
                /\ Settings(command, "--n-gpu-layers") = {"all"}
                /\ Settings(command, "--fit") = {FALSE}
                /\ Settings(command, "--cpu-moe") = {}
                /\ Settings(command, "--n-cpu-moe") \subseteq {"0"}
                /\ Settings(command, "--n-cpu-ffn") \subseteq {"0"}
        /\ Settings(command, "--cpu-offload-gb") = {}
        /\ Settings(command, "--moe-strategy") = {}

SplitsFit(command, provider, d, f, h) ==
    /\ \A name \in {"--tensor-split", "gpu_split", "autosplit_reserve"} :
          \A split \in Settings(command, name) : Len(split) \in {0, Len(f.gpu_uuids)}
    /\ provider = "vllm" /\ Multi(d) =>
          Settings(command, "--tensor-parallel-size") = GroupOf(h)

\* llama.cpp, with a policy p that is free of offload under vram_only and whose split has
\* the length of the GPUs.
LEMMA LlamaFlags ==
  ASSUME NEW f, NEW gpus, gpus = f.gpu_uuids, NEW p, NEW d, NEW h,
         Vram(d) => /\ gpus # <<>>
                    /\ p.gpu_layers = "all" /\ p.fit = FALSE /\ p.cpu_moe = FALSE
                    /\ p.n_cpu_moe \in {None, "0"} /\ p.n_cpu_ffn \in {None, "0"},
         p.tensor_split # None => Len(p.tensor_split) = Len(gpus)
  PROVE  /\ OwnGpus(LlamaCommand(gpus, p), f)
         /\ InVram(LlamaCommand(gpus, p), "llama-cpp", d, f)
         /\ SplitsFit(LlamaCommand(gpus, p), "llama-cpp", d, f, h)
<1>. DEFINE command == LlamaCommand(gpus, p)
<1>1. \A name, x : x \in Settings(command, name) <=> LlamaGives(gpus, p, name, x)
  BY LlamaSettings, Zenon
<1>. HIDE DEF command
<1>2. OwnGpus(command, f)
  <2>1. \A x : LlamaGives(gpus, p, "CUDA_VISIBLE_DEVICES", x) <=> gpus # <<>> /\ x = gpus
    BY SMT DEF LlamaGives
  <2>2. gpus # <<>> => Settings(command, "CUDA_VISIBLE_DEVICES") = {gpus}
    BY <1>1, <2>1, Zenon
  <2>3. gpus = <<>> => Settings(command, "CUDA_VISIBLE_DEVICES") = {}
    BY <1>1, <2>1, Zenon
  <2>4. \A x : /\ ~LlamaGives(gpus, p, "--device-ids", x)
               /\ ~LlamaGives(gpus, p, "--gpu", x)
    BY SMT DEF LlamaGives
  <2>5. Settings(command, "--device-ids") = {} /\ Settings(command, "--gpu") = {}
    BY <1>1, <2>4, Zenon
  <2>. QED BY <2>2, <2>3, <2>5, SMT DEF OwnGpus
<1>3. ASSUME Vram(d)
      PROVE  /\ Settings(command, "--n-gpu-layers") = {"all"}
             /\ Settings(command, "--fit") = {FALSE}
             /\ Settings(command, "--cpu-moe") = {}
             /\ Settings(command, "--n-cpu-moe") \subseteq {"0"}
             /\ Settings(command, "--n-cpu-ffn") \subseteq {"0"}
  <2>1. \A x : /\ LlamaGives(gpus, p, "--n-gpu-layers", x) <=> x = p.gpu_layers
               /\ LlamaGives(gpus, p, "--fit", x) <=> x = p.fit
    BY SMT DEF LlamaGives
  <2>2. \A x : /\ LlamaGives(gpus, p, "--n-cpu-moe", x) => x = p.n_cpu_moe /\ x # None
               /\ LlamaGives(gpus, p, "--n-cpu-ffn", x) => x = p.n_cpu_ffn /\ x # None
    BY SMT DEF LlamaGives
  <2>3. \A x : ~LlamaGives(gpus, p, "--cpu-moe", x)
    BY <1>3, Zenon DEF LlamaGives
  <2>4. Settings(command, "--n-gpu-layers") = {"all"} /\ Settings(command, "--fit") = {FALSE}
    BY <1>1, <1>3, <2>1, Zenon
  <2>5. Settings(command, "--cpu-moe") = {}
    BY <1>1, <2>3, Zenon
  <2>6. /\ Settings(command, "--n-cpu-moe") \subseteq {"0"}
        /\ Settings(command, "--n-cpu-ffn") \subseteq {"0"}
    BY <1>1, <1>3, <2>2, Zenon
  <2>. QED BY <2>4, <2>5, <2>6, Zenon
<1>4. /\ Settings(command, "--cpu-offload-gb") = {} /\ Settings(command, "--moe-strategy") = {}
      /\ Settings(command, "gpu_split") = {} /\ Settings(command, "autosplit_reserve") = {}
  <2>1. \A x : /\ ~LlamaGives(gpus, p, "--cpu-offload-gb", x)
               /\ ~LlamaGives(gpus, p, "--moe-strategy", x)
               /\ ~LlamaGives(gpus, p, "gpu_split", x)
               /\ ~LlamaGives(gpus, p, "autosplit_reserve", x)
    BY SMT DEF LlamaGives
  <2>. QED BY <1>1, <2>1, Zenon
<1>5. InVram(command, "llama-cpp", d, f)
  BY <1>3, <1>4, Zenon DEF InVram
<1>6. SplitsFit(command, "llama-cpp", d, f, h)
  <2>1. \A x : LlamaGives(gpus, p, "--tensor-split", x) => x = p.tensor_split /\ x # None
    BY SMT DEF LlamaGives
  <2>2. \A split \in Settings(command, "--tensor-split") : Len(split) = Len(gpus)
    BY <1>1, <2>1, Zenon
  <2>. QED BY <1>4, <2>2 DEF SplitsFit
<1>. QED BY <1>2, <1>5, <1>6, Zenon DEF command

\* vLLM, with a policy p that offloads nothing under vram_only and whose group takes in the
\* GPUs of the Worker that it was derived for.
LEMMA VllmFlags ==
  ASSUME NEW f, NEW gpus, gpus = f.gpu_uuids, NEW p, NEW d, NEW h,
         Vram(d) => ~(p.cpu_offload_gb > 0),
         Multi(d) => p.tensor_parallel_size = Len(h.gpu_uuids)
  PROVE  /\ OwnGpus(VllmCommand(gpus, p), f)
         /\ InVram(VllmCommand(gpus, p), "vllm", d, f)
         /\ SplitsFit(VllmCommand(gpus, p), "vllm", d, f, h)
<1>. DEFINE command == VllmCommand(gpus, p)
<1>1. \A name, x : x \in Settings(command, name) <=> VllmGives(gpus, p, name, x)
  BY VllmSettings, Zenon
<1>. HIDE DEF command
<1>2. OwnGpus(command, f)
  <2>1. \A x : VllmGives(gpus, p, "--device-ids", x) <=> gpus # <<>> /\ x = gpus
    BY SMT DEF VllmGives
  <2>2. gpus # <<>> => Settings(command, "--device-ids") = {gpus}
    BY <1>1, <2>1, Zenon
  <2>3. gpus = <<>> => Settings(command, "--device-ids") = {}
    BY <1>1, <2>1, Zenon
  <2>4. \A x : /\ ~VllmGives(gpus, p, "CUDA_VISIBLE_DEVICES", x)
               /\ ~VllmGives(gpus, p, "--gpu", x)
    BY SMT DEF VllmGives
  <2>5. Settings(command, "CUDA_VISIBLE_DEVICES") = {} /\ Settings(command, "--gpu") = {}
    BY <1>1, <2>4, Zenon
  <2>. QED BY <2>2, <2>3, <2>5, SMT DEF OwnGpus
<1>3. InVram(command, "vllm", d, f)
  <2>1. \A x : /\ VllmGives(gpus, p, "--cpu-offload-gb", x) => p.cpu_offload_gb > 0
               /\ ~VllmGives(gpus, p, "--moe-strategy", x)
    BY SMT DEF VllmGives
  <2>2. Vram(d) => Settings(command, "--cpu-offload-gb") = {}
    BY <1>1, <2>1, Zenon
  <2>3. Settings(command, "--moe-strategy") = {}
    BY <1>1, <2>1, Zenon
  <2>. QED BY <2>2, <2>3 DEF InVram
<1>4. SplitsFit(command, "vllm", d, f, h)
  <2>1. \A x : /\ ~VllmGives(gpus, p, "--tensor-split", x)
               /\ ~VllmGives(gpus, p, "gpu_split", x)
               /\ ~VllmGives(gpus, p, "autosplit_reserve", x)
    BY SMT DEF VllmGives
  <2>2. /\ Settings(command, "--tensor-split") = {} /\ Settings(command, "gpu_split") = {}
        /\ Settings(command, "autosplit_reserve") = {}
    BY <1>1, <2>1, Zenon
  <2>3. \A x : VllmGives(gpus, p, "--tensor-parallel-size", x) <=>
                  p.tensor_parallel_size > 1 /\ x = p.tensor_parallel_size
    BY SMT DEF VllmGives
  <2>4. ASSUME Multi(d)
        PROVE  Settings(command, "--tensor-parallel-size") = GroupOf(h)
    <3>1. p.tensor_parallel_size = Len(h.gpu_uuids)
      BY <2>4
    <3>2. \A x : x \in Settings(command, "--tensor-parallel-size") <=>
                    Len(h.gpu_uuids) > 1 /\ x = Len(h.gpu_uuids)
      BY <1>1, <2>3, <3>1, Zenon
    <3>. QED BY <3>2, Zenon DEF GroupOf
  <2>. QED BY <2>2, <2>4, Zenon DEF SplitsFit
<1>. QED BY <1>2, <1>3, <1>4, Zenon DEF command

\* FreeToken runs on the one GPU of the Worker and never under vram_only.
LEMMA FreeTokenFlags ==
  ASSUME NEW f, NEW p, NEW d, NEW h, f.gpu_uuids = <<p.gpu_uuid>>, ~Vram(d)
  PROVE  /\ OwnGpus(FreeTokenCommand(p), f)
         /\ InVram(FreeTokenCommand(p), "freetoken", d, f)
         /\ SplitsFit(FreeTokenCommand(p), "freetoken", d, f, h)
<1>. DEFINE command == FreeTokenCommand(p)
<1>1. \A name, x : x \in Settings(command, name) <=> FreeTokenGives(p, name, x)
  BY FreeTokenSettings, Zenon
<1>. HIDE DEF command
<1>2. OwnGpus(command, f)
  <2>1. \A x : FreeTokenGives(p, "--gpu", x) <=> x = p.gpu_uuid
    BY SMT DEF FreeTokenGives
  <2>2. Settings(command, "--gpu") = {p.gpu_uuid}
    BY <1>1, <2>1, Zenon
  <2>3. \A x : /\ ~FreeTokenGives(p, "CUDA_VISIBLE_DEVICES", x)
               /\ ~FreeTokenGives(p, "--device-ids", x)
    BY SMT DEF FreeTokenGives
  <2>4. /\ Settings(command, "CUDA_VISIBLE_DEVICES") = {}
        /\ Settings(command, "--device-ids") = {}
    BY <1>1, <2>3, Zenon
  <2>. QED BY <2>2, <2>4, SMT DEF OwnGpus
<1>3. SplitsFit(command, "freetoken", d, f, h)
  <2>1. \A x : /\ ~FreeTokenGives(p, "--tensor-split", x)
               /\ ~FreeTokenGives(p, "gpu_split", x)
               /\ ~FreeTokenGives(p, "autosplit_reserve", x)
    BY SMT DEF FreeTokenGives
  <2>2. /\ Settings(command, "--tensor-split") = {} /\ Settings(command, "gpu_split") = {}
        /\ Settings(command, "autosplit_reserve") = {}
    BY <1>1, <2>1, Zenon
  <2>. QED BY <2>2, Zenon DEF SplitsFit
<1>. QED BY <1>2, <1>3, Zenon DEF command, InVram

\* Ollama is shown the GPUs, and under vram_only there are some.
LEMMA OllamaFlags ==
  ASSUME NEW f, NEW gpus, gpus = f.gpu_uuids, NEW p, NEW d, NEW h, Vram(d) => gpus # <<>>
  PROVE  /\ OwnGpus(OllamaCommand(gpus, p), f)
         /\ InVram(OllamaCommand(gpus, p), "ollama", d, f)
         /\ SplitsFit(OllamaCommand(gpus, p), "ollama", d, f, h)
<1>. DEFINE command == OllamaCommand(gpus, p)
<1>1. \A name, x : x \in Settings(command, name) <=> OllamaGives(gpus, p, name, x)
  BY OllamaSettings, Zenon
<1>. HIDE DEF command
<1>2. OwnGpus(command, f)
  <2>1. \A x : OllamaGives(gpus, p, "CUDA_VISIBLE_DEVICES", x) <=> gpus # <<>> /\ x = gpus
    BY SMT DEF OllamaGives
  <2>2. gpus # <<>> => Settings(command, "CUDA_VISIBLE_DEVICES") = {gpus}
    BY <1>1, <2>1, Zenon
  <2>3. gpus = <<>> => Settings(command, "CUDA_VISIBLE_DEVICES") = {}
    BY <1>1, <2>1, Zenon
  <2>4. \A x : /\ ~OllamaGives(gpus, p, "--device-ids", x)
               /\ ~OllamaGives(gpus, p, "--gpu", x)
    BY SMT DEF OllamaGives
  <2>5. Settings(command, "--device-ids") = {} /\ Settings(command, "--gpu") = {}
    BY <1>1, <2>4, Zenon
  <2>. QED BY <2>2, <2>3, <2>5, SMT DEF OwnGpus
<1>3. \A x : /\ ~OllamaGives(gpus, p, "--cpu-offload-gb", x)
             /\ ~OllamaGives(gpus, p, "--moe-strategy", x)
             /\ ~OllamaGives(gpus, p, "--tensor-split", x)
             /\ ~OllamaGives(gpus, p, "gpu_split", x)
             /\ ~OllamaGives(gpus, p, "autosplit_reserve", x)
  BY SMT DEF OllamaGives
<1>4. /\ Settings(command, "--cpu-offload-gb") = {} /\ Settings(command, "--moe-strategy") = {}
      /\ Settings(command, "--tensor-split") = {} /\ Settings(command, "gpu_split") = {}
      /\ Settings(command, "autosplit_reserve") = {}
  BY <1>1, <1>3, Zenon
<1>5. InVram(command, "ollama", d, f)
  BY <1>4, Zenon DEF InVram
<1>6. SplitsFit(command, "ollama", d, f, h)
  BY <1>4, Zenon DEF SplitsFit
<1>. QED BY <1>2, <1>5, <1>6, Zenon DEF command

\* TabbyAPI is shown the GPUs, and a split of its file is the operator's and has their
\* number.
LEMMA TabbyFlags ==
  ASSUME NEW f, NEW gpus, gpus = f.gpu_uuids, NEW p, NEW d, NEW h, gpus # <<>>,
         p.gpu_split # None => Len(p.gpu_split) = Len(gpus),
         p.autosplit_reserve_mb # None => Len(p.autosplit_reserve_mb) = Len(gpus),
         NEW command,
         \/ command = TabbyConfig(p) \cup {<<"CUDA_VISIBLE_DEVICES", gpus>>}
         \/ command = {} \cup {<<"CUDA_VISIBLE_DEVICES", gpus>>}
  PROVE  /\ OwnGpus(command, f)
         /\ InVram(command, "exllamav3", d, f)
         /\ SplitsFit(command, "exllamav3", d, f, h)
<1>1. \/ \A name, x : x \in Settings(command, name) <=> TabbyGives(gpus, p, name, x)
      \/ \A name, x : x \in Settings(command, name) <=> NoFileGives(gpus, name, x)
  BY TabbySettings, NoFileSettings, Zenon
<1>2. \A x : /\ TabbyGives(gpus, p, "CUDA_VISIBLE_DEVICES", x) <=> x = gpus
             /\ NoFileGives(gpus, "CUDA_VISIBLE_DEVICES", x) <=> x = gpus
             /\ ~TabbyGives(gpus, p, "--cpu-offload-gb", x)
             /\ ~TabbyGives(gpus, p, "--moe-strategy", x)
             /\ ~TabbyGives(gpus, p, "--tensor-split", x)
             /\ ~TabbyGives(gpus, p, "--device-ids", x) /\ ~TabbyGives(gpus, p, "--gpu", x)
  BY SMT DEF TabbyGives, NoFileGives
<1>3. \A x : /\ ~NoFileGives(gpus, "--cpu-offload-gb", x)
             /\ ~NoFileGives(gpus, "--moe-strategy", x)
             /\ ~NoFileGives(gpus, "--tensor-split", x)
             /\ ~NoFileGives(gpus, "gpu_split", x)
             /\ ~NoFileGives(gpus, "autosplit_reserve", x)
             /\ ~NoFileGives(gpus, "--device-ids", x) /\ ~NoFileGives(gpus, "--gpu", x)
  BY SMT DEF NoFileGives
<1>4. \A x : /\ TabbyGives(gpus, p, "gpu_split", x) =>
                   x = <<>> \/ (x = p.gpu_split /\ p.gpu_split # None)
             /\ TabbyGives(gpus, p, "autosplit_reserve", x) =>
                   x = p.autosplit_reserve_mb /\ p.autosplit_reserve_mb # None
  BY SMT DEF TabbyGives
<1>5. /\ Settings(command, "CUDA_VISIBLE_DEVICES") = {gpus}
      /\ Settings(command, "--device-ids") = {} /\ Settings(command, "--gpu") = {}
      /\ Settings(command, "--cpu-offload-gb") = {} /\ Settings(command, "--moe-strategy") = {}
      /\ Settings(command, "--tensor-split") = {}
  BY <1>1, <1>2, <1>3, Zenon
<1>6. /\ \A x \in Settings(command, "gpu_split") :
             x = <<>> \/ (x = p.gpu_split /\ p.gpu_split # None)
      /\ \A x \in Settings(command, "autosplit_reserve") :
             x = p.autosplit_reserve_mb /\ p.autosplit_reserve_mb # None
  BY <1>1, <1>3, <1>4, Zenon
<1>7. OwnGpus(command, f)
  BY <1>5, SMT DEF OwnGpus
<1>8. InVram(command, "exllamav3", d, f)
  BY <1>5, Zenon DEF InVram
<1>9. SplitsFit(command, "exllamav3", d, f, h)
  <2>1. /\ \A x \in Settings(command, "gpu_split") : Len(x) \in {0, Len(gpus)}
        /\ \A x \in Settings(command, "autosplit_reserve") : Len(x) \in {0, Len(gpus)}
    BY <1>6
  <2>. QED BY <1>5, <2>1, Zenon DEF SplitsFit
<1>. QED BY <1>7, <1>8, <1>9

\* The command fits the Worker f.
CommandFits(command, provider, d, f, h) ==
    /\ OwnGpus(command, f)
    /\ InVram(command, provider, d, f)
    /\ SplitsFit(command, provider, d, f, h)

\* The premises under which each provider's command fits follow from what the provider had
\* to say of the Worker of the review, h, and of the Worker of now, f.
LEMMA StartedCommandFits ==
  ASSUME NEW provider \in Providers, NEW f \in Facts, NEW h \in Facts, NEW d \in Demands,
         NEW c \in Configs[provider],
         compatible(compatibility(provider, f, d, c)),
         compatible(compatibility(provider, h, d, c)),
         NEW file \in {{}, setup_intent(provider, h, d, c).tabby_config}
  PROVE  CommandFits(Command(provider, f, setup_intent(provider, h, d, c), file),
                     provider, d, f, h)
<1>. DEFINE gpus == f.gpu_uuids
            command == Command(provider, f, setup_intent(provider, h, d, c), file)
<1>1. gpus \in Seq(STRING)
  BY FactsAssumption
<1>2. CASE provider = "ollama"
  <2>. DEFINE p == [sched_spread |-> Multi(d), options |-> c.options]
  <2>1. Command("ollama", f, setup_intent("ollama", h, d, c), file) = OllamaCommand(gpus, p)
    BY OllamaStart
  <2>2. compatible(OllamaReasons(f, d))
    BY <1>2, CompatibilityOf
  <2>3. Vram(d) => gpus # <<>>
    BY <2>2, OllamaFits
  <2>. HIDE DEF gpus, p
  <2>4. CommandFits(OllamaCommand(gpus, p), "ollama", d, f, h)
    BY <2>3, OllamaFlags, Zenon DEF CommandFits, gpus
  <2>. QED BY <1>2, <2>1, <2>4
<1>3. CASE provider = "llama-cpp"
  <2>. DEFINE p == LlamaPolicy(h, d, c)
              now == LlamaPolicy(f, d, c)
  <2>1. Command("llama-cpp", f, setup_intent("llama-cpp", h, d, c), file) = LlamaCommand(gpus, p)
    BY <1>3, LlamaStart
  <2>2. compatible(LlamaReasons(f, d, c)) /\ compatible(LlamaReasons(h, d, c))
    BY <1>3, CompatibilityOf
  <2>3. c.cpu_moe \in BOOLEAN
    BY <1>3, ConfigsAssumption
  <2>4. /\ p.tensor_split = now.tensor_split /\ p.fit \in BOOLEAN /\ p.cpu_moe \in BOOLEAN
        /\ gpu_count(f) = 0 => now.gpu_layers = "0"
    BY <2>3 DEF LlamaPolicy
  <2>5. /\ Vram(d) => now.gpu_layers = "all"
        /\ now.tensor_split # None => Len(now.tensor_split) = gpu_count(f)
    BY <2>2, LlamaFits
  <2>6. Vram(d) => /\ p.gpu_layers = "all" /\ ~p.fit /\ ~p.cpu_moe
                   /\ p.n_cpu_moe \in {None, "0"} /\ p.n_cpu_ffn \in {None, "0"}
    BY <2>2, LlamaFits
  <2>. HIDE DEF p, now
  <2>7. p.tensor_split # None => Len(p.tensor_split) = Len(gpus)
    BY <2>4, <2>5 DEF gpu_count
  <2>8. Vram(d) => gpus # <<>>
    BY <1>1, <2>4, <2>5 DEF gpu_count
  <2>9. Vram(d) => p.fit = FALSE /\ p.cpu_moe = FALSE
    BY <2>4, <2>6
  <2>. HIDE DEF gpus
  <2>10. CommandFits(LlamaCommand(gpus, p), "llama-cpp", d, f, h)
    <3>1. gpus = f.gpu_uuids
      BY DEF gpus
    <3>. QED BY <2>6, <2>7, <2>8, <2>9, <3>1, LlamaFlags DEF CommandFits
  <2>. QED BY <1>3, <2>1, <2>10
<1>4. CASE provider = "vllm"
  <2>. DEFINE p == VllmPolicy(h, d, c)
  <2>1. Command("vllm", f, setup_intent("vllm", h, d, c), file) = VllmCommand(gpus, p)
    BY VllmStart
  <2>2. compatible(VllmReasons(h, d, c))
    BY <1>4, CompatibilityOf
  <2>3. /\ Vram(d) => ~(p.cpu_offload_gb > 0)
        /\ Multi(d) => p.tensor_parallel_size = gpu_count(h)
    BY <2>2, VllmFits
  <2>. HIDE DEF p
  <2>4. Multi(d) => p.tensor_parallel_size = Len(h.gpu_uuids)
    BY <2>3 DEF gpu_count
  <2>. HIDE DEF gpus
  <2>5. CommandFits(VllmCommand(gpus, p), "vllm", d, f, h)
    <3>1. gpus = f.gpu_uuids
      BY DEF gpus
    <3>. QED BY <2>3, <2>4, <3>1, VllmFlags DEF CommandFits
  <2>. QED BY <1>4, <2>1, <2>5
<1>5. CASE provider = "freetoken"
  <2>. DEFINE p == [gpu_uuid |-> gpus[1], moe_strategy |-> c.moe_strategy,
                    moe_cache_size |-> c.moe_cache_size, moe_cache_rate |-> c.moe_cache_rate,
                    moe_hybrid_max_fetch |-> c.moe_hybrid_max_fetch, options |-> c.options]
  <2>1. Command("freetoken", f, setup_intent("freetoken", h, d, c), file) = FreeTokenCommand(p)
    BY FreeTokenStart
  <2>2. compatible(FreeTokenReasons(f, d, c))
    BY <1>5, CompatibilityOf
  <2>3. gpu_count(f) = 1 /\ ~Vram(d)
    BY <2>2, FreeTokenFits
  <2>4. p.gpu_uuid = gpus[1]
    OBVIOUS
  <2>. HIDE DEF p
  <2>5. f.gpu_uuids = <<p.gpu_uuid>>
    BY <1>1, <2>3, <2>4 DEF gpu_count
  <2>6. CommandFits(FreeTokenCommand(p), "freetoken", d, f, h)
    BY <2>3, <2>5, FreeTokenFlags DEF CommandFits
  <2>. QED BY <1>5, <2>1, <2>6
<1>6. CASE provider = "exllamav3"
  <2>. DEFINE p == ExllamaPolicy(h, d, c)
  <2>1. /\ Command("exllamav3", f, setup_intent("exllamav3", h, d, c), file)
              = file \cup {<<"CUDA_VISIBLE_DEVICES", gpus>>}
        /\ setup_intent("exllamav3", h, d, c).tabby_config = TabbyConfig(p)
    BY ExllamaStart
  <2>2. compatible(ExllamaReasons(f, d, c))
    BY <1>6, CompatibilityOf
  <2>3. /\ gpu_count(f) # 0
        /\ c.gpu_split # None => Len(c.gpu_split) = gpu_count(f)
        /\ c.autosplit_reserve_mb # None => Len(c.autosplit_reserve_mb) = gpu_count(f)
    BY <2>2, ExllamaFits
  <2>4. p.gpu_split = c.gpu_split /\ p.autosplit_reserve_mb = c.autosplit_reserve_mb
    BY DEF ExllamaPolicy
  <2>. HIDE DEF p
  <2>5. /\ gpus # <<>>
        /\ p.gpu_split # None => Len(p.gpu_split) = Len(gpus)
        /\ p.autosplit_reserve_mb # None => Len(p.autosplit_reserve_mb) = Len(gpus)
    BY <1>1, <2>3, <2>4 DEF gpu_count
  <2>6. \/ command = TabbyConfig(p) \cup {<<"CUDA_VISIBLE_DEVICES", gpus>>}
        \/ command = {} \cup {<<"CUDA_VISIBLE_DEVICES", gpus>>}
    BY <1>6, <2>1, Zenon
  <2>. HIDE DEF gpus, command
  <2>7. CommandFits(command, "exllamav3", d, f, h)
    <3>1. gpus = f.gpu_uuids
      BY DEF gpus
    <3>. QED BY <2>5, <2>6, <3>1, TabbyFlags DEF CommandFits
  <2>. QED BY <1>6, <2>7 DEF command
<1>. QED BY <1>2, <1>3, <1>4, <1>5, <1>6 DEF Providers

\* For every Worker, demand and configuration, and whatever became of the Worker since the
\* review: what its service starts is confined to all the GPUs the Worker owns now, or
\* unconfined where it owns none; it keeps weights in VRAM where that was demanded; its
\* splits name the GPUs that there are; and vLLM's tensor-parallel group takes in the GPUs
\* of now, or those of the review where the manifest holds the intent.
THEOREM StartsFittingRuntime == Spec => []FitsWorkerNow
<1>1. ASSUME DeploymentInv, Running PROVE FitsWorkerNow
  <2>1. manifest # None /\ launched = managed_runtime_from_deployment(manifest, facts)
    BY <1>1 DEF DeploymentInv, Running
  <2>2. PICK provider \in Providers, d \in Demands, i \in BOOLEAN : \E c \in Configs[provider] :
             /\ reviewed.facts \in Facts
             /\ compatible(evaluate_provider(provider, reviewed.facts, d, c))
             /\ manifest = deployment_spec(provider, d, c,
                    IF i THEN setup_intent(provider, reviewed.facts, d, c) ELSE None)
    BY <1>1, <2>1, Zenon DEF DeploymentInv
  <2>3. PICK c \in Configs[provider] :
             /\ reviewed.facts \in Facts
             /\ compatible(evaluate_provider(provider, reviewed.facts, d, c))
             /\ manifest = deployment_spec(provider, d, c,
                    IF i THEN setup_intent(provider, reviewed.facts, d, c) ELSE None)
    BY <2>2
  <2>. DEFINE g == reviewed.facts
              h == IF manifest.setup_intent = None THEN facts ELSE g
              file == IF manifest.setup_intent = None THEN {}
                      ELSE setup_intent(provider, g, d, c).tabby_config
              command == Command(provider, facts, setup_intent(provider, h, d, c), file)
  <2>4. facts \in Facts /\ g \in Facts /\ h \in Facts
    BY <1>1, <2>3 DEF DeploymentInv
  <2>5. Holds(manifest, provider, d, c, g)
    BY <2>3 DEF Holds, deployment_spec
  <2>6. StartsIt(manifest, provider, d, c, g, facts)
    BY <2>5, StartOf, Zenon
  <2>7. launched = Outcome(provider, facts, d, c, h, file)
    BY <2>1, <2>6, Zenon DEF StartsIt
  <2>8. Refused.ok = FALSE
    BY DEF Refused
  <2>9. /\ compatible(compatibility(provider, facts, d, c))
        /\ launched = [ok |-> TRUE, command |-> command]
    <3>1. launched.ok
      BY <1>1 DEF Running
    <3>2. launched # Refused
      BY <2>8, <3>1
    <3>. QED BY <2>7, <3>2, Zenon DEF Outcome
  <2>10. compatible(compatibility(provider, h, d, c))
    <3>1. compatible(compatibility(provider, g, d, c))
      BY <2>3 DEF compatible, evaluate_provider
    <3>. QED BY <2>9, <3>1
  <2>11. file \in {{}, setup_intent(provider, h, d, c).tabby_config}
    OBVIOUS
  <2>12. launched.command = command
    BY <2>9
  <2>. HIDE DEF h, file
  <2>13. CommandFits(command, provider, d, facts, h)
    BY <2>4, <2>9, <2>10, <2>11, StartedCommandFits
  <2>. HIDE DEF command
  <2>14. \A name : Given(name) = Settings(command, name)
    BY <2>12, Zenon DEF Given, Settings
  <2>15. manifest.provider_id = provider /\ manifest.demand = d
    BY <2>5 DEF Holds
  <2>16. OwnGpusShown
    BY <2>13, <2>14, Zenon DEF CommandFits, OwnGpus, OwnGpusShown, Masks
  <2>17. VramOnlyHonoured
    BY <2>13, <2>14, <2>15, Zenon DEF CommandFits, InVram, VramOnlyHonoured
  <2>18. SplitsCoverGpus
    BY <2>13, <2>14, <2>15, Zenon DEF CommandFits, SplitsFit, SplitsCoverGpus, h
  <2>. QED BY <2>16, <2>17, <2>18 DEF FitsWorkerNow
<1>2. DeploymentInv => FitsWorkerNow
  BY <1>1, Zenon DEF FitsWorkerNow, OwnGpusShown, VramOnlyHonoured, SplitsCoverGpus
<1>. QED BY <1>2, DeploymentInvHolds, PTL
=============================================================================
