--------------------------- MODULE ControlService ---------------------------
(***************************************************************************)
(* The Control service around its repository: astrumweaver-migrate         *)
(* (control/migrate.py), the readiness check that compares the ledger with *)
(* the migration files (check_storage in control/postgres.py), and the     *)
(* maintenance loop (control/api.py).                                      *)
(*                                                                         *)
(* Two programs migrate: that of the service's own release ("this"), which *)
(* is the unit's ExecStartPre when migrateOnStart is set and otherwise an  *)
(* operator's command, given at any time or never; and that of the release *)
(* before ("before"), by hand.  Both may be killed anywhere, and any       *)
(* statement may fail.  Migration i is migrations/00<i-1>_*.sql: 1 makes   *)
(* the ledger's table, 2 the tables of Control, 3 alters one of them.  A   *)
(* file is one transaction.                                                *)
(***************************************************************************)
EXTENDS Integers

CONSTANT Trouble        \* how many statements and processes may fail

VARIABLES
    migrate_on_start,   \* services.astrumweaver.control.migrateOnStart, by default FALSE
    schema,     \* the migrations whose statements are in the database
    recorded,   \* the rows of schema_migrations
    migrator,   \* who |-> [pc, at: the migration it is at, seen: what it read of the ledger]
    answer,     \* the last answer of GET /v1/ready, or "none"
    loop,       \* the maintenance loop: down, sleep, expire, recover
    stale,      \* a worker has been silent for longer than its TTL
    expired,    \* a running job's lease has run out
    trouble     \* failures so far

serviceVars == <<migrate_on_start, schema, recorded, migrator, answer, loop, stale, expired,
                 trouble>>

Files == [who \in {"this", "before"} |-> IF who = "this" THEN 1 .. 3 ELSE 1 .. 2]
Required == Files["this"]

Resting == [pc |-> "idle", at |-> 1, seen |-> {}]

\* A new database, one from before the ledger, and one of the release before.
ServiceInit ==
    /\ migrate_on_start \in BOOLEAN
    /\ schema \in {{}, {2}, {1, 2}}
    /\ recorded = IF 1 \in schema THEN schema ELSE {}
    /\ migrator = [who \in {"this", "before"} |-> Resting]
    /\ answer = "none"
    /\ loop = "down"
    /\ stale = FALSE
    /\ expired = FALSE
    /\ trouble = 0

-----------------------------------------------------------------------------
(* apply_migrations *)

Migrating(who, next) ==
    /\ migrator' = [migrator EXCEPT ![who] = next]
    /\ UNCHANGED <<migrate_on_start, answer, loop, stale, expired, trouble>>

\* _recorded_migrations: nothing is recorded as long as there is no ledger.
recorded_migrations == IF 1 \in schema THEN recorded ELSE {}

\* ExecStartPre runs before the service.  A migrator that is done finds nothing to do
\* when it is run again.
ReadLedger(who) ==
    /\ migrator[who].pc = "idle"
    /\ who = "this" /\ migrate_on_start => loop = "down"
    /\ Migrating(who, [pc |-> "apply", at |-> 1, seen |-> recorded_migrations])
    /\ UNCHANGED <<schema, recorded>>

Skip(who) ==
    LET m == migrator[who] IN
    /\ m.pc = "apply" /\ m.at \in Files[who] /\ m.at \in m.seen
    /\ Migrating(who, [m EXCEPT !.at = @ + 1])
    /\ UNCHANGED <<schema, recorded>>

\* Mutant: what was applied before there was a ledger is taken to be recorded.
Mut_Apply(who) ==
    LET m == migrator[who] IN
    /\ m.pc = "apply" /\ m.at \in Files[who] /\ m.at \notin m.seen
    /\ m.at = 3 => 2 \in schema
    /\ Migrating(who, IF m.at \in schema THEN [m EXCEPT !.at = @ + 1]
                                         ELSE [m EXCEPT !.pc = "record"])
    /\ schema' = schema \cup {m.at}
    /\ UNCHANGED recorded

\* The file is executed, also when its statements have all been executed before.
Apply(who) ==
    LET m == migrator[who] IN
    /\ m.pc = "apply" /\ m.at \in Files[who] /\ m.at \notin m.seen
    /\ m.at = 3 => 2 \in schema
    /\ Migrating(who, [m EXCEPT !.pc = "record"])
    /\ schema' = schema \cup {m.at}
    /\ UNCHANGED recorded

\* INSERT ... ON CONFLICT DO NOTHING, once the ledger's table exists.
Record(who) ==
    LET m == migrator[who] IN
    /\ m.pc = "record"
    /\ Migrating(who, [m EXCEPT !.pc = "apply", !.at = @ + 1,
                                !.seen = IF 1 \in schema THEN @ \cup {m.at} ELSE @])
    /\ recorded' = IF 1 \in schema THEN recorded \cup {m.at} ELSE recorded
    /\ UNCHANGED schema

\* The final reading of the ledger decides between success and RuntimeError.
Finish(who) ==
    LET m == migrator[who] IN
    /\ m.pc = "apply" /\ m.at \notin Files[who]
    /\ Migrating(who, IF Files[who] \subseteq recorded_migrations
                      THEN [Resting EXCEPT !.pc = "done"] ELSE Resting)
    /\ UNCHANGED <<schema, recorded>>

\* A statement fails or the process is killed: what is committed stays.
MigratorFails(who) ==
    /\ trouble < Trouble
    /\ migrator[who].pc \in {"apply", "record"}
    /\ migrator' = [migrator EXCEPT ![who] = Resting]
    /\ trouble' = trouble + 1
    /\ UNCHANGED <<migrate_on_start, schema, recorded, answer, loop, stale, expired>>

Migrate(who) ==
    ReadLedger(who) \/ Skip(who) \/ Apply(who) \/ Record(who) \/ Finish(who)

-----------------------------------------------------------------------------
(* Readiness and maintenance *)

Serving(next) ==
    /\ loop' = next
    /\ UNCHANGED <<migrate_on_start, schema, recorded, answer>>

\* Nothing at the start asks for the schema; only an ExecStartPre has to succeed first.
ServiceStarts ==
    /\ loop = "down"
    /\ migrate_on_start => migrator["this"].pc = "done"
    /\ Serving("sleep")
    /\ UNCHANGED <<migrator, stale, expired, trouble>>

\* Mutant: the tables are looked for, the ledger is not compared with the files.
Mut_check_storage ==
    /\ loop # "down"
    /\ answer' = IF {1, 2} \subseteq schema THEN "ready" ELSE "unavailable"
    /\ UNCHANGED <<migrate_on_start, schema, recorded, migrator, loop, stale, expired, trouble>>

\* check_storage: the tables are there and the ledger has every file of this binary.
check_storage ==
    /\ loop # "down"
    /\ answer' = IF {1, 2} \subseteq schema /\ Required \subseteq recorded
                 THEN "ready" ELSE "unavailable"
    /\ UNCHANGED <<migrate_on_start, schema, recorded, migrator, loop, stale, expired, trouble>>

\* maintenance_loop: the interval has passed.
Wakes ==
    /\ loop = "sleep"
    /\ Serving("expire")
    /\ UNCHANGED <<migrator, stale, expired, trouble>>

\* Without its table the sweep raises, and the round ends as in SweepFails.
expire_stale_workers ==
    /\ loop = "expire"
    /\ IF 2 \in schema THEN Serving("recover") /\ stale' = FALSE
                       ELSE Serving("sleep") /\ UNCHANGED stale
    /\ UNCHANGED <<migrator, expired, trouble>>

recover_expired_jobs ==
    /\ loop = "recover"
    /\ Serving("sleep")
    /\ expired' = FALSE
    /\ UNCHANGED <<migrator, stale, trouble>>

\* Mutant: the exception ends the task of the loop.
Mut_SweepFails ==
    /\ trouble < Trouble
    /\ loop \in {"expire", "recover"}
    /\ Serving("ended")
    /\ trouble' = trouble + 1
    /\ UNCHANGED <<migrator, stale, expired>>

\* A sweep raises: the rest of the round is skipped, the loop goes on.
SweepFails ==
    /\ trouble < Trouble
    /\ loop \in {"expire", "recover"}
    /\ Serving("sleep")
    /\ trouble' = trouble + 1
    /\ UNCHANGED <<migrator, stale, expired>>

\* The service dies; systemd starts it again, through its ExecStartPre if it has one.
ServiceDies ==
    /\ trouble < Trouble
    /\ loop # "down"
    /\ loop' = "down"
    /\ answer' = "none"
    /\ migrator' = IF migrate_on_start THEN [migrator EXCEPT !["this"] = Resting] ELSE migrator
    /\ trouble' = trouble + 1
    /\ UNCHANGED <<migrate_on_start, schema, recorded, stale, expired>>

\* A worker falls silent, or a lease runs out.
TimePasses ==
    /\ 2 \in schema
    /\ \/ stale' = TRUE /\ UNCHANGED expired
       \/ expired' = TRUE /\ UNCHANGED stale
    /\ UNCHANGED <<migrate_on_start, schema, recorded, migrator, answer, loop, trouble>>

ServiceNext ==
    \/ \E who \in {"this", "before"} : Migrate(who) \/ MigratorFails(who)
    \/ ServiceStarts \/ check_storage \/ Wakes \/ expire_stale_workers
    \/ recover_expired_jobs \/ SweepFails \/ ServiceDies \/ TimePasses

-----------------------------------------------------------------------------
\* Control says that it is ready only when every migration of its own binary is in the
\* database: not when it was started on a database that is new or of the release before
\* and nobody has migrated it yet, nor between a file and its row, nor next to an older
\* migrator.
ReadyMeansMigrated == answer = "ready" => Required \subseteq schema

\* With migrateOnStart, the service gets past its migration from every database it may
\* find, whatever was killed on the way: nothing half done stands in its way for good.
MigrationCompletes ==
    (migrate_on_start /\ loop = "down") ~> (loop # "down" /\ Required \subseteq recorded)

\* A silent worker and an expired lease are dealt with in the end, although a failure of
\* the first sweep costs the second one its round, and also by a service that was started
\* on a database of the release before.
MaintenanceKeepsUp == (stale ~> ~stale) /\ (expired ~> ~expired)
=============================================================================
