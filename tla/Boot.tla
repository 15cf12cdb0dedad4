---------------------------------- MODULE Boot ---------------------------------
(***************************************************************************)
(* The start of the program: config.Load, app.New with                     *)
(* postgres.RunMigrations and UpsertUserWithAPIKey, until the server runs. *)
(* Several processes boot on one database at the same time, die, and are   *)
(* started again, perhaps with another environment.                        *)
(*                                                                         *)
(* The statements of a transaction take effect at its commit; until then   *)
(* they hold locks, which the place of the process tells.  A process that  *)
(* gets an error panics: what it had not committed is rolled back.         *)
(*                                                                         *)
(* Left out: the user's email, indexes and columns of the tables, the      *)
(* settings that are only handed on, and the listening socket; and the     *)
(* settings New refuses before it reaches the database, a LOG_LEVEL or     *)
(* DATABASE_URL that does not parse, with which no start ever succeeds.    *)
(* An operator whose name ends in _bug is a mutant of the one after it.    *)
(***************************************************************************)
EXTENDS Backoff

CONSTANTS
  Processes,    \* server processes that share the database
  Count,        \* the number of files migrations/*.sql, numbered by name
  Environments, \* the environments a process may be started with
  Unset,        \* a variable that is missing or empty
  Garbage,      \* a value that does not parse
  Keys,         \* the values API_KEY may have, the fallback among them
  MaxBoots,     \* bound: how often each process is started
  MaxFaults     \* bound: how often each kind of fault may happen

FaultKinds == {"db", "redis", "crash"}
Migrations == 1..Count

\* config.Load: a text falls back when missing, a number also when it does not
\* parse.
Text(value, fallback) == IF value = Unset THEN fallback ELSE value
Parsed(value, fallback) == IF value \in {Unset, Garbage} THEN fallback ELSE value
Load(env) ==
  [apiKey      |-> Text(env.apiKey, "dev-secret-key"),
   maxRetries  |-> Parsed(env.maxRetries, 3),
   baseBackoff |-> Parsed(env.baseBackoff, 2 * Second),
   maxBackoff  |-> Parsed(env.maxBackoff, 30 * Second)]

Config == [apiKey : Keys, maxRetries : Int, baseBackoff : Int, maxBackoff : Int]

ASSUME BootAssumption ==
  /\ Count \in Nat
  /\ MaxBoots \in Nat
  /\ MaxFaults \in [FaultKinds -> Nat]
  /\ Unset \notin Keys
  /\ \A env \in Environments : Load(env) \in Config

VARIABLES
  ledger,   \* does table schema_migrations exist?
  bodies,   \* migrations whose statements have been committed
  versions, \* rows of schema_migrations
  keys,     \* rows of api_keys
  pc,       \* where each process is
  at,       \* the migration each process has come to
  cfg,      \* what each process has loaded
  boots,    \* how often each process was started
  runs,     \* history: how many committed transactions ran each migration
  faults    \* how many faults of each kind have happened

database == <<ledger, bodies, versions, keys, runs>>
vars == <<ledger, bodies, versions, keys, pc, at, cfg, boots, runs, faults>>

Booting == {"ledger", "createLedger", "check", "apply", "create", "record",
            "commit", "user", "key", "redis"}
At(p, point) == pc[p] = point
Goto(p, point) == pc' = [pc EXCEPT ![p] = point]
Advance(p) == at' = [at EXCEPT ![p] = @ + 1]

Fault(kind) ==
  /\ faults[kind] < MaxFaults[kind]
  /\ faults' = [faults EXCEPT ![kind] = @ + 1]

\* A statement has its effect and the process goes on, or gets an error of the
\* database although it had its effect.
Succeeds(p, next) ==
  \/ Goto(p, next) /\ UNCHANGED faults
  \/ Goto(p, "failed") /\ Fault("db")

-------------------------------------------------------------------------------
(* RunMigrations *)

\* CREATE TABLE IF NOT EXISTS looks for the table, then creates it: another
\* process may have created it in between, which is an error.
FindLedger(p) ==
  /\ At(p, "ledger")
  /\ Goto(p, IF ledger THEN "check" ELSE "createLedger")
  /\ at' = [at EXCEPT ![p] = IF ledger THEN 1 ELSE 0]
  /\ UNCHANGED <<database, cfg, boots, faults>>

CreateLedger(p) ==
  /\ At(p, "createLedger")
  /\ \/ /\ ledger
        /\ Goto(p, "failed")
        /\ UNCHANGED <<ledger, at, faults>>
     \/ /\ ~ledger
        /\ ledger' = TRUE
        /\ Succeeds(p, "check")
        /\ Advance(p)
  /\ UNCHANGED <<bodies, versions, keys, runs, cfg, boots>>

\* SELECT EXISTS, in a statement of its own, decides what the loop does next.
Check_bug(p) ==  \* one file too many
  /\ At(p, "check")
  /\ \/ at[p] > Count + 1 /\ Goto(p, "user") /\ UNCHANGED at
     \/ at[p] \in versions /\ Advance(p) /\ UNCHANGED pc
     \/ at[p] \in 1..(Count + 1) \ versions /\ Goto(p, "apply") /\ UNCHANGED at
  /\ UNCHANGED <<database, cfg, boots, faults>>
Check(p) ==
  /\ At(p, "check")
  /\ \/ at[p] \notin Migrations /\ Goto(p, "user") /\ UNCHANGED at
     \/ at[p] \in versions /\ Advance(p) /\ UNCHANGED pc
     \/ at[p] \in Migrations \ versions /\ Goto(p, "apply") /\ UNCHANGED at
  /\ UNCHANGED <<database, cfg, boots, faults>>

\* Begin and Exec of the body, all CREATE ... IF NOT EXISTS: nothing to do, or
\* tables to create.
Apply(p) ==
  /\ At(p, "apply")
  /\ Goto(p, IF at[p] \in bodies THEN "record" ELSE "create")
  /\ UNCHANGED <<database, at, cfg, boots, faults>>

\* The transaction of q has created the tables of migration m.
Holds(q, m) == pc[q] \in {"record", "commit"} /\ at[q] = m /\ m \notin bodies

\* Creating waits for another transaction that has; if that commits, it fails.
Create_bug(p) ==
  /\ At(p, "create")
  /\ \/ /\ \E q \in Processes : Holds(q, at[p])
        /\ Goto(p, "failed")
     \/ /\ ~ \E q \in Processes : Holds(q, at[p])
        /\ Goto(p, IF at[p] \in bodies THEN "failed" ELSE "record")
  /\ UNCHANGED <<database, at, cfg, boots, faults>>
Create(p) ==
  /\ At(p, "create")
  /\ ~ \E q \in Processes : Holds(q, at[p])
  /\ Goto(p, IF at[p] \in bodies THEN "failed" ELSE "record")
  /\ UNCHANGED <<database, at, cfg, boots, faults>>

\* INSERT INTO schema_migrations: the version is the primary key.
Record_bug(p) ==  \* ON CONFLICT DO NOTHING
  /\ At(p, "record")
  /\ Goto(p, "commit")
  /\ UNCHANGED <<database, at, cfg, boots, faults>>
Record(p) ==
  /\ At(p, "record")
  /\ Goto(p, IF at[p] \in versions THEN "failed" ELSE "commit")
  /\ UNCHANGED <<database, at, cfg, boots, faults>>

Commit_bug(p) ==  \* the row is inserted outside the transaction
  /\ At(p, "commit")
  /\ versions' = versions \cup {at[p]}
  /\ runs' = [runs EXCEPT ![at[p]] = @ + 1]
  /\ \/ bodies' = bodies \cup {at[p]} /\ Goto(p, "check") /\ UNCHANGED faults
     \/ UNCHANGED bodies /\ Goto(p, "failed") /\ Fault("db")
  /\ Advance(p)
  /\ UNCHANGED <<ledger, keys, cfg, boots>>
Commit(p) ==
  /\ At(p, "commit")
  /\ bodies' = bodies \cup {at[p]}
  /\ versions' = versions \cup {at[p]}
  /\ runs' = [runs EXCEPT ![at[p]] = @ + 1]
  /\ Succeeds(p, "check")
  /\ Advance(p)
  /\ UNCHANGED <<ledger, keys, cfg, boots>>

-------------------------------------------------------------------------------
(* UpsertUserWithAPIKey, one transaction, and the rest of app.New *)

\* The upsert of the user waits for another transaction that has its row.
UpsertUser_bug(p) ==  \* a lock of the session, which a server keeps
  /\ At(p, "user")
  /\ ~ \E q \in Processes : pc[q] \in {"key", "redis", "running"}
  /\ Goto(p, "key")
  /\ UNCHANGED <<database, at, cfg, boots, faults>>
UpsertUser(p) ==
  /\ At(p, "user")
  /\ ~ \E q \in Processes : At(q, "key")
  /\ Goto(p, "key")
  /\ UNCHANGED <<database, at, cfg, boots, faults>>

\* The key is inserted, or given to the user again, and committed with the user.
CommitKey_bug(p) ==  \* only the rollback that was deferred
  /\ At(p, "key")
  /\ Goto(p, "redis")
  /\ UNCHANGED <<database, at, cfg, boots, faults>>
CommitKey(p) ==
  /\ At(p, "key")
  /\ keys' = keys \cup {cfg[p].apiKey}
  /\ Succeeds(p, "redis")
  /\ UNCHANGED <<ledger, bodies, versions, runs, at, cfg, boots>>

PingRedis(p) ==
  /\ At(p, "redis")
  /\ \/ Goto(p, "running") /\ UNCHANGED faults
     \/ Goto(p, "failed") /\ Fault("redis")
  /\ UNCHANGED <<database, at, cfg, boots>>

\* Any statement, the first ping included, may fail without an effect.
StatementFails(p) ==
  /\ pc[p] \in Booting \ {"redis"}
  /\ Fault("db")
  /\ Goto(p, "failed")
  /\ UNCHANGED <<database, at, cfg, boots>>

RunMigrations(p) ==
  \/ FindLedger(p) \/ CreateLedger(p) \/ Check(p) \/ Apply(p) \/ Create(p)
  \/ Record(p) \/ Commit(p)
New(p) ==
  \/ RunMigrations(p) \/ UpsertUser(p) \/ CommitKey(p) \/ PingRedis(p)
  \/ StatementFails(p)

-------------------------------------------------------------------------------
(* Processes die and are started. *)

Crash(p) ==
  /\ pc[p] \in Booting \cup {"running"}
  /\ Fault("crash")
  /\ Goto(p, "failed")
  /\ UNCHANGED <<database, at, cfg, boots>>

Start(p) ==
  /\ At(p, "failed")
  /\ boots[p] < MaxBoots
  /\ boots' = [boots EXCEPT ![p] = @ + 1]
  /\ \E env \in Environments : cfg' = [cfg EXCEPT ![p] = Load(env)]
  /\ at' = [at EXCEPT ![p] = 0]
  /\ Goto(p, "ledger")
  /\ UNCHANGED <<database, faults>>

Init ==
  /\ ledger = FALSE
  /\ bodies = {} /\ versions = {} /\ keys = {}
  /\ pc = [p \in Processes |-> "ledger"]
  /\ at = [p \in Processes |-> 0]
  /\ cfg \in [Processes -> {Load(env) : env \in Environments}]
  /\ boots = [p \in Processes |-> 1]
  /\ runs = [m \in Migrations |-> 0]
  /\ faults = [kind \in FaultKinds |-> 0]

Next == \E p \in Processes : New(p) \/ Crash(p) \/ Start(p)

Spec == Init /\ [][Next]_vars

\* A process runs until it serves or fails; nothing need start it again.
FairSpec == Spec /\ \A p \in Processes : WF_vars(New(p))

-------------------------------------------------------------------------------
(* Properties. *)

TypeOK ==
  /\ ledger \in BOOLEAN
  /\ bodies \in SUBSET Migrations
  /\ versions \in SUBSET Migrations
  /\ keys \in SUBSET Keys
  /\ pc \in [Processes -> Booting \cup {"running", "failed"}]
  /\ at \in [Processes -> 0..(Count + 1)]
  /\ cfg \in [Processes -> Config]
  /\ boots \in [Processes -> Nat]
  /\ runs \in [Migrations -> Nat]
  /\ faults \in [FaultKinds -> Nat]

\* RequireAPIKey lets a request with key k through.
Authenticates(k) == k # Unset /\ k \in keys

\* A server that answers requests has the whole schema, and its own API_KEY is
\* accepted, whoever else was booting, dying or failing meanwhile.
RunningIsReady ==
  \A p \in Processes :
    At(p, "running") => /\ ledger /\ versions = Migrations /\ bodies = Migrations
                        /\ Authenticates(cfg[p].apiKey)

\* The tables of a migration and its row in schema_migrations come together,
\* and only after those of all migrations before it.
MigrationsWhole ==
  /\ bodies = versions
  /\ \A m \in versions : 1..m \subseteq versions

\* No migration is committed twice, however many processes find it missing.
AppliedOnce == \A m \in Migrations : runs[m] <= 1

\* A boot that fails without a fault, its settings being such that New gets to
\* the database, has lost a race for something that is there now: started again,
\* it gets past it.
Faultless == \A kind \in FaultKinds : faults[kind] = 0
LosersCanRestart ==
  \A p \in Processes :
    Faultless /\ At(p, "failed") => ledger /\ (at[p] = 0 \/ at[p] \in versions)

\* Whatever the environment holds, the delays of a server double up to the
\* limit, as long as the product fits time.Duration.
DelaysRight ==
  \A p \in Processes : \A attempt \in 1..(cfg[p].maxRetries + 1) :
    LET base == cfg[p].baseBackoff
        limit == cfg[p].maxBackoff
    IN  base >= 0 =>
          /\ DelayRight(RetryDelay(base, limit, attempt), base, limit, attempt)
          /\ DelayRight(WebhookDelay(base, attempt), base, MaxWebhookDelay, attempt)

\* No two boots wait for each other: each ends, serving or failed.
BootEnds == \A p \in Processes : pc[p] \in Booting ~> pc[p] \notin Booting
===============================================================================
