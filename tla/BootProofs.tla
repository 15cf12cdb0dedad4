------------------------------ MODULE BootProofs -------------------------------
(***************************************************************************)
(* Theorems about Boot and Backoff, for any number of processes, of        *)
(* migrations, of starts and of faults, and any width of integers.         *)
(***************************************************************************)
EXTENDS Boot, FiniteSetTheorems, TLAPS

\* What a process knows at each place: how much of the schema is there, and,
\* about to commit a migration, that nobody else has.
Knows(p) ==
  /\ pc[p] = "createLedger" => at[p] = 0
  /\ pc[p] \in Booting \ {"ledger", "createLedger"} \/ pc[p] = "running" =>
       ledger /\ at[p] >= 1
  /\ pc[p] \in {"check", "apply", "create", "record", "commit"} =>
       1..(at[p] - 1) \subseteq versions
  /\ pc[p] \in {"apply", "create", "record", "commit"} => at[p] \in Migrations
  /\ pc[p] = "commit" => at[p] \notin versions
  /\ pc[p] \in {"user", "key", "redis", "running"} => versions = Migrations
  /\ pc[p] \in {"redis", "running"} => cfg[p].apiKey \in keys
PlacesKnow == \A p \in Processes : Knows(p)

\* One transaction at most has the tables of a migration nobody has committed.
HoldersDiffer ==
  \A p, q \in Processes : Holds(p, at[p]) /\ Holds(q, at[p]) => p = q

RunsCounted == \A m \in Migrations : runs[m] = IF m \in versions THEN 1 ELSE 0

IInv == /\ TypeOK /\ MigrationsWhole /\ PlacesKnow /\ HoldersDiffer
        /\ RunsCounted /\ LosersCanRestart

-------------------------------------------------------------------------------
(* The steps of a process change its own place, and the database only grows. *)

LEMMA Grows ==
  ASSUME TypeOK, [Next]_vars
  PROVE  /\ ledger => ledger'
         /\ bodies \subseteq bodies' /\ versions \subseteq versions'
         /\ keys \subseteq keys'
         /\ Faultless' => Faultless
<1> USE DEF database
<1>1. CASE UNCHANGED vars
  BY <1>1 DEF vars, Faultless
<1>2. ASSUME NEW kind \in FaultKinds, Fault(kind) PROVE ~Faultless'
  BY <1>2 DEF Fault, Faultless, TypeOK
<1>3. ASSUME NEW p \in Processes, New(p) \/ Crash(p) \/ Start(p)
      PROVE  /\ ledger => ledger'
             /\ bodies \subseteq bodies' /\ versions \subseteq versions'
             /\ keys \subseteq keys'
             /\ UNCHANGED faults \/ \E kind \in FaultKinds : Fault(kind)
  <2> USE DEF Succeeds, FaultKinds
  <2>1. CASE FindLedger(p) \/ CreateLedger(p)
    BY <2>1 DEF FindLedger, CreateLedger
  <2>2. CASE Check(p) \/ Apply(p) \/ Create(p) \/ Record(p)
    BY <2>2 DEF Check, Apply, Create, Record
  <2>3. CASE Commit(p)
    BY <2>3 DEF Commit
  <2>4. CASE UpsertUser(p) \/ CommitKey(p) \/ PingRedis(p) \/ StatementFails(p)
    BY <2>4 DEF UpsertUser, CommitKey, PingRedis, StatementFails
  <2>5. CASE Crash(p) \/ Start(p)
    BY <2>5 DEF Crash, Start
  <2>6. QED  BY <1>3, <2>1, <2>2, <2>3, <2>4, <2>5 DEF New, RunMigrations
<1>4. QED  BY <1>1, <1>2, <1>3 DEF Next, Faultless

\* A step is taken by one process, or by none.
LEMMA OthersStay ==
  ASSUME TypeOK, [Next]_vars
  PROVE  \/ UNCHANGED vars
         \/ \E p \in Processes :
              /\ New(p) \/ Crash(p) \/ Start(p)
              /\ \A q \in Processes \ {p} :
                   pc'[q] = pc[q] /\ at'[q] = at[q] /\ cfg'[q] = cfg[q]
<1> SUFFICES ASSUME NEW p \in Processes, New(p) \/ Crash(p) \/ Start(p),
                    NEW q \in Processes \ {p}
             PROVE  pc'[q] = pc[q] /\ at'[q] = at[q] /\ cfg'[q] = cfg[q]
  BY DEF Next
<1> USE DEF TypeOK, Goto, Advance, Succeeds
<1>1. CASE FindLedger(p) \/ CreateLedger(p)
  BY <1>1 DEF FindLedger, CreateLedger
<1>2. CASE Check(p) \/ Apply(p) \/ Create(p) \/ Record(p)
  BY <1>2 DEF Check, Apply, Create, Record
<1>3. CASE Commit(p)
  BY <1>3 DEF Commit
<1>4. CASE UpsertUser(p) \/ CommitKey(p) \/ PingRedis(p) \/ StatementFails(p)
  BY <1>4 DEF UpsertUser, CommitKey, PingRedis, StatementFails
<1>5. CASE Crash(p) \/ Start(p)
  BY <1>5 DEF Crash, Start
<1>6. QED  BY <1>1, <1>2, <1>3, <1>4, <1>5 DEF New, RunMigrations

-------------------------------------------------------------------------------
(* The invariant. *)

LEMMA InitInvariant == Init => IInv
<1> SUFFICES ASSUME Init PROVE IInv
  OBVIOUS
<1>1. cfg \in [Processes -> Config]
  BY BootAssumption DEF Init
<1>2. TypeOK
  <2>1. /\ ledger \in BOOLEAN
        /\ bodies \in SUBSET Migrations /\ versions \in SUBSET Migrations
        /\ keys \in SUBSET Keys
    BY DEF Init
  <2>2. pc \in [Processes -> Booting \cup {"running", "failed"}]
    BY DEF Init, Booting
  <2>3. 0 \in 0..(Count + 1)
    BY BootAssumption
  <2>4. at \in [Processes -> 0..(Count + 1)]
    BY <2>3 DEF Init
  <2>5. /\ boots \in [Processes -> Nat] /\ runs \in [Migrations -> Nat]
        /\ faults \in [FaultKinds -> Nat]
    BY DEF Init
  <2>6. QED  BY <1>1, <2>1, <2>2, <2>4, <2>5 DEF TypeOK
<1>3. PlacesKnow /\ HoldersDiffer /\ LosersCanRestart
  BY DEF Init, PlacesKnow, Knows, Booting, HoldersDiffer, Holds,
         LosersCanRestart, At
<1>4. MigrationsWhole /\ RunsCounted
  BY DEF Init, MigrationsWhole, RunsCounted
<1>5. QED  BY <1>2, <1>3, <1>4 DEF IInv

\* A table of counts stays one when a count is raised.
LEMMA CountRaised ==
  ASSUME NEW S, NEW m \in S, NEW count \in [S -> Nat]
  PROVE  [count EXCEPT ![m] = @ + 1] \in [S -> Nat]
OBVIOUS

LEMMA CommitType ==
  ASSUME IInv, NEW p \in Processes, Commit(p)
  PROVE  TypeOK'
<1>1. TypeOK /\ Knows(p) /\ Count \in Nat
  BY BootAssumption DEF IInv, PlacesKnow
<1>2. at[p] \in Migrations
  BY <1>1 DEF Commit, Knows, At
<1>3. bodies' = bodies \cup {at[p]} /\ versions' = versions \cup {at[p]}
  BY DEF Commit
<1>4. bodies' \in SUBSET Migrations /\ versions' \in SUBSET Migrations
  BY <1>1, <1>2, <1>3 DEF TypeOK
<1>5. runs' \in [Migrations -> Nat]
  BY <1>1, <1>2, CountRaised DEF TypeOK, Commit
<1>6. at' \in [Processes -> 0..(Count + 1)]
  <2>1. at[p] + 1 \in 0..(Count + 1)
    BY <1>1, <1>2 DEF Migrations
  <2>2. QED  BY <1>1, <2>1 DEF TypeOK, Commit, Advance
<1>7. pc' \in [Processes -> Booting \cup {"running", "failed"}]
  BY <1>1 DEF TypeOK, Commit, Succeeds, Goto, Booting
<1>8. faults' \in [FaultKinds -> Nat]
  <2>1. CASE Fault("db")
    <3>1. "db" \in FaultKinds
      BY DEF FaultKinds
    <3>2. QED  BY <1>1, <2>1, <3>1, CountRaised DEF TypeOK, Fault
  <2>2. CASE UNCHANGED faults
    BY <1>1, <2>2 DEF TypeOK
  <2>3. QED  BY <2>1, <2>2 DEF Commit, Succeeds
<1>9. ledger' \in BOOLEAN /\ keys' \in SUBSET Keys
      /\ cfg' \in [Processes -> Config] /\ boots' \in [Processes -> Nat]
  BY <1>1 DEF TypeOK, Commit
<1>10. QED  BY <1>4, <1>5, <1>6, <1>7, <1>8, <1>9 DEF TypeOK

LEMMA TypeStep == ASSUME IInv, [Next]_vars PROVE TypeOK'
<1> USE DEF TypeOK, IInv, Migrations
<1>1. CASE UNCHANGED vars
  BY <1>1 DEF vars
<1>2. ASSUME NEW kind \in FaultKinds, Fault(kind)
      PROVE  faults' \in [FaultKinds -> Nat]
  BY <1>2 DEF Fault
<1>3. ASSUME NEW p \in Processes, New(p) \/ Crash(p) \/ Start(p)
      PROVE  TypeOK'
  <2> USE BootAssumption, <1>2
      DEF Goto, Advance, Succeeds, At, Booting, FaultKinds, database
  <2>k. Knows(p)
    BY DEF PlacesKnow
  <2>1. CASE FindLedger(p)
    <3>1. /\ UNCHANGED <<ledger, bodies, versions, keys, runs, cfg, boots, faults>>
          /\ pc' \in [Processes -> Booting \cup {"running", "failed"}]
      BY <2>1 DEF FindLedger
    <3>2. (IF ledger THEN 1 ELSE 0) \in 0..(Count + 1)
      OBVIOUS
    <3>3. at' \in [Processes -> 0..(Count + 1)]
      BY <2>1, <3>2 DEF FindLedger
    <3>4. QED  BY <3>1, <3>3
  <2>2. CASE CreateLedger(p)
    <3>1. ASSUME Advance(p) PROVE at' \in [Processes -> 0..(Count + 1)]
      BY <2>2, <2>k, <3>1 DEF CreateLedger, Knows
    <3>2. QED  BY <2>2, <3>1 DEF CreateLedger
  <2>3. CASE Check(p)
    <3>1. at[p] \in versions => at[p] + 1 \in 0..(Count + 1)
      BY DEF TypeOK
    <3>2. at' \in [Processes -> 0..(Count + 1)]
      BY <2>3, <3>1 DEF Check
    <3>3. QED  BY <2>3, <3>2 DEF Check
  <2>4. CASE Apply(p) \/ Create(p) \/ Record(p)
    BY <2>4 DEF Apply, Create, Record
  <2>5. CASE Commit(p)
    BY <2>5, CommitType
  <2>6. CASE UpsertUser(p) \/ PingRedis(p) \/ StatementFails(p) \/ Crash(p)
    BY <2>6 DEF UpsertUser, PingRedis, StatementFails, Crash
  <2>7. CASE CommitKey(p)
    <3>1. cfg[p].apiKey \in Keys
      BY DEF Config
    <3>2. QED  BY <2>7, <3>1 DEF CommitKey
  <2>8. CASE Start(p)
    <3>1. cfg' \in [Processes -> Config]
      BY <2>8 DEF Start
    <3>2. 0 \in 0..(Count + 1) /\ boots' \in [Processes -> Nat]
      BY <2>8 DEF Start
    <3>3. QED  BY <2>8, <3>1, <3>2 DEF Start
  <2>9. QED
    BY <1>3, <2>1, <2>2, <2>3, <2>4, <2>5, <2>6, <2>7, <2>8
       DEF New, RunMigrations
<1>4. QED  BY <1>1, <1>3 DEF Next

\* Only a commit changes the schema, by the migration its process has come to.
LEMMA SchemaMoves ==
  ASSUME TypeOK, [Next]_vars
  PROVE  \/ UNCHANGED <<bodies, versions, runs>>
         \/ \E p \in Processes : Commit(p)
<1> USE DEF database
<1>1. CASE UNCHANGED vars
  BY <1>1 DEF vars
<1>2. ASSUME NEW p \in Processes, New(p) \/ Crash(p) \/ Start(p), ~Commit(p)
      PROVE  UNCHANGED <<bodies, versions, runs>>
  BY <1>2 DEF New, RunMigrations, FindLedger, CreateLedger, Check, Apply, Create,
              Record, UpsertUser, CommitKey, PingRedis, StatementFails, Crash, Start
<1>3. QED  BY <1>1, <1>2 DEF Next

LEMMA WholeStep == ASSUME IInv, [Next]_vars PROVE MigrationsWhole'
<1>1. CASE UNCHANGED <<bodies, versions, runs>>
  BY <1>1 DEF IInv, MigrationsWhole
<1>2. ASSUME NEW p \in Processes, Commit(p) PROVE MigrationsWhole'
  <2>1. /\ at[p] \in Migrations
        /\ 1..(at[p] - 1) \subseteq versions
        /\ bodies = versions
        /\ bodies' = versions \cup {at[p]} /\ versions' = versions \cup {at[p]}
    BY <1>2 DEF Commit, At, IInv, PlacesKnow, Knows, MigrationsWhole
  <2>2. 1..at[p] \subseteq versions'
    BY <2>1, BootAssumption DEF Migrations
  <2>3. QED  BY <2>1, <2>2 DEF IInv, MigrationsWhole
<1>3. QED  BY <1>1, <1>2, SchemaMoves DEF IInv

LEMMA RunsStep == ASSUME IInv, [Next]_vars PROVE RunsCounted'
<1>1. CASE UNCHANGED <<bodies, versions, runs>>
  BY <1>1 DEF IInv, RunsCounted
<1>2. ASSUME NEW p \in Processes, Commit(p) PROVE RunsCounted'
  <2>1. /\ at[p] \in Migrations \ versions
        /\ runs' = [runs EXCEPT ![at[p]] = @ + 1]
        /\ versions' = versions \cup {at[p]}
        /\ runs \in [Migrations -> Nat]
    BY <1>2 DEF Commit, At, IInv, PlacesKnow, Knows, TypeOK
  <2>2. QED  BY <2>1 DEF IInv, RunsCounted
<1>3. QED  BY <1>1, <1>2, SchemaMoves DEF IInv

LEMMA HoldersStep == ASSUME IInv, [Next]_vars PROVE HoldersDiffer'
<1> SUFFICES ASSUME NEW p \in Processes, NEW q \in Processes,
                    Holds(p, at[p])', Holds(q, at[p])', p # q
             PROVE  FALSE
  BY DEF HoldersDiffer
<1> DEFINE m == at'[p]
<1>1. at'[p] = at'[q] /\ m \notin bodies' /\ m \notin bodies
  BY Grows DEF Holds, IInv
\* A process that holds was at create, or has held already.
<1>2. ASSUME NEW r \in Processes, Holds(r, at[r])', at'[r] \notin bodies
      PROVE  \/ Holds(r, at[r]) /\ at'[r] = at[r]
             \/ Create(r) /\ at'[r] = at[r]
  <2>1. CASE pc'[r] = pc[r] /\ at'[r] = at[r]
    BY <1>2, <2>1 DEF Holds
  <2>2. CASE New(r) \/ Crash(r) \/ Start(r)
    <3> USE <1>2 DEF Holds, Goto, IInv, TypeOK, At, database
    <3>1. CASE FindLedger(r) \/ CreateLedger(r)
      BY <3>1 DEF FindLedger, CreateLedger, Succeeds
    <3>2. CASE Check(r) \/ Apply(r)
      BY <3>2 DEF Check, Apply
    <3>3. CASE Create(r) \/ Record(r)
      BY <3>3 DEF Create, Record
    <3>4. CASE Commit(r)
      BY <3>4 DEF Commit, Succeeds
    <3>5. CASE UpsertUser(r) \/ CommitKey(r) \/ PingRedis(r) \/ StatementFails(r)
      BY <3>5 DEF UpsertUser, CommitKey, PingRedis, StatementFails, Succeeds
    <3>6. CASE Crash(r) \/ Start(r)
      BY <3>6 DEF Crash, Start
    <3>7. QED
      BY <2>2, <3>1, <3>2, <3>3, <3>4, <3>5, <3>6 DEF New, RunMigrations
  <2>3. QED  BY <2>1, <2>2, OthersStay DEF IInv, vars
<1>3. ASSUME NEW r \in Processes, Create(r), NEW s \in Processes \ {r},
             at'[s] = at'[r], Holds(s, at[s])', at'[r] \notin bodies
      PROVE  FALSE
  <2>1. at' = at /\ pc'[s] = pc[s]
    BY <1>3 DEF Create, Goto, IInv, TypeOK
  <2>2. Holds(s, at[r])
    BY <1>3, <2>1 DEF Holds
  <2>3. QED  BY <1>3, <2>2 DEF Create
<1>4. CASE Holds(p, at[p]) /\ Holds(q, at[q])
  <2>1. at[p] = at[q]
    BY <1>1, <1>2, <1>4 DEF Holds, Create
  <2>2. QED  BY <1>4, <2>1 DEF IInv, HoldersDiffer
<1>5. QED  BY <1>1, <1>2, <1>3, <1>4 DEF Holds

LEMMA PlacesStep == ASSUME IInv, [Next]_vars PROVE PlacesKnow'
<1> SUFFICES ASSUME NEW p \in Processes PROVE Knows(p)'
  BY DEF PlacesKnow
<1>1. Knows(p) /\ TypeOK /\ bodies = versions
  BY DEF IInv, PlacesKnow, MigrationsWhole
<1>2. TypeOK'
  BY TypeStep
\* The database grows, but not by the migration that p is about to commit.
<1>3. ASSUME pc'[p] = pc[p], at'[p] = at[p], cfg'[p] = cfg[p],
             pc[p] = "commit" => at[p] \notin versions'
      PROVE  Knows(p)'
  <2>1. /\ (ledger => ledger') /\ versions \subseteq versions' /\ keys \subseteq keys'
        /\ versions' \subseteq Migrations
    BY Grows, <1>2 DEF IInv, TypeOK
  <2>2. versions = Migrations => versions' = Migrations
    BY <2>1
  <2>3. QED  BY <1>1, <1>3, <2>1, <2>2 DEF Knows
<1>4. CASE UNCHANGED vars
  BY <1>1, <1>3, <1>4 DEF vars, Knows
<1>5. ASSUME NEW q \in Processes \ {p}, New(q) \/ Crash(q) \/ Start(q),
             pc'[p] = pc[p], at'[p] = at[p], cfg'[p] = cfg[p]
      PROVE  Knows(p)'
  <2>1. pc[p] = "commit" => at[p] \notin versions'
    <3>1. SUFFICES ASSUME pc[p] = "commit", at[p] \in versions' PROVE FALSE
      OBVIOUS
    <3>2. at[p] \notin versions
      BY <1>1, <3>1 DEF Knows
    <3>3. PICK r \in Processes : Commit(r)
      BY <3>1, <3>2, SchemaMoves DEF IInv
    <3>4. at[r] = at[p]
      BY <3>1, <3>2, <3>3 DEF Commit
    <3>5. r = p
      BY <1>1, <3>1, <3>2, <3>3, <3>4 DEF Commit, At, IInv, HoldersDiffer, Holds
    <3>6. QED  BY <1>1, <1>5, <3>1, <3>3, <3>5 DEF Commit, Succeeds, Goto, TypeOK
  <2>2. QED  BY <1>3, <1>5, <2>1
<1>6. ASSUME New(p) \/ Crash(p) \/ Start(p) PROVE Knows(p)'
  <2> USE <1>1 DEF Knows, TypeOK, At, Goto, Advance, Succeeds, Booting, Migrations,
                   database
  <2>1. CASE FindLedger(p)
    BY <2>1 DEF FindLedger
  <2>2. CASE CreateLedger(p)
    BY <2>2 DEF CreateLedger
  <2>3. CASE Check(p)
    <3>1. CASE at[p] \in versions
      BY <2>3, <3>1 DEF Check
    <3>2. CASE at[p] \in Migrations \ versions
      BY <2>3, <3>2 DEF Check
    <3>3. CASE at[p] \notin Migrations
      <4>1. versions = Migrations
        <5>1. at[p] = Count + 1 /\ 1..(at[p] - 1) \subseteq versions
          BY <2>3, <3>3, BootAssumption DEF Check
        <5>2. 1..Count \subseteq versions /\ versions \subseteq 1..Count
          BY <5>1, BootAssumption
        <5>3. QED  BY <5>2
      <4>2. QED  BY <2>3, <3>3, <4>1 DEF Check
    <3>4. QED  BY <3>1, <3>2, <3>3
  <2>4. CASE Apply(p) \/ Create(p) \/ Record(p)
    BY <2>4 DEF Apply, Create, Record
  <2>5. CASE Commit(p)
    BY <2>5 DEF Commit
  <2>6. CASE UpsertUser(p) \/ CommitKey(p) \/ PingRedis(p)
    BY <2>6 DEF UpsertUser, CommitKey, PingRedis
  <2>7. CASE StatementFails(p) \/ Crash(p) \/ Start(p)
    BY <2>7 DEF StatementFails, Crash, Start
  <2>8. QED
    BY <1>6, <2>1, <2>2, <2>3, <2>4, <2>5, <2>6, <2>7 DEF New, RunMigrations
<1>7. QED  BY <1>4, <1>5, <1>6, OthersStay DEF IInv

LEMMA LosersStep == ASSUME IInv, [Next]_vars PROVE LosersCanRestart'
<1> SUFFICES ASSUME NEW p \in Processes, Faultless', pc'[p] = "failed"
             PROVE  ledger' /\ (at'[p] = 0 \/ at'[p] \in versions')
  BY DEF LosersCanRestart, At
<1>1. /\ Faultless /\ TypeOK /\ bodies = versions /\ Knows(p)
      /\ (ledger => ledger') /\ versions \subseteq versions'
  BY Grows DEF IInv, MigrationsWhole, PlacesKnow
<1>2. CASE pc'[p] = pc[p] /\ at'[p] = at[p]
  BY <1>1, <1>2 DEF IInv, LosersCanRestart, At
<1>3. ASSUME NEW kind \in FaultKinds PROVE ~Fault(kind)
  BY <1>1 DEF Fault, Faultless, TypeOK
<1>4. CASE New(p) \/ Crash(p) \/ Start(p)
  <2> USE <1>1, <1>3 DEF TypeOK, At, Goto, FaultKinds, Succeeds, Knows, database
  <2>1. CASE FindLedger(p) \/ CreateLedger(p)
    BY <2>1 DEF FindLedger, CreateLedger
  <2>2. CASE Check(p) \/ Apply(p) \/ Commit(p)
    BY <2>2 DEF Check, Apply, Commit
  <2>3. CASE Create(p) \/ Record(p)
    BY <2>3 DEF Create, Record, Booting
  <2>4. CASE UpsertUser(p) \/ CommitKey(p) \/ PingRedis(p) \/ StatementFails(p)
    BY <2>4 DEF UpsertUser, CommitKey, PingRedis, StatementFails
  <2>5. CASE Crash(p) \/ Start(p)
    BY <2>5 DEF Crash, Start
  <2>6. QED  BY <1>4, <2>1, <2>2, <2>3, <2>4, <2>5 DEF New, RunMigrations
<1>5. QED  BY <1>2, <1>4, OthersStay DEF IInv, vars

\* The invariant holds in every reachable state.
THEOREM InvariantHolds == Spec => []IInv
<1>1. IInv /\ [Next]_vars => IInv'
  BY TypeStep, WholeStep, PlacesStep, HoldersStep, RunsStep, LosersStep DEF IInv
<1>2. QED  BY InitInvariant, <1>1, PTL DEF Spec

-------------------------------------------------------------------------------
(* Theorems. *)

\* The state has the shape TypeOK gives.
THEOREM TypeCorrect == Spec => []TypeOK
<1>1. IInv => TypeOK
  BY DEF IInv
<1>2. QED  BY <1>1, InvariantHolds, PTL

\* A server that runs has the whole schema and accepts its own API_KEY.
THEOREM RunningIsReadyHolds == Spec => []RunningIsReady
<1>1. IInv => RunningIsReady
  <2>1. TypeOK => \A p \in Processes : cfg[p].apiKey \in Keys
    BY DEF TypeOK, Config
  <2>2. QED
    BY <2>1, BootAssumption DEF IInv, MigrationsWhole, PlacesKnow, Knows, At,
       RunningIsReady, Authenticates
<1>2. QED  BY <1>1, InvariantHolds, PTL

\* Tables and version of a migration come together, in the order of the names.
THEOREM MigrationsWholeHolds == Spec => []MigrationsWhole
<1>1. IInv => MigrationsWhole
  BY DEF IInv
<1>2. QED  BY <1>1, InvariantHolds, PTL

\* No migration is committed twice.
THEOREM AppliedOnceHolds == Spec => []AppliedOnce
<1>1. IInv => AppliedOnce
  BY DEF IInv, RunsCounted, AppliedOnce
<1>2. QED  BY <1>1, InvariantHolds, PTL

\* A boot that fails without a fault gets past the point when it is repeated.
THEOREM LosersCanRestartHolds == Spec => []LosersCanRestart
<1>1. IInv => LosersCanRestart
  BY DEF IInv
<1>2. QED  BY <1>1, InvariantHolds, PTL
-------------------------------------------------------------------------------
(* Delays.  2^n is the number of subsets of 1..n: so it is known to be a     *)
(* natural number that grows with n, which is all that the delays need.      *)

LEMMA PowerIsNat ==
  ASSUME NEW n \in Nat
  PROVE  /\ IsFiniteSet(SUBSET (1..n)) /\ Cardinality(SUBSET (1..n)) = 2^n
         /\ 2^n \in Nat /\ 2^n >= 1
<1>1. IsFiniteSet(1..n) /\ Cardinality(1..n) = n
  BY FS_Interval
<1>2. IsFiniteSet(SUBSET (1..n)) /\ Cardinality(SUBSET (1..n)) = 2^n
  BY <1>1, FS_SUBSET
<1>3. Cardinality(SUBSET (1..n)) \in Nat
  BY <1>2, FS_CardinalityType
<1>4. Cardinality(SUBSET (1..n)) # 0
  <2>1. {} \in SUBSET (1..n)
    OBVIOUS
  <2>2. QED  BY <1>2, <2>1, FS_EmptySet
<1>5. QED  BY <1>2, <1>3, <1>4

LEMMA PowerGrows ==
  ASSUME NEW m \in Nat, NEW n \in Nat, m <= n
  PROVE  2^m <= 2^n
<1>1. SUBSET (1..m) \subseteq SUBSET (1..n)
  OBVIOUS
<1>2. Cardinality(SUBSET (1..m)) <= Cardinality(SUBSET (1..n))
  BY <1>1, PowerIsNat, FS_Subset
<1>3. QED  BY <1>2, PowerIsNat

LEMMA SmallMod ==
  ASSUME NEW a \in Nat, NEW m \in Nat, a < m
  PROVE  a % m = a
BY SMT

LEMMA WrapSmall ==
  ASSUME NEW x \in Nat, x < Half
  PROVE  Wrap(x) = x
<1>1. Half \in Nat
  BY PowerIsNat, BackoffAssumption DEF Half
<1>2. (x + Half) % (2 * Half) = x + Half
  <2> HIDE DEF Half
  <2>1. x + Half < 2 * Half /\ x + Half \in Nat /\ 2 * Half \in Nat
    BY <1>1
  <2>2. QED  BY <2>1, SmallMod
<1>3. QED  BY <1>1, <1>2 DEF Wrap

\* While the exact product fits the type, so does every factor of it.
LEMMA BackoffExact ==
  ASSUME NEW base \in Nat, NEW n \in Nat, base * 2^n < Half
  PROVE  Backoff(base, n) = base * 2^n
<1> DEFINE power == 2^n
<1>1. power \in Nat /\ power >= 1 /\ Half = 2^(Width - 1) /\ Half \in Nat /\ Half >= 1
  <2>1. power \in Nat /\ power >= 1
    BY PowerIsNat
  <2>2. Width - 1 \in Nat
    BY BackoffAssumption
  <2>3. 2^(Width - 1) \in Nat /\ 2^(Width - 1) >= 1
    BY <2>2, PowerIsNat
  <2>4. QED  BY <2>1, <2>3 DEF Half
<1>2. CASE base = 0
  <2>1. base * ShiftLeft(n) = 0 /\ base * 2^n = 0
    <3>1. ShiftLeft(n) \in Int
      <4>1. CASE n < Width
        <5>1. ShiftLeft(n) = ((power + Half) % (2 * Half)) - Half
          BY <4>1 DEF ShiftLeft, Wrap
        <5> HIDE DEF power
        <5>2. (power + Half) % (2 * Half) \in Int
          BY <1>1
        <5>3. QED  BY <1>1, <5>1, <5>2
      <4>2. CASE ~(n < Width)
        BY <4>2 DEF ShiftLeft
      <4>3. QED  BY <4>1, <4>2
    <3> HIDE DEF power
    <3>2. QED  BY <1>1, <1>2, <3>1 DEF power
  <2>2. QED  BY <1>1, <2>1, WrapSmall DEF Backoff
<1>3. CASE base # 0
  <2>1. power <= base * power
    <3> HIDE DEF power
    <3>1. (base - 1) * power >= 0
      BY <1>1, <1>3
    <3>2. (base - 1) * power = base * power - power
      BY <1>1, <1>3
    <3>3. base * power \in Nat
      BY <1>1
    <3>4. QED  BY <1>1, <3>1, <3>2, <3>3
  <2>2. base * power \in Nat
    <3> HIDE DEF power
    <3>1. QED  BY <1>1
  <2>3. power < Half
    <3>1. base * power < Half
      OBVIOUS
    <3> HIDE DEF power
    <3>2. QED  BY <1>1, <2>1, <2>2, <3>1
  <2>4. n < Width
    <3>1. CASE Width - 1 <= n
      <4>1. 2^(Width - 1) <= 2^n
        BY <3>1, PowerGrows, BackoffAssumption
      <4>2. Half <= power
        BY <1>1, <4>1
      <4> HIDE DEF power
      <4>3. QED  BY <1>1, <2>3, <4>2
    <3>2. CASE ~(Width - 1 <= n)
      BY <3>2, BackoffAssumption
    <3>3. QED  BY <3>1, <3>2
  <2>5. ShiftLeft(n) = power
    BY <1>1, <2>3, <2>4, WrapSmall DEF ShiftLeft
  <2>6. QED  BY <2>2, <2>5, WrapSmall DEF Backoff
<1>4. QED  BY <1>2, <1>3

\* Whatever environment a server has loaded, its delays double up to the limit,
\* as long as the exact product fits time.Duration: neither the product nor the
\* shift wraps around before.
THEOREM DelaysRightHolds == Spec => []DelaysRight
<1>1. TypeOK => DelaysRight
  <2> SUFFICES ASSUME TypeOK, NEW p \in Processes,
                      NEW attempt \in 1..(cfg[p].maxRetries + 1),
                      cfg[p].baseBackoff >= 0,
                      Doubled(cfg[p].baseBackoff, attempt) < Half
               PROVE  LET base == cfg[p].baseBackoff
                      IN  /\ RetryDelay(base, cfg[p].maxBackoff, attempt)
                               = Capped(Doubled(base, attempt), cfg[p].maxBackoff)
                          /\ WebhookDelay(base, attempt)
                               = Capped(Doubled(base, attempt), MaxWebhookDelay)
    BY DEF DelaysRight, DelayRight, Capped
  <2>1. cfg[p] \in Config
    BY DEF TypeOK
  <2>2. /\ cfg[p].baseBackoff \in Nat /\ attempt - 1 \in Nat
        /\ (IF attempt < 1 THEN 0 ELSE attempt - 1) = attempt - 1
    BY <2>1 DEF Config
  <2>3. Backoff(cfg[p].baseBackoff, attempt - 1) = Doubled(cfg[p].baseBackoff, attempt)
    BY <2>2, BackoffExact DEF Doubled
  <2>4. QED  BY <2>2, <2>3 DEF RetryDelay, WebhookDelay
<1>2. QED  BY <1>1, TypeCorrect, PTL
===============================================================================
