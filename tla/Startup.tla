------------------------------ MODULE Startup ------------------------------
(***************************************************************************)
(* The start of the API and of the worker (core/database.py,               *)
(* core/migrations.py, main.py, worker.py, core/heartbeat.py).  Each opens *)
(* a pool, makes sure of the tracking table, applies the pending           *)
(* migrations and goes on; nothing keeps the two from doing so at the same *)
(* time.  A process that fails exits, and Compose starts it again.         *)
(*                                                                         *)
(* Each statement outside of a transaction is a step.  The transaction of  *)
(* a migration is one step: it takes effect as a whole or not at all.      *)
(* Versions are numbered in the order of their files.  The contents of the *)
(* database is abstracted to: the form of the tracking table and its rows, *)
(* the form of the ledger, how often each file was executed, the heartbeat.*)
(***************************************************************************)
EXTENDS Naturals, FiniteSets

CONSTANTS
  Forms,        \* forms of the tracking table the deployment starts with
  Last,         \* number of migrations
  LedgerVersion, HeartbeatVersion, NullsVersion,  \* 003, 004, 006
  PoolAttempts, \* _POOL_STARTUP_ATTEMPTS
  MaxFaults,    \* bound: kills, lost connections, races for the catalogue
  MaxOutages    \* bound: times the database goes away

Version == 1..Last
Proc == {"api", "worker"}

ASSUME StartupAssumption ==
  /\ Forms \subseteq {"none", "legacy", "foreign", "current"}
  /\ Last \in Nat
  /\ LedgerVersion \in Version /\ HeartbeatVersion \in Version
  /\ NullsVersion \in Version /\ LedgerVersion < NullsVersion
  /\ PoolAttempts \in Nat \ {0} /\ MaxFaults \in Nat /\ MaxOutages \in Nat

VARIABLES
  dbUp,         \* Postgres accepts connections
  table,        \* form of schema_migrations
  applied,      \* its rows: checksum of the file, another one, or no row
  ledger,       \* columns of llm_request_ledger: none, those before or of 003
  executed,     \* history: how often the SQL of a version took effect
  beat,         \* worker_heartbeat: no table, stale, or fresh
  pc, known, version, attempt,    \* of a process
  faults, outages

dbvars   == <<table, applied, ledger, executed, beat>>
procvars == <<pc, known, version, attempt>>
vars == <<dbUp, dbvars, procvars, faults, outages>>

PC == {"off", "pool", "exists", "version", "name", "drop", "create", "read",
       "apply", "lead", "up"}

Booting == PC \ {"off", "pool", "up"}

NoRows == [v \in Version |-> "none"]

\* A deployment: nothing yet, one of before the restore, one that a release
\* brought to some version, one of another program.
Init ==
  /\ dbUp \in BOOLEAN
  /\ table \in Forms
  /\ \E k \in 0..Last :
       /\ table # "current" => k = 0
       /\ applied \in {f \in [Version -> {"none", "same", "other"}] :
                         \A v \in Version : f[v] = "none" <=> v > k}
       /\ executed = [v \in Version |-> IF v <= k THEN 1 ELSE 0]
       /\ beat = IF k >= HeartbeatVersion THEN "stale" ELSE "none"
  /\ ledger = IF table = "none" THEN "none" ELSE "legacy"
  /\ pc = [p \in Proc |-> "off"]
  /\ known = [p \in Proc |-> NoRows]
  /\ version = [p \in Proc |-> 1]
  /\ attempt = [p \in Proc |-> 1]
  /\ faults = 0 /\ outages = 0

-----------------------------------------------------------------------------
Goto(p, next) == pc' = [pc EXCEPT ![p] = next]

Exit(p) == /\ pc' = [pc EXCEPT ![p] = "off"]
           /\ known' = [known EXCEPT ![p] = NoRows]
           /\ version' = [version EXCEPT ![p] = 1]
           /\ attempt' = [attempt EXCEPT ![p] = 1]

Only(p, next) == Goto(p, next) /\ UNCHANGED <<known, version, attempt>>

env == <<dbUp, faults, outages>>

\* restart: unless-stopped
Start(p) ==
  /\ pc[p] = "off"
  /\ Only(p, "pool")
  /\ UNCHANGED <<env, dbvars>>

\* Mutant of Pool: it tries for ever.
PoolForever(p) ==
  /\ pc[p] = "pool"
  /\ IF dbUp THEN Only(p, "exists")
     ELSE /\ attempt' = [attempt EXCEPT ![p] = @ + 1]
          /\ UNCHANGED <<pc, known, version>>
  /\ UNCHANGED <<env, dbvars>>

\* init_pool
Pool(p) ==
  /\ pc[p] = "pool"
  /\ IF dbUp THEN Only(p, "exists")
     ELSE IF attempt[p] = PoolAttempts THEN Exit(p)
     ELSE /\ attempt' = [attempt EXCEPT ![p] = @ + 1]
          /\ UNCHANGED <<pc, known, version>>
  /\ UNCHANGED <<env, dbvars>>

At(p, where) == pc[p] = where /\ dbUp /\ UNCHANGED env

-----------------------------------------------------------------------------
(* _ensure_tracking_table: each query sees the table as it is by then. *)

Exists(p) ==
  /\ At(p, "exists")
  /\ Only(p, IF table = "none" THEN "create" ELSE "version")
  /\ UNCHANGED dbvars

HasVersion(p) ==
  /\ At(p, "version")
  /\ Only(p, IF table = "current" THEN "read" ELSE "name")
  /\ UNCHANGED dbvars

\* Mutant of HasName: the old form is unknown too.
HasNameRefuses(p) ==
  /\ At(p, "name")
  /\ Exit(p)
  /\ UNCHANGED dbvars

\* Neither column: MigrationError.
HasName(p) ==
  /\ At(p, "name")
  /\ IF table = "legacy" THEN Only(p, "drop") ELSE Exit(p)
  /\ UNCHANGED dbvars

\* Whatever the table has become, it is dropped.
Drop(p) ==
  /\ At(p, "drop")
  /\ IF table = "none" THEN Exit(p) ELSE Only(p, "create")
  /\ table' = "none" /\ applied' = NoRows
  /\ UNCHANGED <<ledger, executed, beat>>

\* IF NOT EXISTS
Create(p) ==
  /\ At(p, "create")
  /\ table' = IF table = "none" THEN "current" ELSE table
  /\ Only(p, "read")
  /\ UNCHANGED <<applied, ledger, executed, beat>>

-----------------------------------------------------------------------------
(* run_migrations *)

\* Mutant of ReadApplied: the first file is left out.
ReadSkipsFirst(p) ==
  /\ At(p, "read")
  /\ table = "current"
  /\ known' = [known EXCEPT ![p] = applied]
  /\ Goto(p, "apply")
  /\ version' = [version EXCEPT ![p] = 2]
  /\ UNCHANGED <<attempt, dbvars>>

ReadApplied(p) ==
  /\ At(p, "read")
  /\ IF table = "current"
     THEN /\ known' = [known EXCEPT ![p] = applied]
          /\ Goto(p, "apply")
          /\ UNCHANGED <<version, attempt>>
     ELSE Exit(p)
  /\ UNCHANGED dbvars

\* Mutant of Advance: the last file is left out.
AdvanceEarly(p) ==
  /\ IF version[p] < Last - 1 THEN version' = [version EXCEPT ![p] = @ + 1] /\ UNCHANGED pc
     ELSE /\ UNCHANGED version
          /\ Goto(p, IF p = "worker" THEN "lead" ELSE "up")
  /\ UNCHANGED <<known, attempt>>

\* On with the next file, or bootstrap_database returns.
Advance(p) ==
  /\ IF version[p] < Last THEN version' = [version EXCEPT ![p] = @ + 1] /\ UNCHANGED pc
     ELSE /\ UNCHANGED version
          /\ Goto(p, IF p = "worker" THEN "lead" ELSE "up")
  /\ UNCHANGED <<known, attempt>>

\* A version whose file has changed: MigrationError.
Applied(p) ==
  /\ At(p, "apply") /\ known[p][version[p]] # "none"
  /\ IF known[p][version[p]] = "same" THEN Advance(p) ELSE Exit(p)
  /\ UNCHANGED dbvars

\* 006 drops NOT NULL of columns that only a ledger older than 003 has.
SqlFails(v) == v = NullsVersion /\ ledger # "legacy"

\* Mutant of Track: ON CONFLICT DO NOTHING, so that the loser executes too.
TrackAny(v) == table = "current"

\* INSERT INTO schema_migrations: version is the primary key.
Track(v) == table = "current" /\ applied[v] = "none"

\* One transaction: the file, and its row.  Both CREATE TABLEs are IF NOT
\* EXISTS; 004 replaces a heartbeat table of the old form, and inserts a
\* heartbeat if there is none.
Apply(p) ==
  /\ At(p, "apply") /\ known[p][version[p]] = "none"
  /\ LET v == version[p]
     IN  IF SqlFails(v) \/ ~Track(v)
         THEN Exit(p) /\ UNCHANGED <<applied, ledger, executed, beat>>
         ELSE /\ Advance(p)
              /\ applied' = [applied EXCEPT ![v] = "same"]
              /\ executed' = [executed EXCEPT ![v] = @ + 1]
              /\ ledger' = IF v = LedgerVersion /\ ledger = "none" THEN "phase2" ELSE ledger
              /\ beat' = IF v = HeartbeatVersion /\ beat = "none" THEN "fresh" ELSE beat
  /\ UNCHANGED table

-----------------------------------------------------------------------------
(* The worker leads and beats; the API answers. *)

Beat(p) ==
  /\ p = "worker"
  /\ \/ At(p, "lead") /\ Only(p, "up")
     \/ At(p, "up") /\ UNCHANGED procvars
  /\ beat' = "fresh"
  /\ UNCHANGED <<table, applied, ledger, executed>>

\* The heartbeat outlives its interval by WORKER_HEARTBEAT_STALE_SECONDS only
\* when no worker renews it.
Stale ==
  /\ beat = "fresh"
  /\ pc["worker"] # "up" \/ ~dbUp
  /\ beat' = "stale"
  /\ UNCHANGED <<env, table, applied, ledger, executed, procvars>>

\* evaluate_readiness
Ready ==
  /\ pc["api"] = "up" /\ dbUp
  /\ table = "current" /\ applied[HeartbeatVersion] # "none"
  /\ beat = "fresh"

-----------------------------------------------------------------------------
\* A process is killed, or one of its statements fails: a lost connection, a
\* deadlock, two CREATE TABLE IF NOT EXISTS at once.
Fault(p) ==
  /\ pc[p] # "off" /\ faults < MaxFaults
  /\ faults' = faults + 1
  /\ Exit(p)
  /\ UNCHANGED <<dbUp, outages, dbvars>>

\* The database goes away: whoever boots fails, whoever is up keeps its pool.
DbDown ==
  /\ dbUp /\ outages < MaxOutages
  /\ dbUp' = FALSE
  /\ outages' = outages + 1
  /\ LET failing == {p \in Proc : pc[p] \in Booting}
     IN  /\ pc' = [p \in Proc |-> IF p \in failing THEN "off" ELSE pc[p]]
         /\ known' = [p \in Proc |-> IF p \in failing THEN NoRows ELSE known[p]]
         /\ version' = [p \in Proc |-> IF p \in failing THEN 1 ELSE version[p]]
         /\ attempt' = [p \in Proc |-> IF p \in failing THEN 1 ELSE attempt[p]]
  /\ UNCHANGED <<faults, dbvars>>

DbReady ==
  /\ ~dbUp
  /\ dbUp' = TRUE
  /\ UNCHANGED <<faults, outages, dbvars, procvars>>

Step(p) ==
  \/ Start(p) \/ Pool(p)
  \/ Exists(p) \/ HasVersion(p) \/ HasName(p) \/ Drop(p) \/ Create(p)
  \/ ReadApplied(p) \/ Applied(p) \/ Apply(p)
  \/ Beat(p)

Next == (\E p \in Proc : Step(p) \/ Fault(p)) \/ Stale \/ DbDown \/ DbReady

Spec == Init /\ [][Next]_vars

\* Compose starts a container that exited, every statement ends, and the
\* database comes back.
FairSpec == Spec /\ WF_vars(DbReady) /\ \A p \in Proc : WF_vars(Step(p))

-----------------------------------------------------------------------------
(* Properties. *)

TypeOK ==
  /\ dbUp \in BOOLEAN
  /\ table \in {"none", "legacy", "foreign", "current"}
  /\ applied \in [Version -> {"none", "same", "other"}]
  /\ table # "current" => applied = NoRows
  /\ ledger \in {"none", "legacy", "phase2"}
  /\ executed \in [Version -> Nat]
  /\ beat \in {"none", "stale", "fresh"}
  /\ pc \in [Proc -> PC]
  /\ known \in [Proc -> [Version -> {"none", "same", "other"}]]
  /\ version \in [Proc -> Version]
  /\ attempt \in [Proc -> 1..PoolAttempts]
  /\ faults \in 0..MaxFaults /\ outages \in 0..MaxOutages

\* Whoever gets past bootstrap_database finds the effect of every migration,
\* though another process may have applied them, failed half way, or dropped
\* the tracking table.
UpIsMigrated ==
  \A p \in Proc : pc[p] \in {"lead", "up"} =>
    \A v \in Version : executed[v] > 0

\* A recorded version has been executed, and so has every version before it,
\* whichever process executed them: a row and its file are one transaction.
RecordedIsExecuted ==
  \A v \in Version : applied[v] # "none" => \A w \in 1..v : executed[w] > 0

\* A file is executed once, and a second time only because each process may
\* find the tracking table in its old form and drop it.
ExecutedAtMostTwice == \A v \in Version : executed[v] <= 2

\* A database migrated by other files is left as it is: no process gets up, no
\* row changes.
MismatchStops ==
  [][(\E v \in Version : applied[v] = "other") =>
       /\ UNCHANGED <<table, ledger>>
       /\ \A v \in Version : applied[v] = "other" => applied'[v] = "other"
       /\ \A p \in Proc : pc'[p] \notin {"lead", "up"}]_vars

Compatible == table # "foreign" /\ \A v \in Version : applied[v] # "other"

\* docker-compose.yml 3: plug-and-play.  On a compatible database both
\* processes get up and the system gets ready, whatever they do to each other
\* meanwhile.
ComesUp == Compatible ~> (\A p \in Proc : pc[p] = "up") /\ Ready
=============================================================================
