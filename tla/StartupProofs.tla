--------------------------- MODULE StartupProofs ---------------------------
(***************************************************************************)
(* What holds of the start of the two processes for any number of          *)
(* migrations, kills, outages and attempts, and for every form the tables  *)
(* may be found in.                                                        *)
(*                                                                         *)
(* A process works from a snapshot of schema_migrations that may be stale  *)
(* by the time it uses it.  Two facts survive this: what it has read or    *)
(* applied was executed (Snapshot, Progress), because executions are never *)
(* undone even when the rows that record them are dropped; and a table     *)
(* with rows of other files is never changed, so that its snapshot is not  *)
(* stale at all (Untouched).                                               *)
(***************************************************************************)
EXTENDS Startup, TLAPS

-----------------------------------------------------------------------------
(* The invariant. *)

Past == {"apply", "lead", "up"}

\* A process counts its files from the first one.
Resting == \A p \in Proc : pc[p] \notin Past => version[p] = 1

\* What a process read as applied was executed.
Snapshot == \A p \in Proc, v \in Version :
              known[p][v] # "none" => executed[v] > 0

\* So was what it has passed.
Progress ==
  \A p \in Proc : pc[p] = "apply" =>
    \A v \in Version : v < version[p] => executed[v] > 0

\* Nobody but those that saw the old form may drop the table, and after the
\* first drop one of them is left: a file was executed once for its row, if it
\* has one, and once more when nobody is left.
Dropping == \E p \in Proc : pc[p] = "drop"

Drops ==
  /\ \A p, q \in Proc : pc[p] = "drop" /\ pc[q] = "drop" /\ p # q => table = "legacy"
  /\ \A v \in Version :
       /\ executed[v] <= 2
       /\ applied[v] = "none" => executed[v] <= 1
       /\ Dropping \/ table = "legacy" =>
            /\ executed[v] <= 1
            /\ applied[v] = "none" => executed[v] = 0

\* With rows of other files every process stops before it gets past them.
Untouched ==
  \A v \in Version : applied[v] = "other" =>
    /\ table = "current"
    /\ \A u \in Version : u <= v => applied[u] # "none"
    /\ \A p \in Proc :
         /\ pc[p] \notin {"name", "drop", "create", "lead", "up"}
         /\ pc[p] = "apply" => known[p] = applied /\ version[p] <= v

Inv == /\ TypeOK /\ Resting /\ Snapshot /\ Progress
       /\ RecordedIsExecuted /\ UpIsMigrated /\ Drops /\ Untouched

-----------------------------------------------------------------------------

LEMMA Versions == Version \subseteq Nat /\ 1 \in Version /\ Last \in Version
BY StartupAssumption DEF StartupAssumption, Version

\* The initial states.
LEMMA InitInv == Init => Inv
<1>. SUFFICES ASSUME Init PROVE Inv
  OBVIOUS
<1>0. PICK k \in 0..Last :
       /\ table # "current" => k = 0
       /\ applied \in {f \in [Version -> {"none", "same", "other"}] :
                         \A v \in Version : f[v] = "none" <=> v > k}
       /\ executed = [v \in Version |-> IF v <= k THEN 1 ELSE 0]
       /\ beat = IF k >= HeartbeatVersion THEN "stale" ELSE "none"
  BY DEF Init
<1>1. TypeOK
  <2>1. table # "current" => applied = NoRows
    BY <1>0, Versions DEF NoRows, Version
  <2>2. /\ beat \in {"none", "stale", "fresh"} /\ executed \in [Version -> Nat]
    BY <1>0
  <2>3. 1 \in 1..PoolAttempts /\ 0 \in 0..MaxFaults /\ 0 \in 0..MaxOutages
    BY StartupAssumption DEF StartupAssumption
  <2>4. table \in {"none", "legacy", "foreign", "current"}
    BY StartupAssumption DEF StartupAssumption, Init
  <2>. QED
    BY <1>0, <2>1, <2>2, <2>3, <2>4, Versions DEF Init, TypeOK, PC, NoRows
<1>2. Resting /\ Snapshot /\ Progress /\ UpIsMigrated
  BY DEF Init, Resting, Snapshot, Progress, UpIsMigrated, Past, NoRows
<1>3. RecordedIsExecuted
  BY <1>0, Versions DEF RecordedIsExecuted, Version
<1>4. Drops
  BY <1>0, Versions DEF Init, Drops, Dropping, Version
<1>5. Untouched
  BY <1>0, Versions DEF Init, Untouched, Version
<1>. QED
  BY <1>1, <1>2, <1>3, <1>4, <1>5 DEF Inv

-----------------------------------------------------------------------------
(* What a step does. *)

\* A process moves alone, but for an outage.
LEMMA StepOthers ==
  ASSUME TypeOK, NEW p \in Proc, Step(p) \/ Fault(p)
  PROVE  \A q \in Proc \ {p} :
           /\ pc'[q] = pc[q] /\ known'[q] = known[q]
           /\ version'[q] = version[q] /\ attempt'[q] = attempt[q]
BY DEF Step, Fault, Start, Pool, Exists, HasVersion, HasName, Drop, Create,
       ReadApplied, Applied, Apply, Beat, At, Only, Exit, Goto, Advance, TypeOK,
       procvars

\* Executions are never undone.
LEMMA ExecutedGrows ==
  ASSUME TypeOK, [Next]_vars
  PROVE  \A v \in Version : executed[v] \in Nat /\ executed'[v] \in Nat
                            /\ executed'[v] >= executed[v]
<1>1. \A v \in Version : executed[v] \in Nat
  BY DEF TypeOK
<1>2. ASSUME NEW p \in Proc, Apply(p)
      PROVE  \A v \in Version : executed'[v] = executed[v] \/ executed'[v] = executed[v] + 1
  BY <1>2 DEF Apply, TypeOK
<1>3. ASSUME NEW p \in Proc, Step(p), ~Apply(p) PROVE executed' = executed
  BY <1>3 DEF Step, Start, Pool, Exists, HasVersion, HasName, Drop, Create,
              ReadApplied, Applied, Beat, dbvars
<1>4. ASSUME \/ \E p \in Proc : Fault(p)
             \/ Stale \/ DbDown \/ DbReady \/ UNCHANGED vars
      PROVE  executed' = executed
  BY <1>4 DEF Fault, Stale, DbDown, DbReady, vars, dbvars
<1>. QED
  BY <1>1, <1>2, <1>3, <1>4 DEF Next

\* Any step is that of a process, or changes no table: staleness, an outage.
LEMMA NextKinds ==
  ASSUME TypeOK, [Next]_vars
  PROVE  \/ \E p \in Proc : Step(p)
         \/ /\ UNCHANGED <<table, applied, ledger, executed>>
            /\ beat' = beat \/ beat' = "stale"
            /\ \A p \in Proc :
                 \/ pc'[p] = "off" /\ known'[p] = NoRows /\ version'[p] = 1
                    /\ attempt'[p] = 1
                 \/ /\ pc'[p] = pc[p] /\ known'[p] = known[p]
                    /\ version'[p] = version[p] /\ attempt'[p] = attempt[p]
<1>1. ASSUME NEW p \in Proc, Fault(p)
      PROVE  /\ UNCHANGED dbvars
             /\ pc'[p] = "off" /\ known'[p] = NoRows /\ version'[p] = 1
             /\ attempt'[p] = 1
  BY <1>1 DEF Fault, Exit, TypeOK
<1>2. ASSUME NEW p \in Proc, Fault(p)
      PROVE  \A q \in Proc \ {p} :
               /\ pc'[q] = pc[q] /\ known'[q] = known[q]
               /\ version'[q] = version[q] /\ attempt'[q] = attempt[q]
  BY <1>2, StepOthers
<1>3. CASE DbDown
  BY <1>3 DEF DbDown, TypeOK, dbvars
<1>4. CASE Stale \/ DbReady \/ UNCHANGED vars
  BY <1>4 DEF Stale, DbReady, vars, dbvars, procvars
<1>. QED
  BY <1>1, <1>2, <1>3, <1>4 DEF Next, dbvars

-----------------------------------------------------------------------------
(* Types. *)

Typed(p) == /\ pc'[p] \in PC
            /\ known'[p] \in [Version -> {"none", "same", "other"}]
            /\ version'[p] \in Version /\ attempt'[p] \in 1..PoolAttempts

LEMMA ExitTyped == ASSUME TypeOK, NEW p \in Proc, Exit(p) PROVE Typed(p)
<1>1. 1 \in 1..PoolAttempts
  BY StartupAssumption DEF StartupAssumption
<1>. QED
  BY <1>1, Versions DEF Exit, Typed, TypeOK, NoRows, PC

LEMMA AdvanceTyped == ASSUME TypeOK, NEW p \in Proc, Advance(p) PROVE Typed(p)
<1>1. version[p] \in Version /\ Last \in Nat
  BY StartupAssumption DEF TypeOK, StartupAssumption
<1>2. version'[p] \in Version
  BY <1>1 DEF Advance, TypeOK, Version
<1>. QED
  BY <1>2 DEF Advance, Goto, Typed, TypeOK, PC

LEMMA StepTyped == ASSUME TypeOK, NEW p \in Proc, Step(p) PROVE Typed(p)
<1>1. ASSUME Only(p, pc'[p]), pc'[p] \in PC PROVE Typed(p)
  BY <1>1 DEF Only, Typed, TypeOK
<1>2. CASE Start(p)
  BY <1>1, <1>2 DEF Start, Only, Goto, TypeOK, PC
<1>3. CASE Pool(p)
  <2>1. CASE dbUp
    BY <1>1, <1>3, <2>1 DEF Pool, Only, Goto, TypeOK, PC
  <2>2. CASE ~dbUp /\ attempt[p] = PoolAttempts
    BY <1>3, <2>2, ExitTyped DEF Pool
  <2>3. CASE ~dbUp /\ attempt[p] # PoolAttempts
    <3>1. attempt[p] \in 1..PoolAttempts /\ PoolAttempts \in Nat
      BY StartupAssumption DEF TypeOK, StartupAssumption
    <3>2. attempt'[p] = attempt[p] + 1 /\ UNCHANGED <<pc, known, version>>
      BY <1>3, <2>3 DEF Pool, TypeOK
    <3>3. attempt'[p] \in 1..PoolAttempts
      BY <2>3, <3>1, <3>2
    <3>. QED
      BY <3>2, <3>3 DEF Typed, TypeOK
  <2>. QED
    BY <2>1, <2>2, <2>3
<1>4. CASE Exists(p) \/ HasVersion(p) \/ Create(p)
  BY <1>1, <1>4 DEF Exists, HasVersion, Create, Only, Goto, TypeOK, PC
<1>5. CASE HasName(p) \/ Drop(p)
  <2>1. Exit(p) \/ Only(p, "drop") \/ Only(p, "create")
    BY <1>5 DEF HasName, Drop
  <2>. QED
    BY <1>1, <2>1, ExitTyped DEF Only, Goto, TypeOK, PC
<1>6. CASE ReadApplied(p)
  <2>1. CASE Exit(p)
    BY <2>1, ExitTyped
  <2>2. CASE ~Exit(p)
    BY <1>6, <2>2 DEF ReadApplied, Goto, Typed, TypeOK, PC
  <2>. QED
    BY <2>1, <2>2
<1>7. CASE Applied(p) \/ Apply(p)
  <2>1. Exit(p) \/ Advance(p)
    BY <1>7 DEF Applied, Apply
  <2>. QED
    BY <2>1, ExitTyped, AdvanceTyped
<1>8. CASE Beat(p)
  BY <1>1, <1>8 DEF Beat, Only, Goto, Typed, TypeOK, PC, procvars
<1>. QED
  BY <1>2, <1>3, <1>4, <1>5, <1>6, <1>7, <1>8 DEF Step

\* What the tables become.
LEMMA TablesTyped ==
  ASSUME TypeOK, NEW p \in Proc, Step(p)
  PROVE  /\ dbUp' \in BOOLEAN
         /\ table' \in {"none", "legacy", "foreign", "current"}
         /\ applied' \in [Version -> {"none", "same", "other"}]
         /\ table' # "current" => applied' = NoRows
         /\ ledger' \in {"none", "legacy", "phase2"}
         /\ executed' \in [Version -> Nat]
         /\ beat' \in {"none", "stale", "fresh"}
         /\ faults' = faults /\ outages' = outages
<1>1. CASE Apply(p)
  <2>0. /\ version[p] \in Version /\ table' = table
        /\ \A v \in Version : executed[v] + 1 \in Nat
    BY <1>1 DEF Apply, TypeOK
  <2>1. CASE UNCHANGED <<applied, ledger, executed, beat>>
    BY <1>1, <2>0, <2>1 DEF Apply, At, env, TypeOK
  <2>2. CASE ~ UNCHANGED <<applied, ledger, executed, beat>>
    <3>1. /\ table = "current"
          /\ applied' = [applied EXCEPT ![version[p]] = "same"]
          /\ executed' = [executed EXCEPT ![version[p]] = @ + 1]
      BY <1>1, <2>2 DEF Apply, Track
    <3>2. /\ applied' \in [Version -> {"none", "same", "other"}]
          /\ executed' \in [Version -> Nat]
      BY <2>0, <3>1 DEF TypeOK
    <3>3. ledger' \in {ledger, "phase2"} /\ beat' \in {beat, "fresh"}
      BY <1>1, <2>2 DEF Apply
    <3>. QED
      BY <1>1, <2>0, <3>1, <3>2, <3>3 DEF Apply, At, env, TypeOK
  <2>. QED
    BY <2>1, <2>2
<1>2. CASE Drop(p) \/ Create(p)
  BY <1>2 DEF Drop, Create, At, env, TypeOK, NoRows
<1>3. CASE Beat(p)
  BY <1>3 DEF Beat, At, env, TypeOK
<1>4. ASSUME UNCHANGED dbvars, UNCHANGED env
      PROVE  UNCHANGED <<dbUp, table, applied, ledger, executed, beat, faults, outages>>
  BY <1>4 DEF dbvars, env
<1>. QED
  BY <1>1, <1>2, <1>3, <1>4
     DEF Step, Start, Pool, Exists, HasVersion, HasName, ReadApplied, Applied,
         At, TypeOK

LEMMA InvType == ASSUME TypeOK, [Next]_vars PROVE TypeOK'
<1>1. /\ pc' = [p \in Proc |-> pc'[p]] /\ known' = [p \in Proc |-> known'[p]]
      /\ version' = [p \in Proc |-> version'[p]]
      /\ attempt' = [p \in Proc |-> attempt'[p]]
  <2>1. ASSUME NEW p \in Proc, Step(p) \/ Fault(p)
        PROVE  /\ pc' = [q \in Proc |-> pc'[q]]
               /\ known' = [q \in Proc |-> known'[q]]
               /\ version' = [q \in Proc |-> version'[q]]
               /\ attempt' = [q \in Proc |-> attempt'[q]]
    BY <2>1 DEF Step, Fault, Start, Pool, Exists, HasVersion, HasName, Drop,
                Create, ReadApplied, Applied, Apply, Beat, At, Only, Exit, Goto,
                Advance, TypeOK, procvars
  <2>. QED
    BY <2>1 DEF Next, Stale, DbDown, DbReady, vars, procvars, TypeOK
<1>2. ASSUME NEW p \in Proc, Step(p) PROVE \A q \in Proc : Typed(q)
  BY <1>2, StepTyped, StepOthers DEF Typed, TypeOK
<1>3. ASSUME NEW q \in Proc,
             pc'[q] = "off" /\ known'[q] = NoRows /\ version'[q] = 1 /\ attempt'[q] = 1
      PROVE  Typed(q)
  <2>1. 1 \in 1..PoolAttempts
    BY StartupAssumption DEF StartupAssumption
  <2>. QED
    BY <1>3, <2>1, Versions DEF Typed, NoRows, PC
<1>4. \A q \in Proc : Typed(q)
  BY <1>2, <1>3, NextKinds DEF Typed, TypeOK
<1>5. /\ faults' \in 0..MaxFaults /\ outages' \in 0..MaxOutages
      /\ dbUp' \in BOOLEAN
  <2>1. MaxFaults \in Nat /\ MaxOutages \in Nat
    BY StartupAssumption DEF StartupAssumption
  <2>2. ASSUME NEW p \in Proc, Step(p)
        PROVE  faults' = faults /\ outages' = outages /\ dbUp' \in BOOLEAN
    BY <2>2, TablesTyped
  <2>3. ASSUME NEW p \in Proc, Fault(p)
        PROVE  /\ faults' = faults + 1 /\ faults < MaxFaults
               /\ outages' = outages /\ dbUp' = dbUp
    BY <2>3 DEF Fault
  <2>4. CASE DbDown
    <3>1. /\ outages < MaxOutages /\ outages' = outages + 1
          /\ faults' = faults /\ dbUp' = FALSE
      BY <2>4 DEF DbDown
    <3>2. outages \in 0..MaxOutages /\ faults \in 0..MaxFaults
      BY DEF TypeOK
    <3>3. outages' \in 0..MaxOutages
      BY <2>1, <3>1, <3>2
    <3>. QED
      BY <3>1, <3>2, <3>3
  <2>5. CASE Stale \/ DbReady \/ UNCHANGED vars
    BY <2>5 DEF Stale, DbReady, vars, env, TypeOK
  <2>6. faults \in 0..MaxFaults /\ outages \in 0..MaxOutages /\ dbUp \in BOOLEAN
    BY DEF TypeOK
  <2>7. ASSUME NEW p \in Proc, Fault(p)
        PROVE  faults' \in 0..MaxFaults /\ outages' = outages /\ dbUp' = dbUp
    BY <2>1, <2>3, <2>6, <2>7
  <2>. QED
    BY <2>2, <2>4, <2>5, <2>6, <2>7 DEF Next
<1>6. /\ table' \in {"none", "legacy", "foreign", "current"}
      /\ applied' \in [Version -> {"none", "same", "other"}]
      /\ table' # "current" => applied' = NoRows
      /\ ledger' \in {"none", "legacy", "phase2"}
      /\ executed' \in [Version -> Nat]
      /\ beat' \in {"none", "stale", "fresh"}
  BY NextKinds, TablesTyped DEF TypeOK, NoRows
<1>. QED
  BY <1>1, <1>4, <1>5, <1>6 DEF Typed, TypeOK

-----------------------------------------------------------------------------
(* The steps of a process by what they do to the tables and to its place. *)

tables == <<table, applied, ledger, executed>>

Stays(p) == known'[p] = known[p] /\ version'[p] = version[p]

Exits(p) == pc'[p] = "off" /\ known'[p] = NoRows /\ version'[p] = 1

Quits(p) == UNCHANGED tables /\ Exits(p)

\* On the way to the snapshot; who goes to "drop" has just seen the old form.
Looks(p) ==
  /\ UNCHANGED tables /\ Stays(p)
  /\ pc[p] \notin Past /\ pc'[p] \notin Past
  /\ pc'[p] = "drop" => table = "legacy"
  /\ pc'[p] \in {"name", "drop"} => table # "current" \/ pc[p] = "name"
  /\ pc'[p] = "create" => table # "current"

DropsIt(p) ==
  /\ pc[p] = "drop" /\ table' = "none" /\ applied' = NoRows
  /\ UNCHANGED <<ledger, executed>>
  /\ Exits(p) \/ (pc'[p] = "create" /\ Stays(p))

Creates(p) ==
  /\ pc[p] = "create" /\ pc'[p] = "read" /\ Stays(p)
  /\ table' = IF table = "none" THEN "current" ELSE table
  /\ UNCHANGED <<applied, ledger, executed>>

Reads(p) ==
  /\ pc[p] = "read" /\ pc'[p] = "apply" /\ table = "current"
  /\ known'[p] = applied /\ version'[p] = version[p]
  /\ UNCHANGED tables

Advances(p) ==
  /\ pc[p] = "apply" /\ known'[p] = known[p]
  /\ \/ version[p] < Last /\ version'[p] = version[p] + 1 /\ pc'[p] = "apply"
     \/ version[p] = Last /\ version'[p] = version[p] /\ pc'[p] \in {"lead", "up"}

Passes(p) ==
  known[p][version[p]] = "same" /\ Advances(p) /\ UNCHANGED tables

Executes(p) ==
  /\ known[p][version[p]] = "none" /\ Advances(p)
  /\ table = "current" /\ table' = table /\ applied[version[p]] = "none"
  /\ applied' = [applied EXCEPT ![version[p]] = "same"]
  /\ executed' = [executed EXCEPT ![version[p]] = @ + 1]

Runs(p) ==
  pc[p] \in {"lead", "up"} /\ pc'[p] = "up" /\ Stays(p) /\ UNCHANGED tables

Does(p) == \/ Quits(p) \/ Looks(p) \/ DropsIt(p) \/ Creates(p) \/ Reads(p)
           \/ Passes(p) \/ Executes(p) \/ Runs(p)

LEMMA ExitExits == ASSUME TypeOK, NEW p \in Proc, Exit(p) PROVE Exits(p)
BY DEF Exit, Exits, TypeOK

LEMMA AdvanceAdvances ==
  ASSUME TypeOK, NEW p \in Proc, pc[p] = "apply", Advance(p)
  PROVE  Advances(p)
<1>1. version[p] \in Version /\ Last \in Nat /\ \A v \in Version : v <= Last /\ v \in Nat
  BY StartupAssumption DEF StartupAssumption, TypeOK, Version
<1>2. CASE version[p] < Last
  BY <1>1, <1>2 DEF Advance, Advances, TypeOK
<1>3. CASE ~(version[p] < Last)
  <2>1. version[p] = Last
    BY <1>1, <1>3
  <2>. QED
    BY <1>3, <2>1 DEF Advance, Advances, Goto, TypeOK
<1>. QED
  BY <1>2, <1>3

LEMMA StepDoes == ASSUME TypeOK, NEW p \in Proc, Step(p) PROVE Does(p)
<1>. USE DEF tables, dbvars
<1>1. CASE Start(p)
  BY <1>1 DEF Start, Only, Goto, Does, Looks, Stays, Past, TypeOK
<1>2. CASE Pool(p)
  BY <1>2, ExitExits
     DEF Pool, Only, Goto, Does, Quits, Looks, Stays, Past, TypeOK
<1>3. CASE Exists(p) \/ HasVersion(p)
  BY <1>3 DEF Exists, HasVersion, At, Only, Goto, Does, Looks, Stays, Past, TypeOK
<1>4. CASE HasName(p)
  BY <1>4, ExitExits
     DEF HasName, At, Only, Goto, Does, Quits, Looks, Stays, Past, TypeOK
<1>5. CASE Drop(p)
  BY <1>5, ExitExits DEF Drop, At, Only, Goto, Does, DropsIt, Stays, TypeOK
<1>6. CASE Create(p)
  BY <1>6 DEF Create, At, Only, Goto, Does, Creates, Stays, TypeOK
<1>7. CASE ReadApplied(p)
  BY <1>7, ExitExits DEF ReadApplied, At, Goto, Does, Quits, Reads, TypeOK
<1>8. CASE Applied(p)
  <2>1. CASE known[p][version[p]] = "same"
    BY <1>8, <2>1, AdvanceAdvances DEF Applied, At, Does, Passes
  <2>2. CASE known[p][version[p]] # "same"
    BY <1>8, <2>2, ExitExits DEF Applied, Does, Quits
  <2>. QED
    BY <2>1, <2>2
<1>9. CASE Apply(p)
  <2>1. CASE Exit(p) /\ UNCHANGED dbvars
    BY <2>1, ExitExits DEF Does, Quits
  <2>2. CASE ~(Exit(p) /\ UNCHANGED dbvars)
    <3>1. /\ pc[p] = "apply" /\ Advance(p) /\ Track(version[p])
          /\ known[p][version[p]] = "none" /\ table' = table
          /\ applied' = [applied EXCEPT ![version[p]] = "same"]
          /\ executed' = [executed EXCEPT ![version[p]] = @ + 1]
      BY <1>9, <2>2 DEF Apply, At
    <3>. QED
      BY <3>1, AdvanceAdvances DEF Track, Does, Executes
  <2>. QED
    BY <2>1, <2>2
<1>10. CASE Beat(p)
  BY <1>10 DEF Beat, At, Only, Goto, Does, Runs, Stays, TypeOK, procvars
<1>. QED
  BY <1>1, <1>2, <1>3, <1>4, <1>5, <1>6, <1>7, <1>8, <1>9, <1>10 DEF Step

\* A step of the system: one process does something and the other nothing, or
\* some of them quit.
LEMMA Steps ==
  ASSUME TypeOK, [Next]_vars
  PROVE  \/ \E p \in Proc :
              /\ Does(p)
              /\ \A q \in Proc \ {p} : pc'[q] = pc[q] /\ Stays(q)
         \/ /\ UNCHANGED tables
            /\ \A p \in Proc : Exits(p) \/ (pc'[p] = pc[p] /\ Stays(p))
<1>1. ASSUME NEW p \in Proc, Step(p)
      PROVE  /\ Does(p)
             /\ \A q \in Proc \ {p} : pc'[q] = pc[q] /\ Stays(q)
  BY <1>1, StepDoes, StepOthers DEF Stays
<1>. QED
  BY <1>1, NextKinds DEF Exits, Stays, tables

-----------------------------------------------------------------------------
(* The invariant is inductive. *)

LEMMA InvResting ==
  ASSUME TypeOK, Resting, [Next]_vars
  PROVE  Resting'
<1>1. ASSUME NEW p \in Proc, Does(p), pc'[p] \notin Past
      PROVE  version'[p] = 1
  BY <1>1 DEF Does, Quits, Exits, Looks, DropsIt, Creates, Reads, Passes,
              Executes, Advances, Runs, Stays, Resting, Past
<1>. QED
  BY <1>1, Steps DEF Exits, Stays, Resting, Past

LEMMA InvSnapshot ==
  ASSUME TypeOK, Snapshot, RecordedIsExecuted, [Next]_vars
  PROVE  Snapshot'
<1>1. \A v \in Version : executed[v] > 0 => executed'[v] > 0
  BY ExecutedGrows
<1>2. \A v \in Version : applied[v] # "none" => executed[v] > 0
  BY Versions DEF RecordedIsExecuted, Version
<1>3. \A p \in Proc : Does(p) => known'[p] \in {known[p], applied, NoRows}
  BY DEF Does, Quits, Exits, Looks, DropsIt, Creates, Reads, Passes, Executes,
         Advances, Runs, Stays
<1>4. \A p \in Proc : known'[p] \in {known[p], applied, NoRows}
  BY <1>3, Steps DEF Exits, Stays
<1>5. ASSUME NEW p \in Proc, NEW v \in Version, known'[p][v] # "none"
      PROVE  executed[v] > 0
  BY <1>2, <1>4, <1>5 DEF Snapshot, NoRows
<1>. QED
  BY <1>1, <1>5 DEF Snapshot

LEMMA InvProgress ==
  ASSUME TypeOK, Resting, Snapshot, Progress, UpIsMigrated, [Next]_vars
  PROVE  Progress' /\ UpIsMigrated'
<1>. DEFINE Reached(p) ==
       /\ pc'[p] = "apply" => \A v \in Version : v < version'[p] => executed'[v] > 0
       /\ pc'[p] \in {"lead", "up"} => \A v \in Version : executed'[v] > 0
<1>1. \A v \in Version : executed[v] > 0 => executed'[v] > 0
  BY ExecutedGrows
<1>2. ASSUME NEW p \in Proc, pc'[p] = pc[p] /\ Stays(p) PROVE Reached(p)
  BY <1>1, <1>2 DEF Stays, Progress, UpIsMigrated
<1>3. ASSUME NEW p \in Proc, Exits(p) PROVE Reached(p)
  BY <1>3 DEF Exits
<1>4. ASSUME NEW p \in Proc, Advances(p), executed'[version[p]] > 0
      PROVE  Reached(p)
  <2>1. /\ version[p] \in Nat /\ Last \in Nat
        /\ \A v \in Version : v \in Nat /\ v <= Last
    BY StartupAssumption DEF TypeOK, StartupAssumption, Version
  <2>2. \A v \in Version : v < version[p] => executed'[v] > 0
    BY <1>1, <1>4 DEF Advances, Progress
  <2>3. \A v \in Version : v <= version[p] => executed'[v] > 0
    BY <1>4, <2>1, <2>2
  <2>. QED
    BY <1>4, <2>1, <2>3 DEF Advances
<1>5. ASSUME NEW p \in Proc, Does(p) PROVE Reached(p)
  <2>1. CASE Quits(p) \/ Looks(p) \/ DropsIt(p) \/ Creates(p)
    BY <2>1 DEF Quits, Exits, Looks, DropsIt, Creates, Past
  <2>2. CASE Reads(p)
    <3>1. version'[p] = 1
      BY <2>2 DEF Reads, Resting, Past
    <3>. QED
      BY <2>2, <3>1, Versions DEF Reads, Version
  <2>3. CASE Passes(p)
    <3>1. version[p] \in Version /\ executed[version[p]] > 0
      BY <2>3 DEF Passes, Snapshot, TypeOK
    <3>. QED
      BY <1>1, <1>4, <2>3, <3>1 DEF Passes
  <2>4. CASE Executes(p)
    <3>1. version[p] \in Version /\ executed[version[p]] \in Nat
      BY DEF TypeOK
    <3>2. executed'[version[p]] = executed[version[p]] + 1
      BY <2>4, <3>1 DEF Executes, TypeOK
    <3>. QED
      BY <1>4, <2>4, <3>1, <3>2 DEF Executes
  <2>5. CASE Runs(p)
    BY <1>1, <2>5 DEF Runs, UpIsMigrated
  <2>. QED
    BY <1>5, <2>1, <2>2, <2>3, <2>4, <2>5 DEF Does
<1>6. \A p \in Proc : Reached(p)
  BY <1>2, <1>3, <1>5, Steps
<1>. QED
  BY <1>6 DEF Progress, UpIsMigrated

LEMMA InvRecorded ==
  ASSUME TypeOK, Progress, RecordedIsExecuted, [Next]_vars
  PROVE  RecordedIsExecuted'
<1>1. \A v \in Version : executed[v] > 0 => executed'[v] > 0
  BY ExecutedGrows
<1>2. ASSUME NEW v \in Version, applied[v] # "none", NEW w \in 1..v
      PROVE  executed'[w] > 0
  <2>1. w \in Version
    BY Versions DEF Version
  <2>. QED
    BY <1>1, <1>2, <2>1 DEF RecordedIsExecuted
<1>3. ASSUME NEW p \in Proc, Executes(p), NEW w \in 1..version[p]
      PROVE  executed'[w] > 0
  <2>1. version[p] \in Version /\ w \in Version
    BY Versions DEF TypeOK, Version
  <2>2. CASE w = version[p]
    BY <1>3, <2>1, <2>2 DEF Executes, TypeOK
  <2>3. CASE w # version[p]
    <3>1. w < version[p]
      <4>1. version[p] \in Nat
        BY <2>1, Versions
      <4>. QED
        BY <2>3, <4>1
    <3>. QED
      BY <1>1, <1>3, <2>1, <3>1 DEF Executes, Advances, Progress
  <2>. QED
    BY <2>2, <2>3
<1>4. ASSUME NEW p \in Proc, Executes(p), NEW v \in Version, applied'[v] # "none"
      PROVE  \A w \in 1..v : executed'[w] > 0
  BY <1>2, <1>3, <1>4 DEF Executes, TypeOK
<1>5. ASSUME applied' \in {applied, NoRows} PROVE RecordedIsExecuted'
  BY <1>2, <1>5 DEF RecordedIsExecuted, NoRows
<1>6. ASSUME NEW p \in Proc, Does(p), ~Executes(p)
      PROVE  applied' \in {applied, NoRows}
  BY <1>6 DEF Does, Quits, Looks, DropsIt, Creates, Reads, Passes, Runs, tables
<1>. QED
  BY <1>4, <1>5, <1>6, Steps DEF RecordedIsExecuted, tables

\* Who is at the drop was there, or has seen the old form.
LEMMA InvDrops ==
  ASSUME TypeOK, Drops, [Next]_vars
  PROVE  Drops'
<1>. DEFINE Alone == \A p, q \in Proc :
                       pc[p] = "drop" /\ pc[q] = "drop" /\ p # q => table = "legacy"
            Counts(v) == /\ executed[v] <= 2
                         /\ applied[v] = "none" => executed[v] <= 1
                         /\ Dropping \/ table = "legacy" =>
                              /\ executed[v] <= 1
                              /\ applied[v] = "none" => executed[v] = 0
<1>0. /\ Alone /\ \A v \in Version : Counts(v) /\ executed[v] \in Nat
      /\ table # "current" => \A v \in Version : applied[v] = "none"
  BY DEF Drops, TypeOK, NoRows
<1>1. SUFFICES Alone' /\ \A v \in Version : Counts(v)'
  BY DEF Drops
<1>2. ASSUME UNCHANGED tables, \A p \in Proc : pc'[p] = "drop" =>
                                 pc[p] = "drop" \/ table = "legacy"
      PROVE  Alone' /\ \A v \in Version : Counts(v)'
  <2>1. Alone'
    BY <1>0, <1>2 DEF tables
  <2>2. Dropping' => Dropping \/ table = "legacy"
    BY <1>2 DEF Dropping
  <2>. QED
    BY <1>0, <1>2, <2>1, <2>2 DEF tables
<1>3. ASSUME NEW p \in Proc, Does(p),
             \A q \in Proc \ {p} : pc'[q] = pc[q] /\ Stays(q)
      PROVE  Alone' /\ \A v \in Version : Counts(v)'
  <2>1. CASE Quits(p) \/ Looks(p) \/ Reads(p) \/ Passes(p) \/ Runs(p)
    BY <1>2, <1>3, <2>1 DEF Quits, Exits, Looks, Reads, Passes, Advances, Runs
  <2>2. CASE DropsIt(p)
    <3>1. /\ pc[p] = "drop" /\ pc'[p] # "drop" /\ table' = "none"
          /\ executed' = executed /\ \A v \in Version : applied'[v] = "none"
      BY <2>2 DEF DropsIt, Exits, NoRows
    <3>2. Dropping
      BY <3>1 DEF Dropping
    <3>3. Dropping' => table = "legacy"
      BY <1>0, <1>3, <3>1 DEF Dropping
    <3>4. Alone'
      <4>1. ASSUME NEW q \in Proc, NEW r \in Proc,
                   pc'[q] = "drop" /\ pc'[r] = "drop" /\ q # r
            PROVE  FALSE
        <5>1. p # q /\ p # r
          BY <3>1, <4>1
        <5>. QED
          BY <4>1, <5>1 DEF Proc
      <4>. QED
        BY <4>1
    <3>5. ASSUME NEW v \in Version PROVE Counts(v)'
      <4>1. executed[v] <= 1 /\ executed[v] \in Nat
        BY <1>0, <3>2
      <4>2. Dropping' => executed[v] = 0
        BY <1>0, <3>3
      <4>. QED
        BY <3>1, <4>1, <4>2
    <3>. QED
      BY <3>4, <3>5
  <2>3. CASE Creates(p)
    <3>1. /\ pc'[p] # "drop" /\ UNCHANGED <<applied, executed>>
          /\ table' = "legacy" <=> table = "legacy"
      BY <2>3 DEF Creates
    <3>2. Dropping' => Dropping
      BY <1>3, <3>1 DEF Dropping
    <3>. QED
      BY <1>0, <1>3, <3>1, <3>2
  <2>4. CASE Executes(p)
    <3>1. /\ pc'[p] # "drop" /\ table = "current" /\ table' = table
          /\ version[p] \in Version /\ applied[version[p]] = "none"
          /\ applied'[version[p]] = "same"
          /\ executed'[version[p]] = executed[version[p]] + 1
          /\ \A v \in Version \ {version[p]} :
               applied'[v] = applied[v] /\ executed'[v] = executed[v]
      BY <2>4 DEF Executes, Advances, TypeOK
    <3>2. Dropping' => Dropping
      BY <1>3, <3>1 DEF Dropping
    <3>. QED
      BY <1>0, <1>3, <3>1, <3>2
  <2>. QED
    BY <1>3, <2>1, <2>2, <2>3, <2>4 DEF Does
<1>4. ASSUME UNCHANGED tables,
             \A p \in Proc : Exits(p) \/ (pc'[p] = pc[p] /\ Stays(p))
      PROVE  Alone' /\ \A v \in Version : Counts(v)'
  BY <1>2, <1>4 DEF Exits
<1>. QED
  BY <1>3, <1>4, Steps

\* While there is a row of another file, no step of a process changes a table.
LEMMA UntouchedStep ==
  ASSUME TypeOK, Untouched, NEW v \in Version, applied[v] = "other",
         NEW p \in Proc, Does(p)
  PROVE  /\ UNCHANGED tables
         /\ pc'[p] \notin {"name", "drop", "create", "lead", "up"}
         /\ pc'[p] = "apply" => /\ known'[p] = applied
                                /\ \/ version'[p] <= v
                                   \/ pc[p] = "read" /\ version'[p] = version[p]
<1>0. /\ table = "current" /\ \A u \in Version : u <= v => applied[u] # "none"
      /\ pc[p] \notin {"name", "drop", "create", "lead", "up"}
      /\ pc[p] = "apply" => known[p] = applied /\ version[p] <= v
  BY DEF Untouched
<1>1. /\ version[p] \in Version /\ version[p] \in Nat /\ v \in Nat /\ v <= Last
      /\ Last \in Nat
  BY StartupAssumption DEF StartupAssumption, TypeOK, Version
<1>2. CASE Quits(p) \/ Looks(p) \/ Reads(p)
  BY <1>0, <1>2 DEF Quits, Exits, Looks, Reads, Past, tables
<1>3. CASE Passes(p)
  <2>1. /\ pc[p] = "apply" /\ known[p] = applied /\ version[p] <= v
        /\ applied[version[p]] = "same" /\ UNCHANGED tables
    BY <1>0, <1>3 DEF Passes, Advances
  <2>2. version[p] # v
    BY <2>1
  <2>3. version[p] < v /\ version[p] < Last
    BY <1>1, <2>1, <2>2
  <2>4. pc'[p] = "apply" /\ version'[p] = version[p] + 1 /\ known'[p] = known[p]
    BY <1>1, <1>3, <2>3 DEF Passes, Advances
  <2>. QED
    BY <1>1, <2>1, <2>3, <2>4
<1>4. CASE Executes(p)
  BY <1>0, <1>1, <1>4 DEF Executes, Advances
<1>5. CASE DropsIt(p) \/ Creates(p) \/ Runs(p)
  BY <1>0, <1>5 DEF DropsIt, Creates, Runs
<1>. QED
  BY <1>2, <1>3, <1>4, <1>5 DEF Does

LEMMA InvUntouched ==
  ASSUME TypeOK, Resting, Untouched, [Next]_vars
  PROVE  Untouched'
<1>1. ASSUME NEW v \in Version, applied'[v] = "other" PROVE applied[v] = "other"
  <2>1. ASSUME NEW p \in Proc, Does(p) PROVE applied[v] = "other"
    BY <1>1, <2>1 DEF Does, Quits, Looks, DropsIt, Creates, Reads, Passes,
                      Executes, Runs, tables, TypeOK, NoRows
  <2>. QED
    BY <1>1, <2>1, Steps DEF tables
<1>2. ASSUME NEW v \in Version, applied[v] = "other"
      PROVE  UNCHANGED tables
  BY <1>2, UntouchedStep, Steps
<1>3. ASSUME NEW v \in Version, applied[v] = "other", NEW p \in Proc
      PROVE  /\ pc'[p] \notin {"name", "drop", "create", "lead", "up"}
             /\ pc'[p] = "apply" => known'[p] = applied /\ version'[p] <= v
  <2>1. CASE pc'[p] = pc[p] /\ Stays(p)
    BY <1>3, <2>1 DEF Untouched, Stays
  <2>2. CASE Exits(p)
    BY <2>2 DEF Exits
  <2>3. CASE Does(p)
    <3>1. pc[p] = "read" => version[p] <= v
      BY Versions DEF Resting, Past, Version
    <3>. QED
      BY <1>3, <2>3, <3>1, UntouchedStep
  <2>. QED
    BY <2>1, <2>2, <2>3, Steps
<1>4. ASSUME NEW v \in Version, applied[v] = "other"
      PROVE  table = "current" /\ \A u \in Version : u <= v => applied[u] # "none"
  BY <1>4 DEF Untouched
<1>5. ASSUME NEW v \in Version, applied'[v] = "other"
      PROVE  /\ applied[v] = "other" /\ table' = table /\ applied' = applied
  BY <1>1, <1>2, <1>5 DEF tables
<1>. QED
  BY <1>3, <1>4, <1>5 DEF Untouched

\* Inv holds in every reachable state.
THEOREM Invariant == Spec => []Inv
<1>1. ASSUME Inv, [Next]_vars PROVE Inv'
  BY <1>1, InvType, InvResting, InvSnapshot, InvProgress, InvRecorded, InvDrops,
     InvUntouched DEF Inv
<1>. QED
  BY InitInv, <1>1, PTL DEF Spec

-----------------------------------------------------------------------------
(* The properties. *)

\* The state of the two processes and of the tables is well formed; a tracking
\* table of another form has no rows of this program.
THEOREM TypeCorrect == Spec => []TypeOK
BY Invariant, PTL DEF Inv

\* For any number of migrations and faults: who gets past bootstrap_database
\* finds the effect of every migration, whoever executed it (main.py lifespan,
\* worker.py run).
THEOREM UpIsMigratedHolds == Spec => []UpIsMigrated
BY Invariant, PTL DEF Inv

\* A row of schema_migrations and the execution of its file are one
\* transaction, and versions are executed in their order, though two processes
\* work from snapshots of their own (migrations.py run_migrations).
THEOREM RecordedIsExecutedHolds == Spec => []RecordedIsExecuted
BY Invariant, PTL DEF Inv

\* No interleaving and no fault makes a file take effect more than twice: at
\* most one drop of the old table is left when its rows are written again.
THEOREM ExecutedAtMostTwiceHolds == Spec => []ExecutedAtMostTwice
<1>1. ASSUME Inv PROVE ExecutedAtMostTwice
  BY <1>1 DEF Inv, Drops, ExecutedAtMostTwice
<1>. QED
  BY Invariant, <1>1, PTL

\* A database with a row whose file has changed is left as it is, and no
\* process gets up (the checksum of migrations.py).
THEOREM MismatchStopsHolds == Spec => MismatchStops
<1>. DEFINE Left ==
       (\E v \in Version : applied[v] = "other") =>
         /\ UNCHANGED <<table, ledger>>
         /\ \A v \in Version : applied[v] = "other" => applied'[v] = "other"
         /\ \A p \in Proc : pc'[p] \notin {"lead", "up"}
<1>1. ASSUME Inv, [Next]_vars, Inv' PROVE Left
  <2>1. ASSUME NEW v \in Version, applied[v] = "other"
        PROVE  UNCHANGED tables
    BY <1>1, <2>1, UntouchedStep, Steps DEF Inv
  <2>2. ASSUME NEW v \in Version, applied[v] = "other", NEW p \in Proc
        PROVE  pc'[p] \notin {"lead", "up"}
    BY <1>1, <2>1, <2>2 DEF Inv, Untouched, tables
  <2>. QED
    BY <2>1, <2>2 DEF tables
<1>. QED
  BY Invariant, <1>1, PTL DEF Spec, MismatchStops
=============================================================================
