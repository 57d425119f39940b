---------------------------- MODULE QuotaProofs ----------------------------
(***************************************************************************)
(* What holds of the quota ledger for any number of callers, any limits,   *)
(* any lengths of the window, of the day and of a transaction.             *)
(*                                                                         *)
(* No limit is inductive: that the INSERT keeps it depends on the COUNT or *)
(* SUM its caller made some steps before (Granted), which nobody           *)
(* invalidates because the caller holds the lock since (Locked) and the    *)
(* only write outside of the lock, a settlement, adds no row and, because  *)
(* a row is billed once (Unbilled), no token above the estimate.  The rate *)
(* of the decisions follows from that of the rows, because a row was       *)
(* decided on within one transaction of its created_at (Prompt).  And what *)
(* is stored in a day after its end comes from the transactions the day    *)
(* left open, one per caller (LateBounded).                                *)
(***************************************************************************)
EXTENDS QuotaLedger, FiniteSetLemmas

-----------------------------------------------------------------------------
(* The invariant. *)

HeldInserted == \A t \in Task : held[t] # Null => row[held[t]] # Null

Locked == \A t \in Task : pc[t] \in Checking => lock = t

Timed ==
  \A t \in Task :
    /\ pc[t] \in InTx => /\ req[t].start \in Nat /\ req[t].start <= clock
                         /\ clock <= req[t].start + MaxTx
    /\ pc[t] \in Checking => /\ req[t].now \in Nat
                             /\ req[t].start <= req[t].now
                             /\ req[t].now <= clock

\* What each check has found, and stays true until the INSERT.
RpmLeft(l, now)         == Rpm[l] = 0 \/ Cardinality(Recent(l, now)) < Rpm[l]
TpmLeft(l, now, est)    == Tpm[l] = 0 \/ Sure(Recent(l, now)) + est <= Tpm[l]
RpdLeft(l, now)         == Rpd[l] = 0 \/ Cardinality(Today(l, now)) < Rpd[l]
BudgetLeft(l, now, est) == Budget[l] = 0 \/ Sure(Today(l, now)) + est <= Budget[l]

Finds(at, l, now, est) ==
  /\ at \in {"rpm", "tpm", "rpd", "insert"} => BudgetLeft(l, now, est)
  /\ at \in {"tpm", "rpd", "insert"} => RpmLeft(l, now)
  /\ at \in {"rpd", "insert"} => TpmLeft(l, now, est)
  /\ at = "insert" => RpdLeft(l, now)

Granted ==
  \A t \in Task : pc[t] \in Checking =>
    Finds(pc[t], req[t].lane, req[t].now, req[t].est)

Unbilled ==
  \A i \in RowId : row[i] # Null /\ row[i].status = "reserved" => row[i].actual = Null

Prompt ==
  \A i \in RowId : row[i] # Null => /\ row[i].created <= row[i].decided
                                    /\ row[i].decided <= row[i].created + MaxTx
                                    /\ row[i].decided <= clock

\* The transactions a day has left open.
Open(d) == {t \in Task : pc[t] \in InTx /\ DayOf(req[t].start) = d}

AtMostOnePerCaller(d) ==
  Cardinality(Late(d)) + Cardinality(Open(d)) <= Cardinality(Task)

LateBounded == \A d \in Nat : AtMostOnePerCaller(d)

DayCounts ==
  \A l \in Lane : \A d \in {DayOf(c) : c \in Time} :
    /\ Rpd[l] # 0 => Cardinality(DayRows(l, d)) <= Rpd[l]
    /\ Budget[l] # 0 => Sure(DayRows(l, d)) <= Budget[l]

Limits == WindowLimit /\ TokenLimit /\ DayCounts

Inv == /\ TypeOK /\ HeldInserted /\ Locked /\ Timed
       /\ Granted /\ Unbilled /\ Prompt /\ Limits /\ LateBounded

-----------------------------------------------------------------------------
(* Sets of rows. *)

\* A larger set of rows counts at least as much.
LEMMA RowsCardinality ==
  ASSUME NEW T, T \subseteq RowId, NEW S, S \subseteq T
  PROVE  /\ IsFiniteSet(T) /\ Cardinality(S) \in Nat /\ Cardinality(T) \in Nat
         /\ Cardinality(S) <= Cardinality(T)
<1>1. IsFiniteSet(RowId)
  BY QuotaAssumption, FS_Interval DEF QuotaAssumption, RowId
<1>2. IsFiniteSet(T)
  BY <1>1, FS_Subset
<1>. QED
  BY <1>2, FS_Subset, FS_CardinalityType

\* An element more counts at most one more.
LEMMA AddElement ==
  ASSUME NEW T, IsFiniteSet(T), Cardinality(T) \in Nat, NEW x
  PROVE  Cardinality(T \cup {x}) <= Cardinality(T) + 1
BY FS_AddElement

\* One row more counts at most one more.
LEMMA OneRowMore ==
  ASSUME NEW T, T \subseteq RowId, NEW i \in RowId,
         NEW S, S \subseteq T \cup {i}
  PROVE  Cardinality(S) <= Cardinality(T) + 1
<1>1. IsFiniteSet(T) /\ Cardinality(T) \in Nat
  BY RowsCardinality
<1>2. Cardinality(T \cup {i}) <= Cardinality(T) + 1
  BY <1>1, AddElement
<1>3. /\ Cardinality(S) <= Cardinality(T \cup {i})
      /\ Cardinality(S) \in Nat /\ Cardinality(T \cup {i}) \in Nat
  BY RowsCardinality
<1>. QED
  BY <1>1, <1>2, <1>3

-----------------------------------------------------------------------------
(* What a step does. *)

\* The checks of the four limits are such steps.
Passes(t, at, next) ==
  pc[t] = at /\ Goto(t, next) /\ UNCHANGED <<clock, row, lock, req, held>>

Leaves(t) == /\ pc[t] \in InTx \cup {"ready"}
             /\ Unlock(t) /\ (Retry(t) \/ Raise(t))
             /\ UNCHANGED <<clock, row, held>>

PassesOn(t) ==
  LET l == req[t].lane  now == req[t].now  est == req[t].est
  IN  \/ /\ Passes(t, "budget", "rpm")
         /\ Budget[l] = 0 \/ Spent(Today(l, now)) + est <= Budget[l]
      \/ Passes(t, "rpm", "tpm") /\ RpmLeft(l, now)
      \/ /\ Passes(t, "tpm", "rpd")
         /\ Tpm[l] = 0 \/ Spent(Recent(l, now)) + est <= Tpm[l]
      \/ Passes(t, "rpd", "insert") /\ RpdLeft(l, now)

InsertAny(t, i) ==
  /\ pc[t] = "insert" /\ InsertRow(t, i) /\ Unlock(t)
  /\ req' = [req EXCEPT ![t] = Null]
  /\ \/ Goto(t, "held") /\ held' = [held EXCEPT ![t] = i]
     \/ Goto(t, "idle") /\ UNCHANGED held
  /\ UNCHANGED clock

SettleAny(t) ==
  /\ pc[t] = "held"
  /\ \/ UNCHANGED row
     \/ \E s \in Status \ {"reserved"}, n \in Billed \cup {Null} :
          Update(t, s, n)
  /\ Forget(t) \/ UNCHANGED <<pc, held>>
  /\ UNCHANGED <<clock, lock, req>>

Kind(t) ==
  \/ \E l \in Lane, n \in Estimate : Reserve(t, l, n)
  \/ Begin(t) \/ Lock(t) \/ PassesOn(t) \/ Leaves(t)
  \/ \E i \in RowId : InsertAny(t, i)
  \/ SettleAny(t)

\* Every step of a caller is one of these kinds.
LEMMA StepKinds == ASSUME NEW t \in Task, Step(t) PROVE Kind(t)
<1>. USE DEF Kind
<1>1. ASSUME CheckBudget(t) PROVE Kind(t)
  BY <1>1 DEF CheckBudget, Check, PassesOn, Passes, Leaves, InTx
<1>2. ASSUME CheckRpm(t) PROVE Kind(t)
  BY <1>2 DEF CheckRpm, Check, PassesOn, Passes, Leaves, InTx, RpmLeft
<1>3. ASSUME CheckTpm(t) PROVE Kind(t)
  BY <1>3 DEF CheckTpm, Check, PassesOn, Passes, Leaves, InTx
<1>4. ASSUME CheckRpd(t) PROVE Kind(t)
  BY <1>4 DEF CheckRpd, Check, PassesOn, Passes, Leaves, InTx, RpdLeft
<1>5. ASSUME Insert(t) \/ InsertLost(t) PROVE Kind(t)
  BY <1>5 DEF Insert, InsertLost, InsertAny, Raise
<1>6. ASSUME Rollback(t) PROVE Kind(t)
  BY <1>6 DEF Rollback, Leaves
<1>7. ASSUME Complete(t) \/ Fail(t) \/ Release(t) \/ Abandon(t) PROVE SettleAny(t)
  <2>1. CASE Complete(t)
    BY <2>1 DEF Complete, Settle, SettleAny, Status
  <2>2. CASE Fail(t)
    BY <2>2 DEF Fail, Settle, SettleAny, Status
  <2>3. CASE Release(t)
    BY <2>3 DEF Release, Settle, SettleAny, Status
  <2>4. CASE Abandon(t)
    BY <2>4 DEF Abandon, SettleAny
  <2>. QED
    BY <1>7, <2>1, <2>2, <2>3, <2>4
<1>. QED
  BY <1>1, <1>2, <1>3, <1>4, <1>5, <1>6, <1>7 DEF Step

-----------------------------------------------------------------------------
(* The table. *)

\* A settlement rewrites a reserved row, and nothing of what it counts by.
Kept(i) ==
  \/ row'[i] = row[i]
  \/ /\ row[i] # Null /\ row[i].status = "reserved"
     /\ row'[i] \in Row /\ row'[i].status # "reserved"
     /\ row'[i].lane = row[i].lane
     /\ row'[i].reserved = row[i].reserved
     /\ row'[i].created = row[i].created
     /\ row'[i].decided = row[i].decided

\* The row an insertion adds.
NewRow(t) ==
  [lane |-> req[t].lane, created |-> req[t].start, decided |-> req[t].now,
   reserved |-> req[t].est, actual |-> Null, status |-> "reserved"]

\* No row is a null, no argument record is one.
LEMMA NotNull == Null \notin Row /\ Null \notin Request /\ Null \notin RowId
<1>1. RowId \subseteq Nat
  BY QuotaAssumption DEF QuotaAssumption, RowId
<1>. QED
  BY <1>1, QuotaAssumption DEF QuotaAssumption

\* A settlement keeps every row.
LEMMA SettleKeeps ==
  ASSUME TypeOK, HeldInserted, NEW t \in Task, SettleAny(t)
  PROVE  \A i \in RowId : Kept(i)
<1>1. CASE UNCHANGED row
  BY <1>1 DEF Kept
<1>2. ASSUME NEW s \in Status \ {"reserved"}, NEW n \in Billed \cup {Null},
             Update(t, s, n)
      PROVE  \A i \in RowId : Kept(i)
  <2>1. /\ held[t] \in RowId /\ row[held[t]] \in Row
        /\ row \in [RowId -> Row \cup {Null}]
    BY NotNull DEF TypeOK, HeldInserted, SettleAny
  <2>2. CASE row[held[t]].status # "reserved"
    BY <1>2, <2>2 DEF Update, Kept
  <2>3. ASSUME row[held[t]].status = "reserved", NEW i \in RowId
        PROVE  Kept(i)
    <3>1. row' = [row EXCEPT ![held[t]] = [@ EXCEPT !.status = s, !.actual = n]]
      BY <1>2, <2>1, <2>3 DEF Update
    <3>2. CASE i # held[t]
      BY <2>1, <3>1, <3>2 DEF Kept
    <3>3. CASE i = held[t]
      <4>1. row'[i] = [row[i] EXCEPT !.status = s, !.actual = n]
        BY <2>1, <3>1, <3>3
      <4>2. row[i] \in Row
        BY <2>1, <3>3
      <4>3. /\ row'[i] \in Row /\ row'[i].status # "reserved"
            /\ row'[i].lane = row[i].lane
            /\ row'[i].reserved = row[i].reserved
            /\ row'[i].created = row[i].created
            /\ row'[i].decided = row[i].decided
        BY <4>1, <4>2 DEF Row, Status
      <4>. QED
        BY <2>1, <2>3, <3>3, <4>3, NotNull DEF Kept
    <3>. QED
      BY <3>2, <3>3
  <2>. QED
    BY <2>2, <2>3
<1>. QED
  BY <1>1, <1>2 DEF SettleAny

\* An insertion changes one row, which was null.
LEMMA InsertAdds ==
  ASSUME TypeOK, Timed, NEW t \in Task, NEW i \in RowId, InsertAny(t, i)
  PROVE  /\ row[i] = Null /\ row'[i] = NewRow(t) /\ NewRow(t) \in Row
         /\ \A j \in RowId \ {i} : row'[j] = row[j]
         /\ req[t] \in Request /\ req[t].start \in Time /\ req[t].now \in Time
<1>1. req[t] \in Request /\ pc[t] = "insert"
  BY DEF TypeOK, InsertAny
<1>2. req[t].start \in Nat /\ req[t].now \in Nat
  BY <1>1 DEF Timed, InTx, Checking
<1>3. req[t].start \in Time /\ req[t].now \in Time
  BY <1>1, <1>2, QuotaAssumption DEF QuotaAssumption, Request
<1>4. NewRow(t) \in Row
  BY <1>1, <1>3 DEF NewRow, Row, Request, Status
<1>. QED
  BY <1>1, <1>3, <1>4 DEF InsertAny, InsertRow, NewRow, TypeOK

\* What each step does to the table: it adds a row, or keeps every one.
LEMMA TableStep ==
  ASSUME TypeOK, HeldInserted, Timed, [Next]_vars
  PROVE  \/ \E t \in Task, i \in RowId : InsertAny(t, i)
         \/ \A i \in RowId : Kept(i)
<1>1. ASSUME UNCHANGED row PROVE \A i \in RowId : Kept(i)
  BY <1>1 DEF Kept
<1>2. ASSUME NEW t \in Task, Step(t)
      PROVE  \/ \E i \in RowId : InsertAny(t, i)
             \/ \A i \in RowId : Kept(i)
  <2>1. Kind(t)
    BY <1>2, StepKinds
  <2>2. ASSUME SettleAny(t) PROVE \A i \in RowId : Kept(i)
    BY <2>2, SettleKeeps
  <2>. QED
    BY <1>1, <2>1, <2>2
       DEF Kind, Reserve, Begin, Lock, PassesOn, Passes, Leaves
<1>. QED
  BY <1>1, <1>2 DEF Next, Restart, Tick, vars

-----------------------------------------------------------------------------
(* The invariant is inductive: one lemma per conjunct. *)

LEMMA InitInv == Init => Inv
<1>. SUFFICES ASSUME Init PROVE Inv
  OBVIOUS
<1>1. TypeOK
  BY QuotaAssumption, NotNull DEF QuotaAssumption, Init, TypeOK, Time, PC
<1>2. HeldInserted /\ Locked /\ Timed /\ Granted /\ Unbilled /\ Prompt
  BY NotNull DEF Init, HeldInserted, Locked, Timed, Granted, Unbilled, Prompt,
                 Checking, InTx
<1>3. Limits
  <2>1. \A l \in Lane : Minute(l) = {} /\ \A d : DayRows(l, d) = {}
    BY DEF Init, Minute, DayRows, Rows
  <2>2. \A l \in Lane : /\ Rpm[l] \in Nat /\ Tpm[l] \in Nat
                        /\ Rpd[l] \in Nat /\ Budget[l] \in Nat
    BY QuotaAssumption DEF QuotaAssumption
  <2>3. Cardinality({}) = 0 /\ Sure({}) = 0
    BY FS_EmptySet, SumEmpty DEF Sure, SumFunction
  <2>4. WindowLimit
    BY <2>1, <2>2, <2>3 DEF WindowLimit
  <2>5. TokenLimit
    BY <2>1, <2>2, <2>3 DEF TokenLimit
  <2>6. DayCounts
    <3>1. \A l \in Lane, d \in {DayOf(c) : c \in Time} : DayRows(l, d) = {}
      BY <2>1
    <3>. QED
      BY <3>1, <2>2, <2>3 DEF DayCounts
  <2>. QED
    BY <2>4, <2>5, <2>6 DEF Limits
<1>4. LateBounded
  <2>1. \A d : Late(d) = {} /\ Open(d) = {}
    BY DEF Init, Late, Rows, Open, InTx
  <2>2. Cardinality({}) = 0 /\ Cardinality(Task) \in Nat
    BY FS_EmptySet, FS_CardinalityType, QuotaAssumption DEF QuotaAssumption
  <2>. QED
    BY <2>1, <2>2 DEF LateBounded, AtMostOnePerCaller
<1>. QED
  BY <1>1, <1>2, <1>3, <1>4 DEF Inv

\* Where the caller t goes, and nobody else.
LEMMA StepOthers ==
  ASSUME TypeOK, NEW t \in Task, Kind(t)
  PROVE  \A u \in Task \ {t} :
           pc'[u] = pc[u] /\ req'[u] = req[u] /\ held'[u] = held[u]
<1>. USE DEF Kind, Reserve, Begin, Lock, PassesOn, Passes, Leaves, Retry, Raise,
             InsertAny, SettleAny, Forget, Goto, TypeOK
<1>. QED
  OBVIOUS

\* What the caller t itself becomes.
Becomes(t) ==
  \/ /\ pc'[t] = "idle" /\ req'[t] = Null /\ held'[t] = Null
  \/ /\ pc'[t] = "held" /\ req'[t] = Null /\ held'[t] \in RowId
     /\ row'[held'[t]] # Null
  \/ /\ pc'[t] \in InTx \cup {"ready"} /\ req'[t] \in Request
     /\ held'[t] = Null

LEMMA StepSelf ==
  ASSUME TypeOK, HeldInserted, Timed, NEW t \in Task, Kind(t)
  PROVE  Becomes(t)
<1>. USE DEF TypeOK, Goto, Becomes
<1>0. PICK r \in Request \cup {Null} : req[t] = r
  OBVIOUS
<1>1. ASSUME NEW l \in Lane, NEW n \in Estimate, Reserve(t, l, n)
      PROVE  Becomes(t)
  BY <1>1 DEF Reserve, Request
<1>2. CASE Begin(t)
  BY <1>2 DEF Begin, Request, InTx
<1>3. CASE Lock(t)
  BY <1>3 DEF Lock, Request, InTx
<1>4. CASE PassesOn(t)
  BY <1>4 DEF PassesOn, Passes, InTx
<1>5. CASE Leaves(t)
  BY <1>5 DEF Leaves, Retry, Raise, InTx, Request
<1>6. ASSUME NEW i \in RowId, InsertAny(t, i) PROVE Becomes(t)
  <2>1. row'[i] # Null
    BY <1>6, InsertAdds, NotNull
  <2>. QED
    BY <1>6, <2>1 DEF InsertAny
<1>7. CASE SettleAny(t)
  <2>1. \A i \in RowId : row[i] # Null => row'[i] # Null
    BY <1>7, SettleKeeps, NotNull DEF Kept
  <2>. QED
    BY <1>7, <2>1 DEF SettleAny, Forget, HeldInserted
<1>. QED
  BY <1>1, <1>2, <1>3, <1>4, <1>5, <1>6, <1>7 DEF Kind

LEMMA InvType ==
  ASSUME TypeOK, HeldInserted, Timed, [Next]_vars
  PROVE  TypeOK' /\ HeldInserted'
<1>. USE DEF TypeOK, HeldInserted
<1>1. ASSUME NEW t \in Task, Step(t) PROVE TypeOK' /\ HeldInserted'
  <2>0. Kind(t)
    BY <1>1, StepKinds
  <2>1. /\ clock' \in Time /\ lock' \in Task \cup {Null}
    BY <2>0 DEF Kind, Reserve, Begin, Lock, PassesOn, Passes, Leaves, Unlock,
                InsertAny, SettleAny
  <2>2. row' \in [RowId -> Row \cup {Null}]
    <3>1. DOMAIN row' = RowId /\ row' = [i \in RowId |-> row'[i]]
      BY <2>0 DEF Kind, Reserve, Begin, Lock, PassesOn, Passes, Leaves,
                  InsertAny, InsertRow, SettleAny, Update
    <3>2. \A i \in RowId : row'[i] \in Row \cup {Null}
      BY <1>1, TableStep, InsertAdds DEF Kept, Next
    <3>. QED
      BY <3>1, <3>2
  <2>3. /\ pc' = [u \in Task |-> pc'[u]] /\ req' = [u \in Task |-> req'[u]]
        /\ held' = [u \in Task |-> held'[u]]
    BY <2>0 DEF Kind, Reserve, Begin, Lock, PassesOn, Passes, Leaves, Retry,
                Raise, InsertAny, SettleAny, Forget, Goto
  <2>4. Becomes(t)
    BY <2>0, StepSelf
  <2>5. \A i \in RowId : row[i] # Null => row'[i] # Null
    BY <1>1, TableStep, InsertAdds, NotNull DEF Kept, Next
  <2>6. \A u \in Task :
          /\ pc'[u] \in PC /\ req'[u] \in Request \cup {Null}
          /\ held'[u] \in RowId \cup {Null}
          /\ pc'[u] = "held" <=> held'[u] # Null
          /\ pc'[u] \in {"idle", "held"} <=> req'[u] = Null
          /\ held'[u] # Null => row'[held'[u]] # Null
    BY <2>0, <2>4, <2>5, StepOthers, NotNull DEF Becomes, PC, InTx
  <2>. QED
    BY <2>1, <2>2, <2>3, <2>6
<1>2. CASE Restart
  BY <1>2 DEF Restart, PC
<1>3. CASE Tick
  BY <1>3, QuotaAssumption DEF Tick, Time, QuotaAssumption
<1>4. CASE UNCHANGED vars
  BY <1>4 DEF vars
<1>. QED
  BY <1>1, <1>2, <1>3, <1>4 DEF Next

LEMMA InvLocked ==
  ASSUME TypeOK, Locked, [Next]_vars
  PROVE  Locked'
<1>. USE DEF TypeOK, Locked, Checking, InTx, Goto
<1>0. Null \notin Task
  BY QuotaAssumption DEF QuotaAssumption
<1>1. ASSUME NEW t \in Task, Step(t) PROVE Locked'
  <2>0. Kind(t)
    BY <1>1, StepKinds
  <2>1. \A u \in Task \ {t} : pc'[u] = pc[u]
    BY <2>0, StepOthers
  <2>2. ASSUME NEW l \in Lane, NEW n \in Estimate, Reserve(t, l, n)
        PROVE  Locked'
    BY <2>1, <2>2 DEF Reserve
  <2>3. CASE Begin(t)
    BY <2>1, <2>3 DEF Begin
  <2>4. CASE Lock(t)
    BY <1>0, <2>1, <2>4 DEF Lock
  <2>5. CASE PassesOn(t)
    BY <2>1, <2>5 DEF PassesOn, Passes
  <2>6. CASE Leaves(t)
    <3>1. pc'[t] \in {"idle", "ready"}
      BY <2>6 DEF Leaves, Retry, Raise
    <3>2. \A u \in Task \ {t} : lock = u => lock' = u
      BY <2>6 DEF Leaves, Unlock
    <3>. QED
      BY <2>1, <3>1, <3>2
  <2>7. ASSUME NEW i \in RowId, InsertAny(t, i) PROVE Locked'
    BY <2>1, <2>7 DEF InsertAny, Unlock
  <2>8. CASE SettleAny(t)
    BY <2>1, <2>8 DEF SettleAny, Forget
  <2>. QED
    BY <2>0, <2>2, <2>3, <2>4, <2>5, <2>6, <2>7, <2>8 DEF Kind
<1>2. CASE Restart
  BY <1>2 DEF Restart
<1>3. CASE Tick \/ UNCHANGED vars
  BY <1>3 DEF Tick, vars
<1>. QED
  BY <1>1, <1>2, <1>3 DEF Next

\* No transaction is older than MaxTx, and the clock read under the lock is
\* neither older than the transaction nor ahead of the time.
LEMMA InvTimed ==
  ASSUME TypeOK, Timed, [Next]_vars
  PROVE  Timed'
<1>. USE DEF TypeOK, Timed, Checking, InTx, Goto
<1>0. clock \in Nat /\ MaxTx \in Nat /\ \A u \in Task : req[u] \in Request \cup {Null}
  BY QuotaAssumption DEF QuotaAssumption, Time
<1>1. ASSUME NEW t \in Task, Step(t) PROVE Timed'
  <2>0. Kind(t)
    BY <1>1, StepKinds
  <2>1. \A u \in Task \ {t} : pc'[u] = pc[u] /\ req'[u] = req[u]
    BY <2>0, StepOthers
  <2>2. clock' = clock
    BY <2>0 DEF Kind, Reserve, Begin, Lock, PassesOn, Passes, Leaves, InsertAny,
                SettleAny
  <2>3. pc[t] # "idle" /\ pc[t] # "held" => req[t] \in Request
    BY DEF TypeOK
  <2>4. ASSUME pc'[t] \notin InTx PROVE Timed'
    BY <2>1, <2>2, <2>4
  <2>5. CASE Begin(t)
    <3>1. pc'[t] = "lock" /\ req'[t].start = clock
      BY <2>3, <2>5 DEF Begin, Request
    <3>. QED
      BY <1>0, <2>1, <2>2, <3>1
  <2>6. CASE Lock(t)
    <3>1. /\ pc'[t] = "budget" /\ req'[t].now = clock
          /\ req'[t].start = req[t].start
      BY <2>3, <2>6 DEF Lock, Request
    <3>2. pc[t] = "lock"
      BY <2>6 DEF Lock
    <3>. QED
      BY <1>0, <2>1, <2>2, <3>1, <3>2
  <2>7. CASE PassesOn(t)
    BY <2>1, <2>2, <2>7 DEF PassesOn, Passes
  <2>8. \/ Begin(t) \/ Lock(t) \/ PassesOn(t) \/ pc'[t] \notin InTx
    BY <2>0 DEF Kind, Reserve, Leaves, Retry, Raise, InsertAny, SettleAny, Forget
  <2>. QED
    BY <2>4, <2>5, <2>6, <2>7, <2>8
<1>2. CASE Restart
  BY <1>2 DEF Restart
<1>3. CASE Tick
  <2>1. /\ clock' = clock + 1 /\ pc' = pc /\ req' = req
        /\ \A t \in Task : pc[t] \in InTx => clock < req[t].start + MaxTx
    BY <1>3 DEF Tick
  <2>2. SUFFICES ASSUME NEW t \in Task, pc[t] \in InTx
                 PROVE  /\ req[t].start \in Nat /\ req[t].start <= clock + 1
                        /\ clock + 1 <= req[t].start + MaxTx
                        /\ pc[t] \in Checking =>
                             /\ req[t].now \in Nat
                             /\ req[t].start <= req[t].now
                             /\ req[t].now <= clock + 1
    BY <2>1
  <2>. QED
    BY <1>0, <2>1, <2>2
<1>4. CASE UNCHANGED vars
  BY <1>4 DEF vars
<1>. QED
  BY <1>1, <1>2, <1>3, <1>4 DEF Next

LEMMA ClockStep ==
  ASSUME [Next]_vars
  PROVE  clock' = clock \/ clock' = clock + 1
<1>1. ASSUME NEW t \in Task, Step(t) PROVE clock' = clock
  BY <1>1, StepKinds DEF Kind, Reserve, Begin, Lock, PassesOn, Passes, Leaves,
                         InsertAny, SettleAny
<1>. QED
  BY <1>1 DEF Next, Restart, Tick, vars

\* A row is decided on while its transaction lasts.
LEMMA InvPrompt ==
  ASSUME TypeOK, HeldInserted, Timed, Prompt, [Next]_vars
  PROVE  Prompt'
<1>0. clock \in Nat /\ MaxTx \in Nat /\ (clock' = clock \/ clock' = clock + 1)
  BY ClockStep, QuotaAssumption DEF TypeOK, Time, QuotaAssumption
<1>1. ASSUME \A i \in RowId : Kept(i) PROVE Prompt'
  <2>1. SUFFICES ASSUME NEW i \in RowId, row'[i] # Null
                 PROVE  /\ row'[i].created <= row'[i].decided
                        /\ row'[i].decided <= row'[i].created + MaxTx
                        /\ row'[i].decided <= clock'
    BY DEF Prompt
  <2>2. /\ row[i] \in Row /\ row'[i].created = row[i].created
        /\ row'[i].decided = row[i].decided
    BY <1>1, <2>1, NotNull DEF Kept, TypeOK
  <2>3. row[i].decided \in Nat /\ row[i].decided <= clock
    BY <2>2, NotNull DEF Prompt, Row, Time
  <2>. QED
    BY <1>0, <2>2, <2>3, NotNull DEF Prompt
<1>2. ASSUME NEW t \in Task, NEW i \in RowId, InsertAny(t, i) PROVE Prompt'
  <2>1. /\ row'[i] = NewRow(t) /\ \A j \in RowId \ {i} : row'[j] = row[j]
        /\ clock' = clock
    BY <1>2, InsertAdds DEF InsertAny
  <2>2. /\ req[t].start <= req[t].now /\ req[t].now <= clock
        /\ req[t].now <= req[t].start + MaxTx
    <3>1. pc[t] = "insert"
      BY <1>2 DEF InsertAny
    <3>. QED
      BY <1>0, <3>1 DEF Timed, Checking, InTx
  <2>. QED
    BY <2>1, <2>2 DEF Prompt, NewRow
<1>. QED
  BY <1>1, <1>2, TableStep

\* What is reserved has not been billed.
LEMMA InvUnbilled ==
  ASSUME TypeOK, HeldInserted, Timed, Unbilled, [Next]_vars
  PROVE  Unbilled'
<1>1. ASSUME \A i \in RowId : Kept(i) PROVE Unbilled'
  BY <1>1, NotNull DEF Unbilled, Kept
<1>2. ASSUME NEW t \in Task, NEW i \in RowId, InsertAny(t, i) PROVE Unbilled'
  <2>1. row'[i] = NewRow(t) /\ \A j \in RowId \ {i} : row'[j] = row[j]
    BY <1>2, InsertAdds
  <2>. QED
    BY <2>1 DEF Unbilled, NewRow
<1>. QED
  BY <1>1, <1>2, TableStep

-----------------------------------------------------------------------------
(* The counts. *)

\* The rows a count may see are rows of the table, and not null.
LEMMA CountsRows ==
  ASSUME NEW l, NEW n
  PROVE  /\ Recent(l, n) \subseteq RowId /\ \A i \in Recent(l, n) : row[i] # Null
         /\ Today(l, n) \subseteq RowId /\ \A i \in Today(l, n) : row[i] # Null
         /\ Minute(l) \subseteq RowId /\ \A i \in Minute(l) : row[i] # Null
         /\ DayRows(l, n) \subseteq RowId /\ \A i \in DayRows(l, n) : row[i] # Null
         /\ Recent(l, n)' \subseteq RowId /\ Today(l, n)' \subseteq RowId
         /\ Minute(l)' \subseteq RowId /\ DayRows(l, n)' \subseteq RowId
BY DEF Recent, Today, Minute, DayRows, Rows

\* A settlement adds no row to a count.
LEMMA KeptRecent ==
  ASSUME TypeOK, \A i \in RowId : Kept(i), NEW l \in Lane, NEW now \in Nat
  PROVE  /\ Recent(l, now)' \subseteq Recent(l, now)
         /\ Today(l, now)' \subseteq Today(l, now)
BY NotNull DEF Recent, Today, Rows, Active, Kept

LEMMA KeptDayRows ==
  ASSUME TypeOK, \A i \in RowId : Kept(i), NEW l \in Lane, NEW d
  PROVE  DayRows(l, d)' \subseteq DayRows(l, d)
BY NotNull DEF DayRows, Rows, Counts, Kept

\* Nor does time.
LEMMA KeptMinute ==
  ASSUME TypeOK, \A i \in RowId : Kept(i), NEW l \in Lane,
         clock' = clock \/ clock' = clock + 1
  PROVE  Minute(l)' \subseteq Minute(l)
<1>1. clock \in Nat /\ Window \in Nat
      /\ \A i \in RowId : row[i] \in Row \cup {Null}
  BY QuotaAssumption DEF TypeOK, Time, QuotaAssumption
<1>2. ASSUME NEW i \in Minute(l)' PROVE i \in Minute(l)
  <2>1. /\ i \in RowId /\ row'[i] # Null /\ row'[i].lane = l
        /\ row'[i].status # "released"
        /\ row'[i].created + Window > clock'
    BY <1>2 DEF Minute, Rows, Counts
  <2>2. /\ row[i] # Null /\ row[i].lane = l /\ row[i].status # "released"
        /\ row[i].created = row'[i].created
    BY <2>1 DEF Kept
  <2>3. row[i].created \in Nat
    BY <1>1, <2>1, <2>2 DEF Row, Time
  <2>4. row[i].created + Window > clock
    BY <1>1, <2>1, <2>2, <2>3
  <2>. QED
    BY <2>1, <2>2, <2>4 DEF Minute, Rows, Counts
<1>. QED
  BY <1>2

\* What is in the minute was counted, or is the row just added.
LEMMA InsertMinute ==
  ASSUME TypeOK, Timed, NEW t \in Task, NEW i \in RowId, InsertAny(t, i),
         NEW l \in Lane
  PROVE  /\ l # req[t].lane => Minute(l)' \subseteq Minute(l)
         /\ l = req[t].lane =>
              Minute(l)' \subseteq Recent(l, req[t].now) \cup {i}
<1>1. /\ clock' = clock /\ clock \in Nat /\ Window \in Nat
      /\ \A j \in RowId : row[j] \in Row \cup {Null}
  BY QuotaAssumption DEF TypeOK, Time, QuotaAssumption, InsertAny
<1>2. /\ row'[i] = NewRow(t) /\ \A j \in RowId \ {i} : row'[j] = row[j]
      /\ req[t].now \in Nat
  BY <1>1, InsertAdds, QuotaAssumption DEF QuotaAssumption, Time
<1>3. req[t].now <= clock
  BY DEF Timed, InsertAny, Checking, InTx
<1>4. \A j \in Minute(l)' \ {i} : j \in Minute(l)
  BY <1>1, <1>2 DEF Minute, Rows
<1>5. i \in Minute(l)' => l = req[t].lane
  BY <1>2 DEF Minute, Rows, NewRow
<1>6. ASSUME NEW j \in Minute(l) PROVE j \in Recent(l, req[t].now)
  <2>1. /\ j \in RowId /\ row[j] # Null /\ row[j].lane = l
        /\ row[j].status # "released" /\ row[j].created + Window > clock
    BY <1>6 DEF Minute, Rows, Counts
  <2>2. row[j].created \in Nat /\ row[j].status \in Active
    BY <1>1, <2>1 DEF Row, Time, Status, Active
  <2>3. row[j].created + Window > req[t].now
    BY <1>1, <1>2, <1>3, <2>1, <2>2
  <2>. QED
    BY <2>1, <2>2, <2>3 DEF Recent, Rows
<1>. QED
  BY <1>4, <1>5, <1>6

\* What is in a day was counted, or is the row just added; a row that waited
\* for the lock over midnight is late instead.
LEMMA InsertDayRows ==
  ASSUME TypeOK, Timed, NEW t \in Task, NEW i \in RowId, InsertAny(t, i),
         NEW l \in Lane, NEW d
  PROVE  \/ DayRows(l, d)' \subseteq DayRows(l, d)
         \/ /\ l = req[t].lane
            /\ DayRows(l, d)' \subseteq Today(l, req[t].now) \cup {i}
<1>1. \A j \in RowId : row[j] \in Row \cup {Null}
  BY DEF TypeOK
<1>2. row'[i] = NewRow(t) /\ \A j \in RowId \ {i} : row'[j] = row[j]
  BY InsertAdds
<1>3. \A j \in DayRows(l, d)' \ {i} : j \in DayRows(l, d)
  BY <1>2 DEF DayRows, Rows
<1>4. CASE i \notin DayRows(l, d)'
  BY <1>3, <1>4
<1>5. CASE i \in DayRows(l, d)'
  <2>1. l = req[t].lane /\ DayOf(req[t].now) = d
    BY <1>2, <1>5 DEF DayRows, Rows, NewRow
  <2>2. ASSUME NEW j \in DayRows(l, d) PROVE j \in Today(l, req[t].now)
    <3>1. /\ j \in RowId /\ row[j] # Null /\ row[j].lane = l
          /\ row[j].status # "released" /\ DayOf(row[j].created) = d
      BY <2>2 DEF DayRows, Rows, Counts
    <3>2. row[j].status \in Active
      BY <1>1, <3>1 DEF Row, Status, Active
    <3>. QED
      BY <2>1, <3>1, <3>2 DEF Today, Rows
  <2>. QED
    BY <1>3, <2>1, <2>2
<1>. QED
  BY <1>4, <1>5

-----------------------------------------------------------------------------
(* The sums. *)

LEMMA FiniteRows == ASSUME NEW S, S \subseteq RowId PROVE IsFiniteSet(S)
BY RowsCardinality

LEMMA SureTyped ==
  ASSUME TypeOK, NEW i \in RowId, row[i] # Null
  PROVE  /\ SureCharge(i) \in Nat /\ Charge(row[i]) \in Nat
         /\ SureCharge(i) <= Charge(row[i]) /\ SureCharge(i) <= row[i].reserved
<1>1. row[i] \in Row
  BY DEF TypeOK
<1>2. /\ row[i].reserved \in Nat /\ row[i].actual \in Nat \cup {Null}
  BY <1>1, QuotaAssumption DEF Row, QuotaAssumption
<1>. QED
  BY <1>2 DEF SureCharge, Charge

\* The sum of the check is at least what is sure.
LEMMA SureSpent ==
  ASSUME TypeOK, NEW S, S \subseteq RowId, \A i \in S : row[i] # Null
  PROVE  Sure(S) \in Nat /\ Spent(S) \in Nat /\ Sure(S) <= Spent(S)
<1>1. IsFiniteSet(S)
  BY FiniteRows
<1>2. \A i \in S : /\ SureCharge(i) \in Nat /\ Charge(row[i]) \in Nat
                   /\ SureCharge(i) <= Charge(row[i])
  BY SureTyped
<1>. DEFINE f == [i \in S |-> SureCharge(i)]
            g == [i \in S |-> Charge(row[i])]
<1>3. /\ DOMAIN f = S /\ DOMAIN g = S
      /\ \A i \in S : f[i] \in Nat /\ g[i] \in Nat /\ f[i] <= g[i]
  BY <1>2
<1>. HIDE DEF f, g
<1>4. SumFunction(f) \in Nat /\ SumFunction(g) \in Nat
      /\ SumFunction(f) <= SumFunction(g)
  BY <1>1, <1>3, SumAtMost
<1>. QED
  BY <1>4 DEF f, g, Sure, Spent

\* What a set of rows surely costs after the step.
NextSure(S) == SumFunction([i \in S |-> SureCharge(i)'])

LEMMA KeptCharge ==
  ASSUME TypeOK, TypeOK', Unbilled, NEW i \in RowId, row[i] # Null, Kept(i)
  PROVE  SureCharge(i)' \in Nat /\ SureCharge(i)' <= SureCharge(i)
<1>1. CASE row'[i] = row[i]
  BY <1>1, SureTyped DEF SureCharge
<1>2. CASE row'[i] # row[i]
  <2>1. /\ row[i].actual = Null /\ row'[i].reserved = row[i].reserved
        /\ row'[i] \in Row
    BY <1>2 DEF Kept, Unbilled
  <2>2. /\ row'[i].reserved \in Nat /\ row'[i].actual \in Nat \cup {Null}
    BY <2>1, QuotaAssumption DEF Row, QuotaAssumption
  <2>. QED
    BY <2>1, <2>2 DEF SureCharge
<1>. QED
  BY <1>1, <1>2

\* Settlements, and leaving rows out, do not raise the sum.
LEMMA SureKept ==
  ASSUME TypeOK, TypeOK', Unbilled, NEW T, T \subseteq RowId,
         \A i \in T : row[i] # Null, NEW S, S \subseteq T, \A i \in S : Kept(i)
  PROVE  NextSure(S) \in Nat /\ Sure(T) \in Nat /\ NextSure(S) <= Sure(T)
<1>. DEFINE f == [i \in S |-> SureCharge(i)']
            g == [i \in T |-> SureCharge(i)]
<1>1. IsFiniteSet(T)
  BY FiniteRows
<1>2. \A i \in S : SureCharge(i)' \in Nat /\ SureCharge(i)' <= SureCharge(i)
  BY KeptCharge
<1>3. \A i \in T : SureCharge(i) \in Nat
  BY SureTyped
<1>4. /\ DOMAIN f = S /\ DOMAIN g = T /\ \A i \in T : g[i] \in Nat
      /\ \A i \in S : f[i] \in Nat /\ f[i] <= g[i]
  BY <1>2, <1>3
<1>. HIDE DEF f, g
<1>5. SumFunction(f) \in Nat /\ SumFunction(g) \in Nat
      /\ SumFunction(f) <= SumFunction(g)
  BY <1>1, <1>4, SumAtMost
<1>. QED
  BY <1>5 DEF f, g, Sure, NextSure

\* An insertion raises it by the estimate at most.
LEMMA SureInsert ==
  ASSUME TypeOK, TypeOK', Timed, Unbilled,
         NEW t \in Task, NEW i \in RowId, InsertAny(t, i),
         NEW T, T \subseteq RowId, \A j \in T : row[j] # Null,
         NEW S, S \subseteq T \cup {i}
  PROVE  /\ NextSure(S) \in Nat /\ Sure(T) \in Nat /\ req[t].est \in Nat
         /\ NextSure(S) <= Sure(T) + req[t].est
<1>. DEFINE f == [j \in S |-> SureCharge(j)']
            g == [j \in T |-> SureCharge(j)]
            n == req[t].est
<1>1. IsFiniteSet(T)
  BY FiniteRows
<1>2. /\ row'[i] = NewRow(t) /\ req[t] \in Request
      /\ \A j \in RowId \ {i} : row'[j] = row[j]
  BY InsertAdds
<1>3. n \in Nat
  BY <1>2, QuotaAssumption DEF Request, QuotaAssumption
<1>4. SureCharge(i)' = n
  BY <1>2 DEF SureCharge, NewRow
<1>5. \A j \in T : SureCharge(j) \in Nat
  BY SureTyped
<1>6. \A j \in S \ {i} : SureCharge(j)' = SureCharge(j)
  BY <1>2 DEF SureCharge
<1>7. /\ DOMAIN f = S /\ DOMAIN g = T /\ \A j \in T : g[j] \in Nat
      /\ \A j \in S \ {i} : f[j] \in Nat /\ f[j] <= g[j]
      /\ i \in S => f[i] \in Nat /\ f[i] <= n
  BY <1>3, <1>4, <1>5, <1>6
<1>. HIDE DEF f, g, n
<1>8. SumFunction(f) \in Nat /\ SumFunction(g) \in Nat
      /\ SumFunction(f) <= SumFunction(g) + n
  BY <1>1, <1>3, <1>7, SumOneMore
<1>. QED
  BY <1>3, <1>8 DEF f, g, n, Sure, NextSure

-----------------------------------------------------------------------------
(* The limits. *)

LEMMA LimitsTyped ==
  ASSUME NEW l \in Lane
  PROVE  Rpm[l] \in Nat /\ Tpm[l] \in Nat /\ Rpd[l] \in Nat /\ Budget[l] \in Nat
BY QuotaAssumption DEF QuotaAssumption

\* A settlement leaves true what a check has found.
LEMMA KeptFinds ==
  ASSUME TypeOK, TypeOK', Unbilled, \A i \in RowId : Kept(i),
         NEW at, NEW l \in Lane, NEW now \in Nat, NEW est \in Nat,
         Finds(at, l, now, est)
  PROVE  Finds(at, l, now, est)'
<1>1. /\ Recent(l, now)' \subseteq Recent(l, now)
      /\ Today(l, now)' \subseteq Today(l, now)
  BY KeptRecent
<1>2. /\ Cardinality(Recent(l, now)') <= Cardinality(Recent(l, now))
      /\ Cardinality(Recent(l, now)') \in Nat
      /\ Cardinality(Recent(l, now)) \in Nat
  BY <1>1, CountsRows, RowsCardinality
<1>3. /\ Cardinality(Today(l, now)') <= Cardinality(Today(l, now))
      /\ Cardinality(Today(l, now)') \in Nat
      /\ Cardinality(Today(l, now)) \in Nat
  BY <1>1, CountsRows, RowsCardinality
<1>4. /\ NextSure(Recent(l, now)') \in Nat /\ Sure(Recent(l, now)) \in Nat
      /\ NextSure(Recent(l, now)') <= Sure(Recent(l, now))
  BY <1>1, CountsRows, SureKept
<1>5. /\ NextSure(Today(l, now)') \in Nat /\ Sure(Today(l, now)) \in Nat
      /\ NextSure(Today(l, now)') <= Sure(Today(l, now))
  BY <1>1, CountsRows, SureKept
<1>6. /\ Sure(Recent(l, now))' = NextSure(Recent(l, now)')
      /\ Sure(Today(l, now))' = NextSure(Today(l, now)')
  BY DEF Sure, NextSure
<1>7. RpmLeft(l, now) => RpmLeft(l, now)'
  BY <1>2, LimitsTyped DEF RpmLeft
<1>8. RpdLeft(l, now) => RpdLeft(l, now)'
  BY <1>3, LimitsTyped DEF RpdLeft
<1>9. TpmLeft(l, now, est) => TpmLeft(l, now, est)'
  BY <1>4, <1>6, LimitsTyped DEF TpmLeft
<1>10. BudgetLeft(l, now, est) => BudgetLeft(l, now, est)'
  BY <1>5, <1>6, LimitsTyped DEF BudgetLeft
<1>. QED
  BY <1>7, <1>8, <1>9, <1>10 DEF Finds

\* The arguments of a caller in its checks.
LEMMA CheckingTyped ==
  ASSUME TypeOK, Timed, NEW t \in Task, pc[t] \in Checking
  PROVE  req[t].lane \in Lane /\ req[t].now \in Nat /\ req[t].est \in Nat
<1>1. req[t] \in Request /\ req[t].now \in Nat
  BY DEF TypeOK, Timed, Checking, InTx
<1>. QED
  BY <1>1, QuotaAssumption DEF Request, QuotaAssumption

\* A caller in its checks holds the lock: no other one inserts, and it has
\* stayed where it was, or has just got the lock or passed a check.
LEMMA HolderAlone ==
  ASSUME TypeOK, HeldInserted, Locked, Timed, [Next]_vars,
         NEW u \in Task, pc'[u] \in Checking
  PROVE  /\ \A i \in RowId : Kept(i)
         /\ \/ pc'[u] = "budget"
            \/ pc'[u] = pc[u] /\ req'[u] = req[u]
            \/ PassesOn(u)
<1>1. ASSUME NEW t \in Task, NEW i \in RowId, InsertAny(t, i) PROVE FALSE
  <2>1. pc[t] = "insert" /\ lock = t /\ pc'[t] \in {"idle", "held"}
    BY <1>1 DEF InsertAny, Goto, TypeOK, Locked, Checking, InTx
  <2>2. u # t
    BY <2>1 DEF Checking, InTx
  <2>3. pc'[u] = pc[u]
    BY <1>1, <2>2, StepOthers DEF Kind
  <2>. QED
    BY <2>1, <2>2, <2>3 DEF Locked
<1>2. \A i \in RowId : Kept(i)
  BY <1>1, TableStep
<1>3. ASSUME NEW t \in Task, Step(t)
      PROVE  \/ pc'[u] = "budget"
             \/ pc'[u] = pc[u] /\ req'[u] = req[u]
             \/ PassesOn(u)
  <2>1. Kind(t)
    BY <1>3, StepKinds
  <2>2. CASE u # t
    BY <2>1, <2>2, StepOthers
  <2>3. CASE u = t
    <3>1. \/ PassesOn(t) \/ pc'[t] \in {"idle", "ready", "lock", "budget", "held"}
      BY <1>1, <2>1 DEF Kind, Reserve, Begin, Lock, Leaves, Retry, Raise,
                        SettleAny, Forget, Goto, TypeOK
    <3>. QED
      BY <2>3, <3>1 DEF Checking, InTx
  <2>. QED
    BY <2>2, <2>3
<1>4. ASSUME Restart
      PROVE  FALSE
  BY <1>4 DEF Restart, Checking, InTx
<1>5. ASSUME UNCHANGED <<pc, req>>
      PROVE  pc'[u] = pc[u] /\ req'[u] = req[u]
  BY <1>5
<1>. QED
  BY <1>2, <1>3, <1>4, <1>5 DEF Next, Tick, vars

LEMMA FindsOf ==
  ASSUME NEW u \in Task, NEW at, NEW l, NEW now, NEW est,
         pc'[u] = at, req'[u].lane = l, req'[u].now = now, req'[u].est = est,
         Finds(at, l, now, est)'
  PROVE  Finds(pc[u], req[u].lane, req[u].now, req[u].est)'
<1>1. /\ Recent(req[u].lane, req[u].now)' = Recent(l, now)'
      /\ Today(req[u].lane, req[u].now)' = Today(l, now)'
  BY DEF Recent, Today, Rows
<1>2. /\ Sure(Recent(req[u].lane, req[u].now))' = Sure(Recent(l, now))'
      /\ Sure(Today(req[u].lane, req[u].now))' = Sure(Today(l, now))'
  BY <1>1 DEF Sure
<1>. QED
  BY <1>1, <1>2 DEF Finds, RpmLeft, TpmLeft, RpdLeft, BudgetLeft

\* What a check finds adds to what the caller knows.
LEMMA PassFinds ==
  ASSUME TypeOK, TypeOK', Timed, Granted, NEW u \in Task, PassesOn(u)
  PROVE  Finds(pc[u], req[u].lane, req[u].now, req[u].est)'
<1>1. PICK l \in Lane, now \in Nat, est \in Nat :
        req[u].lane = l /\ req[u].now = now /\ req[u].est = est
  BY CheckingTyped DEF PassesOn, Passes, Checking, InTx
<1>2. row' = row /\ req' = req
  BY DEF PassesOn, Passes
<1>3. Finds(pc[u], l, now, est)
  BY <1>1 DEF Granted, PassesOn, Passes, Checking, InTx
<1>4. /\ Spent(Today(l, now)) + est <= Budget[l] => BudgetLeft(l, now, est)
      /\ Spent(Recent(l, now)) + est <= Tpm[l] => TpmLeft(l, now, est)
  <2>1. /\ Sure(Today(l, now)) \in Nat /\ Spent(Today(l, now)) \in Nat
        /\ Sure(Today(l, now)) <= Spent(Today(l, now))
    BY CountsRows, SureSpent
  <2>2. /\ Sure(Recent(l, now)) \in Nat /\ Spent(Recent(l, now)) \in Nat
        /\ Sure(Recent(l, now)) <= Spent(Recent(l, now))
    BY CountsRows, SureSpent
  <2>. QED
    BY <2>1, <2>2, LimitsTyped DEF BudgetLeft, TpmLeft
<1>5. Finds(pc'[u], l, now, est)
  <2>1. CASE pc[u] = "budget" /\ pc'[u] = "rpm" /\ BudgetLeft(l, now, est)
    BY <2>1 DEF Finds
  <2>2. CASE pc[u] = "rpm" /\ pc'[u] = "tpm" /\ RpmLeft(l, now)
    BY <1>3, <2>2 DEF Finds
  <2>3. CASE pc[u] = "tpm" /\ pc'[u] = "rpd" /\ TpmLeft(l, now, est)
    BY <1>3, <2>3 DEF Finds
  <2>4. CASE pc[u] = "rpd" /\ pc'[u] = "insert" /\ RpdLeft(l, now)
    BY <1>3, <2>4 DEF Finds
  <2>5. \/ pc[u] = "budget" /\ pc'[u] = "rpm" /\ BudgetLeft(l, now, est)
        \/ pc[u] = "rpm" /\ pc'[u] = "tpm" /\ RpmLeft(l, now)
        \/ pc[u] = "tpm" /\ pc'[u] = "rpd" /\ TpmLeft(l, now, est)
        \/ pc[u] = "rpd" /\ pc'[u] = "insert" /\ RpdLeft(l, now)
    <3>1. /\ Budget[l] = 0 => BudgetLeft(l, now, est)
          /\ Tpm[l] = 0 => TpmLeft(l, now, est)
      BY DEF BudgetLeft, TpmLeft
    <3>2. \A at, next : Passes(u, at, next) => pc[u] = at /\ pc'[u] = next
      BY DEF Passes, Goto, TypeOK
    <3>. QED
      BY <1>1, <1>4, <3>1, <3>2 DEF PassesOn
  <2>. QED
    BY <2>1, <2>2, <2>3, <2>4, <2>5
<1>6. PICK at : at = pc'[u]
  OBVIOUS
<1>7. \A i \in RowId : Kept(i)
  BY <1>2 DEF Kept
<1>8. Finds(at, l, now, est)'
  <2>1. Recent(l, now)' = Recent(l, now) /\ Today(l, now)' = Today(l, now)
    BY <1>2 DEF Recent, Today, Rows
  <2>2. \A S : Sure(S)' = Sure(S)
    BY <1>2 DEF Sure, SureCharge
  <2>3. /\ Sure(Recent(l, now))' = Sure(Recent(l, now))
        /\ Sure(Today(l, now))' = Sure(Today(l, now))
    BY <1>2, <2>1 DEF Sure, SureCharge
  <2>. QED
    BY <1>5, <1>6, <2>1, <2>3 DEF Finds, RpmLeft, TpmLeft, RpdLeft, BudgetLeft
<1>. QED
  BY <1>1, <1>2, <1>6, <1>8, FindsOf

\* A caller keeps what its checks have found.
LEMMA InvGranted ==
  ASSUME TypeOK, TypeOK', HeldInserted, Locked, Timed, Unbilled, Granted, [Next]_vars
  PROVE  Granted'
<1>1. ASSUME NEW u \in Task, pc'[u] \in Checking
      PROVE  Finds(pc[u], req[u].lane, req[u].now, req[u].est)'
  <2>1. /\ \A i \in RowId : Kept(i)
        /\ \/ pc'[u] = "budget"
           \/ pc'[u] = pc[u] /\ req'[u] = req[u]
           \/ PassesOn(u)
    BY <1>1, HolderAlone
  <2>2. CASE pc'[u] = "budget"
    BY <2>2 DEF Finds
  <2>3. CASE pc'[u] = pc[u] /\ req'[u] = req[u]
    <3>0. pc[u] \in Checking
      BY <1>1, <2>3
    <3>1. PICK at \in Checking, l \in Lane, now \in Nat, est \in Nat :
            /\ pc[u] = at /\ req[u].lane = l
            /\ req[u].now = now /\ req[u].est = est
      BY <3>0, CheckingTyped
    <3>2. Finds(at, l, now, est)
      BY <1>1, <2>3, <3>1 DEF Granted
    <3>3. Finds(at, l, now, est)'
      BY <2>1, <3>2, KeptFinds
    <3>. QED
      BY <2>3, <3>1, <3>3, FindsOf
  <2>4. CASE PassesOn(u)
    BY <2>4, PassFinds
  <2>. QED
    BY <2>1, <2>2, <2>3, <2>4
<1>. QED
  BY <1>1 DEF Granted, Checking, InTx

\* The rows of a limit after a step are rows it had, or rows that the check of
\* the insertion saw and the new one.
LEMMA InvLimits ==
  ASSUME TypeOK, TypeOK', HeldInserted, Timed, Unbilled, Granted, Limits, [Next]_vars
  PROVE  Limits'
<1>. SUFFICES ASSUME NEW l \in Lane
              PROVE  /\ Rpm[l] # 0 => Cardinality(Minute(l)') <= Rpm[l]
                     /\ Tpm[l] # 0 => NextSure(Minute(l)') <= Tpm[l]
                     /\ \A d \in {DayOf(c) : c \in Time} :
                          /\ Rpd[l] # 0 => Cardinality(DayRows(l, d)') <= Rpd[l]
                          /\ Budget[l] # 0 => NextSure(DayRows(l, d)') <= Budget[l]
  <2>1. \A l \in Lane : /\ Sure(Minute(l))' = NextSure(Minute(l)')
                        /\ \A d : Sure(DayRows(l, d))' = NextSure(DayRows(l, d)')
    BY DEF Sure, NextSure
  <2>. QED
    BY <2>1 DEF Limits, WindowLimit, TokenLimit, DayCounts, DayOf
<1>0. /\ Rpm[l] \in Nat /\ Tpm[l] \in Nat /\ Rpd[l] \in Nat /\ Budget[l] \in Nat
      /\ Rpm[l] # 0 => Cardinality(Minute(l)) <= Rpm[l]
      /\ Tpm[l] # 0 => Sure(Minute(l)) <= Tpm[l]
      /\ \A d \in {DayOf(c) : c \in Time} :
           /\ Rpd[l] # 0 => Cardinality(DayRows(l, d)) <= Rpd[l]
           /\ Budget[l] # 0 => Sure(DayRows(l, d)) <= Budget[l]
  BY LimitsTyped DEF Limits, WindowLimit, TokenLimit, DayCounts
<1>1. ASSUME NEW T, T \subseteq RowId, \A j \in T : row[j] # Null,
             NEW S, S \subseteq T, \A j \in S : Kept(j), NEW n \in Nat
      PROVE  /\ Cardinality(T) <= n => Cardinality(S) <= n
             /\ Sure(T) <= n => NextSure(S) <= n
  <2>1. /\ Cardinality(S) <= Cardinality(T)
        /\ Cardinality(S) \in Nat /\ Cardinality(T) \in Nat
    BY <1>1, RowsCardinality
  <2>2. NextSure(S) \in Nat /\ Sure(T) \in Nat /\ NextSure(S) <= Sure(T)
    BY <1>1, SureKept
  <2>. QED
    BY <2>1, <2>2
<1>2. ASSUME NEW t \in Task, NEW i \in RowId, InsertAny(t, i),
             NEW T, T \subseteq RowId, \A j \in T : row[j] # Null,
             NEW S, S \subseteq T \cup {i}, S \subseteq RowId, NEW n \in Nat
      PROVE  /\ Cardinality(T) < n => Cardinality(S) <= n
             /\ Sure(T) + req[t].est <= n => NextSure(S) <= n
  <2>1. /\ Cardinality(S) <= Cardinality(T) + 1
        /\ Cardinality(S) \in Nat /\ Cardinality(T) \in Nat
    BY <1>2, OneRowMore, RowsCardinality
  <2>2. /\ NextSure(S) \in Nat /\ Sure(T) \in Nat /\ req[t].est \in Nat
        /\ NextSure(S) <= Sure(T) + req[t].est
    BY <1>2, SureInsert
  <2>. QED
    BY <2>1, <2>2
<1>3. ASSUME NEW t \in Task, NEW i \in RowId, InsertAny(t, i)
      PROVE  \A j \in RowId \ {i} : Kept(j)
  BY <1>3, InsertAdds DEF Kept
<1>4. ASSUME NEW t \in Task, NEW i \in RowId, InsertAny(t, i)
      PROVE  Finds("insert", req[t].lane, req[t].now, req[t].est)
  BY <1>4 DEF Granted, InsertAny, Checking, InTx
<1>5. /\ Rpm[l] # 0 => Cardinality(Minute(l)') <= Rpm[l]
      /\ Tpm[l] # 0 => NextSure(Minute(l)') <= Tpm[l]
  <2>1. CASE Minute(l)' \subseteq Minute(l) /\ \A j \in Minute(l)' : Kept(j)
    BY <1>0, <1>1, <2>1, CountsRows
  <2>2. ASSUME NEW t \in Task, NEW i \in RowId, InsertAny(t, i), l = req[t].lane
        PROVE  /\ Rpm[l] # 0 => Cardinality(Minute(l)') <= Rpm[l]
               /\ Tpm[l] # 0 => NextSure(Minute(l)') <= Tpm[l]
    <3>1. PICK T : T = Recent(l, req[t].now)
      OBVIOUS
    <3>2. /\ T \subseteq RowId /\ \A j \in T : row[j] # Null
          /\ Minute(l)' \subseteq T \cup {i} /\ Minute(l)' \subseteq RowId
      BY <2>2, <3>1, InsertMinute, CountsRows
    <3>3. /\ Rpm[l] # 0 => Cardinality(T) < Rpm[l]
          /\ Tpm[l] # 0 => Sure(T) + req[t].est <= Tpm[l]
      BY <1>4, <2>2, <3>1 DEF Finds, RpmLeft, TpmLeft
    <3>. QED
      BY <1>0, <1>2, <2>2, <3>2, <3>3
  <2>3. ASSUME NEW t \in Task, NEW i \in RowId, InsertAny(t, i), l # req[t].lane
        PROVE  Minute(l)' \subseteq Minute(l) /\ \A j \in Minute(l)' : Kept(j)
    <3>1. Minute(l)' \subseteq Minute(l) /\ i \notin Minute(l)
      BY <2>3, InsertMinute, InsertAdds, CountsRows
    <3>. QED
      BY <1>3, <2>3, <3>1, CountsRows
  <2>4. ASSUME \A i \in RowId : Kept(i)
        PROVE  Minute(l)' \subseteq Minute(l) /\ \A j \in Minute(l)' : Kept(j)
    <3>1. clock' = clock \/ clock' = clock + 1
      BY ClockStep
    <3>. QED
      BY <2>4, <3>1, KeptMinute, CountsRows
  <2>. QED
    BY <2>1, <2>2, <2>3, <2>4, TableStep
<1>6. ASSUME NEW d \in {DayOf(c) : c \in Time}
      PROVE  /\ Rpd[l] # 0 => Cardinality(DayRows(l, d)') <= Rpd[l]
             /\ Budget[l] # 0 => NextSure(DayRows(l, d)') <= Budget[l]
  <2>1. CASE /\ DayRows(l, d)' \subseteq DayRows(l, d)
             /\ \A j \in DayRows(l, d)' : Kept(j)
    BY <1>0, <1>1, <1>6, <2>1, CountsRows
  <2>2. ASSUME NEW t \in Task, NEW i \in RowId, InsertAny(t, i), l = req[t].lane,
               DayRows(l, d)' \subseteq Today(l, req[t].now) \cup {i}
        PROVE  /\ Rpd[l] # 0 => Cardinality(DayRows(l, d)') <= Rpd[l]
               /\ Budget[l] # 0 => NextSure(DayRows(l, d)') <= Budget[l]
    <3>1. PICK T : T = Today(l, req[t].now)
      OBVIOUS
    <3>2. /\ T \subseteq RowId /\ \A j \in T : row[j] # Null
          /\ DayRows(l, d)' \subseteq T \cup {i} /\ DayRows(l, d)' \subseteq RowId
      BY <2>2, <3>1, CountsRows
    <3>3. /\ Rpd[l] # 0 => Cardinality(T) < Rpd[l]
          /\ Budget[l] # 0 => Sure(T) + req[t].est <= Budget[l]
      BY <1>4, <2>2, <3>1 DEF Finds, RpdLeft, BudgetLeft
    <3>. QED
      BY <1>0, <1>2, <2>2, <3>2, <3>3
  <2>3. ASSUME NEW t \in Task, NEW i \in RowId, InsertAny(t, i),
               DayRows(l, d)' \subseteq DayRows(l, d)
        PROVE  \A j \in DayRows(l, d)' : Kept(j)
    <3>1. i \notin DayRows(l, d)
      BY <2>3, InsertAdds, CountsRows
    <3>. QED
      BY <1>3, <2>3, <3>1, CountsRows
  <2>4. ASSUME \A i \in RowId : Kept(i)
        PROVE  /\ DayRows(l, d)' \subseteq DayRows(l, d)
               /\ \A j \in DayRows(l, d)' : Kept(j)
    BY <2>4, KeptDayRows, CountsRows
  <2>. QED
    BY <2>1, <2>2, <2>3, <2>4, TableStep, InsertDayRows
<1>. QED
  BY <1>5, <1>6

-----------------------------------------------------------------------------
(* The rows over midnight. *)

\* Days follow one another.
LEMMA DayTyped == ASSUME NEW c \in Nat PROVE DayOf(c) \in Nat
BY QuotaAssumption DEF DayOf, QuotaAssumption

LEMMA DayBetween ==
  ASSUME NEW a \in Nat, NEW b \in Nat, NEW c \in Nat, a <= b, b <= c,
         DayOf(a) = DayOf(c)
  PROVE  DayOf(b) = DayOf(a)
<1>1. Day \in Nat /\ Day > 0
  BY QuotaAssumption DEF QuotaAssumption
<1>. QED
  BY <1>1 DEF DayOf

\* While a day lasts, none of its rows is late.
LEMMA NoneYet ==
  ASSUME TypeOK, Prompt
  PROVE  Late(DayOf(clock)) = {}
<1>1. SUFFICES ASSUME NEW i \in Late(DayOf(clock)) PROVE FALSE
  OBVIOUS
<1>2. /\ i \in RowId /\ row[i] # Null /\ DayOf(row[i].created) = DayOf(clock)
      /\ DayOf(row[i].decided) # DayOf(clock)
  BY <1>1 DEF Late, Rows
<1>3. /\ row[i].created \in Nat /\ row[i].decided \in Nat /\ clock \in Nat
      /\ row[i].created <= row[i].decided /\ row[i].decided <= clock
  BY <1>2 DEF TypeOK, Prompt, Row, Time
<1>. QED
  BY <1>2, <1>3, DayBetween

LEMMA LateFinite ==
  ASSUME NEW d
  PROVE  /\ Late(d) \subseteq RowId /\ Late(d)' \subseteq RowId
         /\ IsFiniteSet(Task) /\ Cardinality(Task) \in Nat
         /\ \A S : S \subseteq Task =>
              /\ IsFiniteSet(S) /\ Cardinality(S) \in Nat
              /\ Cardinality(S) <= Cardinality(Task)
<1>1. IsFiniteSet(Task)
  BY QuotaAssumption DEF QuotaAssumption
<1>. QED
  BY <1>1, FS_Subset, FS_CardinalityType DEF Late, Rows

\* A day opens a transaction only while it lasts.
LEMMA OpenStep ==
  ASSUME TypeOK, Timed, [Next]_vars, NEW d
  PROVE  Open(d)' \subseteq Open(d) \/ d = DayOf(clock)
<1>. USE DEF Open
<1>1. ASSUME NEW t \in Task, Step(t)
      PROVE  Open(d)' \subseteq Open(d) \/ d = DayOf(clock)
  <2>1. Kind(t)
    BY <1>1, StepKinds
  <2>2. \A u \in Task \ {t} : pc'[u] = pc[u] /\ req'[u] = req[u]
    BY <2>1, StepOthers
  <2>3. CASE Begin(t)
    <3>1. req'[t].start = clock
      BY <2>3 DEF Begin, TypeOK, Request
    <3>. QED
      BY <2>2, <3>1 DEF DayOf
  <2>4. CASE Lock(t)
    <3>1. req'[t].start = req[t].start /\ pc[t] \in InTx
      BY <2>4 DEF Lock, TypeOK, Request, InTx
    <3>. QED
      BY <2>2, <3>1 DEF DayOf
  <2>5. CASE PassesOn(t)
    <3>1. req' = req /\ pc[t] \in InTx
      BY <2>5 DEF PassesOn, Passes, InTx
    <3>. QED
      BY <2>2, <3>1 DEF DayOf
  <2>6. CASE pc'[t] \notin InTx
    BY <2>2, <2>6 DEF DayOf
  <2>7. \/ Begin(t) \/ Lock(t) \/ PassesOn(t) \/ pc'[t] \notin InTx
    BY <2>1 DEF Kind, Reserve, Leaves, Retry, Raise, InsertAny, SettleAny, Forget,
                InTx, Goto, TypeOK
  <2>. QED
    BY <2>3, <2>4, <2>5, <2>6, <2>7
<1>2. CASE Restart
  BY <1>2 DEF Restart, InTx
<1>3. CASE UNCHANGED <<pc, req>>
  BY <1>3 DEF DayOf
<1>. QED
  BY <1>1, <1>2, <1>3 DEF Next, Tick, vars

\* A late row ends the open transaction it comes from.
LEMMA InvLate ==
  ASSUME TypeOK, TypeOK', HeldInserted, Timed, Prompt, LateBounded, [Next]_vars
  PROVE  LateBounded'
<1>1. SUFFICES ASSUME NEW d \in Nat PROVE AtMostOnePerCaller(d)'
  BY DEF LateBounded
<1>2. /\ AtMostOnePerCaller(d)
      /\ Open(d) \subseteq Task /\ Open(d)' \subseteq Task
      /\ Late(d) \subseteq RowId /\ Late(d)' \subseteq RowId
  BY LateFinite DEF LateBounded, Open
<1>3. /\ IsFiniteSet(Open(d)) /\ Cardinality(Open(d)) \in Nat
      /\ Cardinality(Open(d)') \in Nat /\ Cardinality(Task) \in Nat
      /\ Cardinality(Open(d)') <= Cardinality(Task)
      /\ Cardinality(Late(d)) \in Nat /\ Cardinality(Late(d)') \in Nat
  BY <1>2, LateFinite, RowsCardinality
<1>4. ASSUME \A i \in RowId : Kept(i) PROVE AtMostOnePerCaller(d)'
  <2>1. Late(d)' \subseteq Late(d)
    BY <1>4, NotNull DEF Late, Rows, Kept, DayOf
  <2>2. Cardinality(Late(d)') <= Cardinality(Late(d))
    BY <1>2, <2>1, RowsCardinality
  <2>3. CASE Open(d)' \subseteq Open(d)
    <3>1. Cardinality(Open(d)') <= Cardinality(Open(d))
      BY <1>3, <2>3, FS_Subset
    <3>. QED
      BY <1>2, <1>3, <2>2, <3>1 DEF AtMostOnePerCaller
  <2>4. CASE d = DayOf(clock)
    <3>1. Cardinality(Late(d)) = 0
      BY <2>4, NoneYet, FS_EmptySet
    <3>. QED
      BY <1>3, <2>2, <3>1 DEF AtMostOnePerCaller
  <2>. QED
    BY <2>3, <2>4, OpenStep
<1>5. ASSUME NEW t \in Task, NEW i \in RowId, InsertAny(t, i)
      PROVE  AtMostOnePerCaller(d)'
  <2>1. /\ row'[i] = NewRow(t) /\ \A j \in RowId \ {i} : row'[j] = row[j]
        /\ pc[t] \in InTx /\ pc'[t] \notin InTx
    BY <1>5, InsertAdds DEF InsertAny, InTx, Goto, TypeOK
  <2>2. \A u \in Task \ {t} : pc'[u] = pc[u] /\ req'[u] = req[u]
    BY <1>5, StepOthers DEF Kind
  <2>3. Open(d)' \subseteq Open(d) \ {t}
    BY <2>1, <2>2 DEF Open, DayOf
  <2>4. Late(d)' \subseteq Late(d) \cup {i}
    BY <2>1 DEF Late, Rows, DayOf
  <2>5. CASE t \in Open(d)
    <3>1. Cardinality(Late(d)') <= Cardinality(Late(d)) + 1
      BY <1>2, <2>4, OneRowMore
    <3>2. /\ IsFiniteSet(Open(d) \ {t})
          /\ Cardinality(Open(d) \ {t}) = Cardinality(Open(d)) - 1
      BY <1>3, <2>5, FS_RemoveElement
    <3>3. Cardinality(Open(d)') <= Cardinality(Open(d) \ {t})
      BY <2>3, <3>2, FS_Subset
    <3>. QED
      BY <1>2, <1>3, <3>1, <3>2, <3>3 DEF AtMostOnePerCaller
  <2>6. CASE t \notin Open(d)
    <3>1. i \notin Late(d)'
      BY <2>1, <2>6 DEF Late, Rows, NewRow, Open, DayOf
    <3>2. Late(d)' \subseteq Late(d) /\ Open(d)' \subseteq Open(d)
      BY <2>3, <2>4, <3>1
    <3>3. /\ Cardinality(Late(d)') <= Cardinality(Late(d))
          /\ Cardinality(Open(d)') <= Cardinality(Open(d))
      BY <1>2, <1>3, <3>2, RowsCardinality, FS_Subset
    <3>. QED
      BY <1>2, <1>3, <3>3 DEF AtMostOnePerCaller
  <2>. QED
    BY <2>5, <2>6
<1>. QED
  BY <1>4, <1>5, TableStep

\* Inv holds in every reachable state.
THEOREM Invariant == Spec => []Inv
<1>1. ASSUME Inv, [Next]_vars PROVE Inv'
  <2>1. TypeOK' /\ HeldInserted'
    BY <1>1, InvType DEF Inv
  <2>. QED
    BY <1>1, <2>1, InvLocked, InvTimed, InvGranted, InvUnbilled, InvPrompt, InvLimits,
     InvLate DEF Inv
<1>. QED
  BY InitInv, <1>1, PTL DEF Spec

-----------------------------------------------------------------------------
(* The properties. *)

\* The ledger's state is well formed: who has a reservation to settle has its
\* id, and only a caller in reserve has arguments (quota.py).
THEOREM TypeCorrect == Spec => []TypeOK
BY Invariant, PTL DEF Inv

\* For any callers and limits, no more than RPM reservations of a lane are in
\* the last minute (the COUNT and the INSERT of _try_reserve_once).
THEOREM WindowLimitHolds == Spec => []WindowLimit
BY Invariant, PTL DEF Inv, Limits

\* For any callers and limits, no window shorter than the minute by the
\* longest transaction holds more than RPM granted requests of a lane: the
\* wait for the advisory lock costs no more than that.
THEOREM RateLimitHolds == Spec => []RateLimit
<1>1. ASSUME Inv PROVE RateLimit
  <2>. DEFINE Granting(l) ==
         Rows(LAMBDA r : /\ r.lane = l /\ Counts(r)
                         /\ r.decided + Window > clock + MaxTx)
  <2>1. ASSUME NEW l \in Lane PROVE Granting(l) \subseteq Minute(l)
    <3>1. /\ clock \in Nat /\ Window \in Nat /\ MaxTx \in Nat
          /\ \A i \in RowId : row[i] \in Row \cup {Null}
      BY <1>1, QuotaAssumption DEF Inv, TypeOK, Time, QuotaAssumption
    <3>2. ASSUME NEW i \in Granting(l) PROVE i \in Minute(l)
      <4>1. /\ i \in RowId /\ row[i] # Null /\ row[i].lane = l
            /\ Counts(row[i]) /\ row[i].decided + Window > clock + MaxTx
        BY <3>2 DEF Rows
      <4>2. row[i].decided \in Nat /\ row[i].created \in Nat
        BY <3>1, <4>1 DEF Row, Time
      <4>3. row[i].decided <= row[i].created + MaxTx
        BY <1>1, <4>1 DEF Inv, Prompt
      <4>4. row[i].created + Window > clock
        BY <3>1, <4>1, <4>2, <4>3
      <4>. QED
        BY <4>1, <4>4 DEF Minute, Rows
    <3>. QED
      BY <3>2
  <2>2. ASSUME NEW l \in Lane, Rpm[l] # 0
        PROVE  Cardinality(Granting(l)) <= Rpm[l]
    <3>1. /\ Cardinality(Granting(l)) <= Cardinality(Minute(l))
          /\ Cardinality(Granting(l)) \in Nat
          /\ Cardinality(Minute(l)) \in Nat
      BY <2>1, CountsRows, RowsCardinality
    <3>2. Cardinality(Minute(l)) <= Rpm[l] /\ Rpm[l] \in Nat
      BY <1>1, <2>2, QuotaAssumption DEF QuotaAssumption, Inv, Limits, WindowLimit
    <3>. QED
      BY <3>1, <3>2
  <2>. QED
    BY <2>2 DEF RateLimit
<1>. QED
  BY Invariant, <1>1, PTL

\* For any callers, estimates and bills, the tokens of a lane's minute stay
\* within TPM as far as they are sure: what complete and fail write between a
\* caller's SUM and its INSERT never makes room that is not there.
THEOREM TokenLimitHolds == Spec => []TokenLimit
BY Invariant, PTL DEF Inv, Limits

\* For any number of callers and any limits, a lane's rows stamped and checked
\* in one day are no more than RPD and, as far as they are sure, no more tokens
\* than the budget; and those stamped in a day that ended before the check, in
\* all lanes, are at most one per caller.  So a day whose transactions wait for
\* the advisory lock over midnight holds up to that many rows more than RPD.
THEOREM DayLimitHolds == Spec => []DayLimit
<1>1. ASSUME Inv PROVE DayLimit
  <2>1. ASSUME NEW c \in Time
        PROVE  Cardinality(Late(DayOf(c))) <= Cardinality(Task)
    <3>1. PICK d \in Nat : d = DayOf(c)
      BY DayTyped DEF Time
    <3>2. AtMostOnePerCaller(d)
      BY <1>1 DEF Inv, LateBounded
    <3>3. Open(d) \subseteq Task /\ Late(d) \subseteq RowId
      BY LateFinite DEF Open
    <3>4. /\ Cardinality(Late(d)) \in Nat /\ Cardinality(Open(d)) \in Nat
          /\ Cardinality(Task) \in Nat
      BY <3>3, LateFinite, RowsCardinality
    <3>. QED
      BY <3>1, <3>2, <3>4 DEF AtMostOnePerCaller
  <2>. QED
    BY <1>1, <2>1 DEF Inv, Limits, DayCounts, DayLimit
<1>. QED
  BY Invariant, <1>1, PTL

\* No row is ever deleted, and what a reservation was settled to is final: the
\* WHERE clause of complete, fail and release lets the first of them win,
\* whoever calls the others afterwards.
THEOREM SettlementFinal == Spec => SettlementIsFinal
<1>. DEFINE Final == \A i \in RowId : row[i] # Null =>
                       /\ row'[i] # Null
                       /\ row[i].status # "reserved" => row'[i] = row[i]
<1>1. ASSUME Inv, [Next]_vars PROVE Final
  <2>1. CASE \A i \in RowId : Kept(i)
    BY <2>1, NotNull DEF Kept
  <2>2. ASSUME NEW t \in Task, NEW i \in RowId, InsertAny(t, i) PROVE Final
    BY <1>1, <2>2, InsertAdds DEF Inv
  <2>. QED
    BY <1>1, <2>1, <2>2, TableStep DEF Inv
<1>. QED
  BY Invariant, <1>1, PTL DEF Spec, SettlementIsFinal
=============================================================================
