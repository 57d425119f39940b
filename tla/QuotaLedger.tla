---------------------------- MODULE QuotaLedger ----------------------------
(***************************************************************************)
(* The durable quota ledger of the LLM calls (classification/quota.py):    *)
(* coroutines reserve capacity on a lane before they call a provider, and  *)
(* settle the reservation afterwards.  The checks and the INSERT are one   *)
(* transaction under an advisory lock; a settlement is one UPDATE outside  *)
(* of that lock.  created_at is NOW(), the instant at which the            *)
(* transaction began, which is before it waits for the lock; the windows   *)
(* are computed from the clock read after it has the lock.                 *)
(*                                                                         *)
(* Abstractions: one clock for the application and the database (both run  *)
(* on one host); the price of a lane is folded into its budget, which is   *)
(* in tokens; how long a caller sleeps, for the spacing of its process or  *)
(* because a window is full, is left open: it tries at some later time.    *)
(***************************************************************************)
EXTENDS Naturals, FiniteSetsExt

CONSTANTS
  Task,         \* coroutines that call providers
  Lane,         \* simple, complex
  Rpm, Tpm, Rpd, Budget,  \* limits of each lane, 0 = not enforced
  Estimate,     \* token counts a caller may estimate
  Billed,       \* token counts it may be billed for
  Window,       \* 60 seconds
  Day,          \* length of a day
  MaxTx,        \* how long a reserving transaction may last
  MaxRows,      \* bound: rows of the ledger
  MaxClock,     \* bound: the clock
  Null

RowId  == 1..MaxRows
Time   == 0..MaxClock
Status == {"reserved", "completed", "failed", "released"}

\* A row of llm_request_ledger.  decided is not a column: it is the instant
\* the checks of the row were made for, kept to state the properties.
Row == [lane : Lane, created : Time, decided : Time, reserved : Estimate,
        actual : Billed \cup {Null}, status : Status]

VARIABLES
  clock,
  row,          \* the table: id -> row, or Null when not inserted
  lock,         \* holder of the advisory lock
  pc,           \* the await a caller has reached
  req,          \* a caller's arguments and the instants of its transaction
  held          \* the reservation a caller has yet to settle

vars == <<clock, row, lock, pc, req, held>>

PC == {"idle", "ready", "lock", "budget", "rpm", "tpm", "rpd", "insert",
       "held"}
InTx     == {"lock", "budget", "rpm", "tpm", "rpd", "insert"}
Checking == InTx \ {"lock"}

Request == [lane : Lane, est : Estimate,
            start : Time \cup {Null}, now : Time \cup {Null}]

ASSUME QuotaAssumption ==
  /\ Rpm \in [Lane -> Nat] /\ Tpm \in [Lane -> Nat]
  /\ Rpd \in [Lane -> Nat] /\ Budget \in [Lane -> Nat]
  /\ Estimate \subseteq Nat /\ Billed \subseteq Nat /\ IsFiniteSet(Task)
  /\ Window \in Nat /\ Day \in Nat \ {0} /\ MaxTx \in Nat
  /\ MaxRows \in Nat /\ MaxClock \in Nat
  /\ Null \notin Nat \cup Task \cup Row \cup Request

TypeOK ==
  /\ clock \in Time
  /\ row \in [RowId -> Row \cup {Null}]
  /\ lock \in Task \cup {Null}
  /\ pc \in [Task -> PC]
  /\ req \in [Task -> Request \cup {Null}]
  /\ held \in [Task -> RowId \cup {Null}]
  /\ \A t \in Task : /\ pc[t] = "held" <=> held[t] # Null
                     /\ pc[t] \in {"idle", "held"} <=> req[t] = Null

Init == /\ clock = 0
        /\ row = [i \in RowId |-> Null]
        /\ lock = Null
        /\ pc = [t \in Task |-> "idle"]
        /\ req = [t \in Task |-> Null]
        /\ held = [t \in Task |-> Null]

-----------------------------------------------------------------------------
(* The queries. *)

Active == {"reserved", "completed", "failed"}

Rows(P(_)) == {i \in RowId : row[i] # Null /\ P(row[i])}

\* created_at > now - 60s
Recent(l, now) ==
  Rows(LAMBDA r : r.lane = l /\ r.status \in Active /\ r.created + Window > now)

DayOf(time) == time \div Day

\* created_at in [day_start, next_day)
Today(l, now) ==
  Rows(LAMBDA r : /\ r.lane = l /\ r.status \in Active
                  /\ DayOf(r.created) = DayOf(now))

\* COALESCE(actual_tokens, reserved_tokens)
Charge(r) == IF r.actual = Null THEN r.reserved ELSE r.actual

Spent(ids) == SumFunction([i \in ids |-> Charge(row[i])])

-----------------------------------------------------------------------------
(* reserve *)

Goto(t, next) == pc' = [pc EXCEPT ![t] = next]

Reserve(t, l, est) ==
  /\ pc[t] = "idle"
  /\ req' = [req EXCEPT ![t] =
       [lane |-> l, est |-> est, start |-> Null, now |-> Null]]
  /\ Goto(t, "ready")
  /\ UNCHANGED <<clock, row, lock, held>>

\* A pooled connection and BEGIN: NOW() is fixed here.
Begin(t) ==
  /\ pc[t] = "ready"
  /\ req' = [req EXCEPT ![t].start = clock]
  /\ Goto(t, "lock")
  /\ UNCHANGED <<clock, row, lock, held>>

\* Mutant of Lock: the checks are not serialised.
LockFree(t) ==
  /\ pc[t] = "lock"
  /\ lock' = t
  /\ req' = [req EXCEPT ![t].now = clock]
  /\ Goto(t, "budget")
  /\ UNCHANGED <<clock, row, held>>

\* pg_advisory_xact_lock, then the clock.
Lock(t) ==
  /\ pc[t] = "lock"
  /\ lock = Null
  /\ lock' = t
  /\ req' = [req EXCEPT ![t].now = clock]
  /\ Goto(t, "budget")
  /\ UNCHANGED <<clock, row, held>>

\* The end of the transaction releases the lock.
Unlock(t) == lock' = IF lock = t THEN Null ELSE lock

\* Full for now: the sleep, and the loop starts over.
Retry(t) ==
  /\ Goto(t, "ready")
  /\ req' = [req EXCEPT ![t].start = Null, ![t].now = Null]

\* reserve raises.
Raise(t) == Goto(t, "idle") /\ req' = [req EXCEPT ![t] = Null]

\* A check passes on to the next one, or the transaction ends: with a wait
\* for the minute's window, with an exception for the day's.
Check(t, at, passes, next, otherwise) ==
  /\ pc[t] = at
  /\ IF passes THEN Goto(t, next) /\ UNCHANGED <<lock, req>>
               ELSE Unlock(t) /\ otherwise
  /\ UNCHANGED <<clock, row, held>>

\* Mutant of CheckBudget: only what was spent before counts.
CheckBudgetBehind(t) ==
  LET l == req[t].lane
  IN  Check(t, "budget",
            Budget[l] = 0 \/ Spent(Today(l, req[t].now)) <= Budget[l],
            "rpm", Raise(t))

CheckBudget(t) ==
  LET l == req[t].lane
  IN  Check(t, "budget",
            Budget[l] = 0 \/ Spent(Today(l, req[t].now)) + req[t].est <= Budget[l],
            "rpm", Raise(t))

\* Mutant of CheckRpm: > instead of >=.
CheckRpmOffByOne(t) ==
  LET l == req[t].lane
  IN  Check(t, "rpm", Rpm[l] = 0 \/ Cardinality(Recent(l, req[t].now)) <= Rpm[l],
            "tpm", Retry(t))

CheckRpm(t) ==
  LET l == req[t].lane
  IN  Check(t, "rpm", Rpm[l] = 0 \/ Cardinality(Recent(l, req[t].now)) < Rpm[l],
            "tpm", Retry(t))

\* Mutant of CheckTpm: the call's own estimate is forgotten.
CheckTpmBehind(t) ==
  LET l == req[t].lane
  IN  Check(t, "tpm", Tpm[l] = 0 \/ Spent(Recent(l, req[t].now)) <= Tpm[l],
            "rpd", Retry(t))

CheckTpm(t) ==
  LET l == req[t].lane
  IN  Check(t, "tpm",
            Tpm[l] = 0 \/ Spent(Recent(l, req[t].now)) + req[t].est <= Tpm[l],
            "rpd", Retry(t))

\* Mutant of CheckRpd: > instead of >=.
CheckRpdOffByOne(t) ==
  LET l == req[t].lane
  IN  Check(t, "rpd", Rpd[l] = 0 \/ Cardinality(Today(l, req[t].now)) <= Rpd[l],
            "insert", Raise(t))

CheckRpd(t) ==
  LET l == req[t].lane
  IN  Check(t, "rpd", Rpd[l] = 0 \/ Cardinality(Today(l, req[t].now)) < Rpd[l],
            "insert", Raise(t))

InsertRow(t, i) ==
  /\ row[i] = Null
  /\ \A j \in RowId : j < i => row[j] # Null
  /\ row' = [row EXCEPT ![i] =
       [lane |-> req[t].lane, created |-> req[t].start, decided |-> req[t].now,
        reserved |-> req[t].est, actual |-> Null, status |-> "reserved"]]

\* Mutant of Insert: the id is not handed to the caller.
InsertForgets(t) ==
  /\ pc[t] = "insert"
  /\ \E i \in RowId : InsertRow(t, i)
  /\ Unlock(t)
  /\ Goto(t, "held")
  /\ req' = [req EXCEPT ![t] = Null]
  /\ UNCHANGED <<clock, held>>

\* INSERT and COMMIT.
Insert(t) ==
  /\ pc[t] = "insert"
  /\ \E i \in RowId : InsertRow(t, i) /\ held' = [held EXCEPT ![t] = i]
  /\ Unlock(t)
  /\ Goto(t, "held")
  /\ req' = [req EXCEPT ![t] = Null]
  /\ UNCHANGED clock

\* The caller is cancelled, or loses its connection, after the COMMIT took
\* effect: the row is nobody's.
InsertLost(t) ==
  /\ pc[t] = "insert"
  /\ \E i \in RowId : InsertRow(t, i)
  /\ Unlock(t)
  /\ Raise(t)
  /\ UNCHANGED <<clock, held>>

\* Cancelled or failed before the COMMIT: nothing stays.
Rollback(t) ==
  /\ pc[t] \in InTx \cup {"ready"}
  /\ Unlock(t)
  /\ Raise(t)
  /\ UNCHANGED <<clock, row, held>>

-----------------------------------------------------------------------------
(* complete, fail, release: WHERE id = $1 AND status = 'reserved' *)

\* Mutant of Update: the WHERE clause names the id only.
UpdateAny(t, status, actual) ==
  row' = [row EXCEPT ![held[t]].status = status, ![held[t]].actual = actual]

Update(t, status, actual) ==
  IF row[held[t]].status = "reserved"
  THEN row' = [row EXCEPT ![held[t]].status = status,
                          ![held[t]].actual = actual]
  ELSE UNCHANGED row

Forget(t) == Goto(t, "idle") /\ held' = [held EXCEPT ![t] = Null]

\* The call returns, or raises all the same and the caller settles again.
Settle(t, status, actual) ==
  /\ pc[t] = "held"
  /\ Update(t, status, actual)
  /\ Forget(t) \/ UNCHANGED <<pc, held>>
  /\ UNCHANGED <<clock, lock, req>>

Complete(t) == \E n \in Billed : Settle(t, "completed", n)

\* No caller passes actual_tokens, which COALESCE would store.
Fail(t) == Settle(t, "failed", Null)

Release(t) == Settle(t, "released", Null)

\* The caller is killed, or no call of it reaches the database.
Abandon(t) ==
  /\ pc[t] = "held"
  /\ Forget(t)
  /\ UNCHANGED <<clock, row, lock, req>>

-----------------------------------------------------------------------------
\* The process restarts: nothing of its memory stays.
Restart ==
  /\ pc' = [t \in Task |-> "idle"]
  /\ lock' = Null
  /\ req' = [t \in Task |-> Null]
  /\ held' = [t \in Task |-> Null]
  /\ UNCHANGED <<clock, row>>

\* No transaction lasts longer than MaxTx.
Tick ==
  /\ clock < MaxClock
  /\ \A t \in Task : pc[t] \in InTx => clock < req[t].start + MaxTx
  /\ clock' = clock + 1
  /\ UNCHANGED <<row, lock, pc, req, held>>

Step(t) ==
  \/ \E l \in Lane, n \in Estimate : Reserve(t, l, n)
  \/ Begin(t) \/ Lock(t)
  \/ CheckBudget(t) \/ CheckRpm(t) \/ CheckTpm(t) \/ CheckRpd(t)
  \/ Insert(t) \/ InsertLost(t) \/ Rollback(t)
  \/ Complete(t) \/ Fail(t) \/ Release(t) \/ Abandon(t)

Next == (\E t \in Task : Step(t)) \/ Restart \/ Tick

Spec == Init /\ [][Next]_vars

-----------------------------------------------------------------------------
(* Properties. *)

Counts(r) == r.status # "released"

\* What a call surely costs: its estimate, or less when it was billed less.
SureCharge(i) == IF row[i].actual # Null /\ row[i].actual < row[i].reserved
                 THEN row[i].actual ELSE row[i].reserved

Sure(ids) == SumFunction([i \in ids |-> SureCharge(i)])

\* The rows of a lane whose minute has not passed, by created_at.
Minute(l) ==
  Rows(LAMBDA r : r.lane = l /\ Counts(r) /\ r.created + Window > clock)

\* However the callers interleave, no more than RPM reservations of a lane
\* are in the last minute (the COUNT and the INSERT of _try_reserve_once).
WindowLimit ==
  \A l \in Lane : Rpm[l] # 0 => Cardinality(Minute(l)) <= Rpm[l]

\* The rate a provider sees is that of the decisions, and not of created_at,
\* which lies before the wait for the lock: no window shorter than the minute
\* by the longest transaction holds more than RPM granted requests.
RateLimit ==
  \A l \in Lane : Rpm[l] # 0 =>
    Cardinality(Rows(LAMBDA r : /\ r.lane = l /\ Counts(r)
                                /\ r.decided + Window > clock + MaxTx)) <= Rpm[l]

\* The tokens of the minute stay within TPM, though complete and fail rewrite
\* them between the SUM and the INSERT; only what a call is billed above its
\* own estimate can exceed it.
TokenLimit == \A l \in Lane : Tpm[l] # 0 => Sure(Minute(l)) <= Tpm[l]

\* Stamped and checked in one day.
DayRows(l, d) ==
  Rows(LAMBDA r : /\ r.lane = l /\ Counts(r)
                  /\ DayOf(r.created) = d /\ DayOf(r.decided) = d)

\* Stamped in a day and checked against another one.
Late(d) == Rows(LAMBDA r : DayOf(r.created) = d /\ DayOf(r.decided) # d)

\* What a day's rows can come to.  A transaction that waits for the lock over
\* midnight is checked against the new day and stored in the old one, which
\* may be full: such rows come on top of RPD and of the budget.  But there is
\* at most one per caller in a day, however many callers wait and retry.
DayLimit ==
  \A d \in {DayOf(c) : c \in Time} :
    /\ \A l \in Lane : /\ Rpd[l] # 0 => Cardinality(DayRows(l, d)) <= Rpd[l]
                       /\ Budget[l] # 0 => Sure(DayRows(l, d)) <= Budget[l]
    /\ Cardinality(Late(d)) <= Cardinality(Task)

\* What a reservation was settled to is final: a complete that takes effect
\* and raises, followed by the caller's fail or release, is counted once and
\* with the tokens of the first.
SettlementIsFinal ==
  [][\A i \in RowId : row[i] # Null =>
       /\ row'[i] # Null
       /\ row[i].status # "reserved" => row'[i] = row[i]]_vars
=============================================================================
