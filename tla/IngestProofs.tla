---------------------------- MODULE IngestProofs ----------------------------
(***************************************************************************)
(* Proofs about Ingest, for every number of entries, articles, workers,    *)
(* consumers, crashes and lost sessions.                                   *)
(***************************************************************************)
EXTENDS Ingest, TLAPS

USE IngestAssumption

-----------------------------------------------------------------------------
(* Type correctness *)

LEMMA InitType == Init => TypeOK
BY DEF Init, TypeOK, Task, MainPC, ConsumerPC, OutboxPC, RowStatus

\* The UPDATE of a claim writes statuses, and sends its task onward or back to
\* its caller.
LEMMA ClaimRowType ==
  ASSUME TypeOK, NEW t \in Task, NEW u \in Url, NEW next, ClaimRow(t, u, next)
  PROVE  /\ status' \in [Url -> RowStatus]
         /\ stale' \in SUBSET Url
         /\ job' \in [Task -> Entry \cup {None}]
         /\ \/ pc' = [pc EXCEPT ![t] = next]
            \/ pc' = [pc EXCEPT ![t] = Return(t)]
<1>1. CASE status[u] \in {"pending", "failed", "writing"}
  BY <1>1 DEF ClaimRow, SetRow, TypeOK, RowStatus
<1>2. CASE status[u] \notin {"pending", "failed", "writing"}
  BY <1>2 DEF ClaimRow, TypeOK
<1>3. QED BY <1>1, <1>2

\* The updates of the outbox and the commit, whatever the task does next.
LEMMA ReconcileRowType ==
  ASSUME TypeOK, NEW w \in Worker, NEW next \in MainPC, ReconcileRowTo(w, next)
  PROVE  TypeOK'
<1>1. PICK u \in todoRows[w] :
             /\ todoRows' = [todoRows EXCEPT ![w] = @ \ {u}]
             /\ ClaimRow(w, u, next)
  BY DEF ReconcileRowTo
<1>2. u \in Url /\ w \in Task
  BY DEF TypeOK, Task
<1>3. /\ status' \in [Url -> RowStatus]
      /\ stale' \in SUBSET Url
      /\ job' \in [Task -> Entry \cup {None}]
      /\ \/ pc' = [pc EXCEPT ![w] = next]
         \/ pc' = [pc EXCEPT ![w] = "reconcile"]
  BY <1>1, <1>2, ClaimRowType DEF Return
<1>4. pc' \in [Task -> MainPC \cup ConsumerPC] /\ pc'[w] \in MainPC
  BY <1>2, <1>3 DEF TypeOK, MainPC
<1>5. todoRows' \in [Worker -> SUBSET Url]
  BY <1>1 DEF TypeOK
<1>6. QED
  BY SMTT(30), <1>3, <1>4, <1>5 DEF ReconcileRowTo, TypeOK, Task, miniflux, files, locks,
                          bounds

LEMMA ClaimType ==
  ASSUME TypeOK, NEW c \in Consumer, NEW next \in ConsumerPC,
         Target(c) \in Url, ClaimTo(c, next)
  PROVE  TypeOK'
<1>1. ClaimRow(c, Target(c), next) /\ c \in Task /\ c \notin Worker
  BY DEF ClaimTo, Task
<1>2. /\ status' \in [Url -> RowStatus]
      /\ stale' \in SUBSET Url
      /\ job' \in [Task -> Entry \cup {None}]
      /\ \/ pc' = [pc EXCEPT ![c] = next]
         \/ pc' = [pc EXCEPT ![c] = "release"]
  BY <1>1, ClaimRowType DEF Return
<1>3. QED
  BY SMTT(30), <1>2 DEF ClaimTo, TypeOK, Task, ConsumerPC, miniflux, files, locks, cycle,
              bounds

LEMMA CommitType ==
  ASSUME TypeOK, NEW c \in Consumer, NEW next \in ConsumerPC,
         Target(c) \in Url, job[c] \in Entry, CommitTo(c, next)
  PROVE  TypeOK'
BY DEF CommitTo, TypeOK, Task, RowStatus, Goto, SetRow, miniflux, files, locks,
       cycle, bounds

LEMMA MarkRowType ==
  ASSUME TypeOK, NEW t \in Task, Target(t) \in Url,
         NEW next \in (IF t \in Worker THEN MainPC ELSE ConsumerPC),
         MarkFailedTo(t, next) \/ MarkCompletedTo(t, next)
  PROVE  TypeOK'
<1> USE DEF TypeOK, Task, RowStatus, Goto, SetRow, miniflux, files, locks,
            cycle, bounds
<1>1. CASE MarkFailedTo(t, next)    BY <1>1 DEF MarkFailedTo
<1>2. CASE MarkCompletedTo(t, next) BY <1>2 DEF MarkCompletedTo
<1>3. QED BY <1>1, <1>2

LEMMA MainStepType == ASSUME TypeOK, NEW w \in Worker, MainStep(w) PROVE TypeOK'
<1> USE DEF TypeOK, Task, MainPC, ConsumerPC, OutboxPC, RowStatus, Goto,
            miniflux, outbox, files, locks, cycle, bounds
<1>1. CASE Boot(w)         BY <1>1 DEF Boot
<1>2. CASE Elect(w)        BY <1>2 DEF Elect
<1>3. CASE ResetStale(w)   BY <1>3 DEF ResetStale, ResetStaleTo
<1>4. CASE SelectRows(w)   BY <1>4 DEF SelectRows
<1>5. CASE SelectMarks(w)  BY <1>5 DEF SelectMarks
<1>6. CASE ReconcileRow(w) BY <1>6, ReconcileRowType DEF ReconcileRow
<1>7. CASE RetryMark(w)    BY <1>7 DEF RetryMark
<1>8. CASE Reconciled(w)   BY <1>8 DEF Reconciled
<1>9. CASE Fetch(w)        BY <1>9 DEF Fetch, Hand, Unread
<1>10. CASE FetchEmpty(w)  BY <1>10 DEF FetchEmpty, SkipFetch
<1>11. CASE Join(w)        BY <1>11 DEF Join
<1>12. CASE Wake(w)        BY <1>12 DEF Wake
<1>13. QED
  BY <1>1, <1>2, <1>3, <1>4, <1>5, <1>6, <1>7, <1>8, <1>9, <1>10, <1>11,
     <1>12 DEF MainStep

\* A step of process_outbox_row needs the entry of its task to know the row.
LEMMA OutboxStepType ==
  ASSUME TypeOK, NEW t \in Task, Target(t) \in Url, OutboxStep(t)
  PROVE  TypeOK'
<1> USE DEF TypeOK, Task, MainPC, ConsumerPC, OutboxPC, RowStatus, Goto,
            SetRow, Return, miniflux, outbox, files, locks, cycle, bounds
<1>1. CASE WriteVault(t)    BY <1>1 DEF WriteVault
<1>2. CASE MarkFailed(t)
  BY <1>2, MarkRowType DEF MarkFailed
<1>3. CASE MarkCompleted(t)
  BY <1>3, MarkRowType DEF MarkCompleted
<1>4. CASE MarkRead(t)      BY <1>4 DEF MarkRead
<1>5. CASE Stamp(t)         BY <1>5 DEF Stamp
<1>6. QED BY <1>1, <1>2, <1>3, <1>4, <1>5 DEF OutboxStep

LEMMA EntryStepType ==
  ASSUME TypeOK, NEW c \in Consumer, EntryStep(c),
         pc[c] # "idle" => Target(c) \in Url /\ job[c] \in Entry
  PROVE  TypeOK'
<1> USE DEF TypeOK, Task, MainPC, ConsumerPC, OutboxPC, RowStatus, Goto,
            SetRow, Return, miniflux, outbox, files, locks, cycle, bounds
<1>1. CASE Take(c)            BY <1>1 DEF Take
<1>2. CASE LockUrl(c)         BY <1>2 DEF LockUrl
<1>3. CASE Dedup(c)           BY <1>3 DEF Dedup
<1>4. CASE Inspect(c)         BY <1>4 DEF Inspect
<1>5. CASE DupMarkRead(c)     BY <1>5 DEF DupMarkRead
<1>6. CASE Classify(c)        BY SMTT(30), <1>6 DEF Classify
<1>7. CASE Commit(c)
  BY <1>7, CommitType DEF Commit, CommitTo
<1>8. CASE SelectOutboxRow(c) BY <1>8 DEF SelectOutboxRow
<1>9. CASE Claim(c)
  BY <1>9, ClaimType DEF Claim, ClaimTo
<1>10. CASE Release(c)        BY <1>10 DEF Release
<1>11. QED
  BY <1>1, <1>2, <1>3, <1>4, <1>5, <1>6, <1>7, <1>8, <1>9, <1>10
  DEF EntryStep

LEMMA LateDbErrorType ==
  ASSUME TypeOK, JobInv, NEW t \in Task, LateDbError(t)
  PROVE  TypeOK'
<1> USE DEF Raise, Task, MainPC, ConsumerPC, OutboxPC
<1>1. CASE t \in Worker /\ ResetStaleTo(t, Raise(t))
  BY <1>1 DEF ResetStaleTo, TypeOK, RowStatus, Goto, miniflux, files, locks,
              cycle, bounds
<1>2. CASE t \in Worker /\ ReconcileRowTo(t, Raise(t))
  BY <1>2, ReconcileRowType
<1>3. Busy(t) => job[t] \in Entry /\ Target(t) \in Url
  BY DEF JobInv, Target
<1>4. CASE t \in Consumer /\ CommitTo(t, Raise(t))
  BY <1>3, <1>4, CommitType DEF CommitTo, Goto, Busy
<1>5. CASE t \in Consumer /\ ClaimTo(t, Raise(t))
  BY <1>3, <1>5, ClaimType DEF ClaimTo, Busy
<1>6. CASE MarkFailedTo(t, Raise(t)) \/ MarkCompletedTo(t, Raise(t))
  <2>1. Target(t) \in Url
    BY <1>3, <1>6 DEF MarkFailedTo, MarkCompletedTo, Goto, Busy
  <2>2. QED BY <1>6, <2>1, MarkRowType
<1>7. QED BY <1>1, <1>2, <1>4, <1>5, <1>6 DEF LateDbError

LEMMA FailureType ==
  ASSUME TypeOK, JobInv, NEW t \in Task, Failure(t)
  PROVE  TypeOK'
<1> USE DEF TypeOK, Task, MainPC, ConsumerPC, OutboxPC, RowStatus, Goto,
            Return, miniflux, outbox, files, locks, cycle, bounds
<1>1. CASE t \in Worker /\ FetchCut(t)
  BY <1>1 DEF FetchCut, Hand, Unread
<1>2. CASE t \in Worker /\ FetchFails(t)
  BY <1>2 DEF FetchFails, SkipFetch
<1>3. CASE t \in Consumer /\ LockFails(t)
  BY <1>3 DEF LockFails
<1>4. CASE t \in Consumer /\ ClassifyFails(t)
  BY <1>4 DEF ClassifyFails
<1>5. CASE t \in Consumer /\ DupMarkReadFails(t)
  BY <1>5 DEF DupMarkReadFails
<1>6. CASE WriteFails(t)        BY <1>6 DEF WriteFails
<1>7. CASE MarkReadSwallowed(t) BY <1>7 DEF MarkReadSwallowed
<1>8. CASE MarkReadRaises(t)    BY <1>8 DEF MarkReadRaises
<1>9. CASE DbError(t)           BY SMTT(30), <1>9 DEF DbError, Raise
<1> HIDE DEF TypeOK, Task, MainPC, ConsumerPC, OutboxPC, RowStatus, Goto,
             Return, miniflux, outbox, files, locks, cycle, bounds
<1>10. CASE LateDbError(t)      BY <1>10, LateDbErrorType
<1>11. QED
  BY <1>1, <1>2, <1>3, <1>4, <1>5, <1>6, <1>7, <1>8, <1>9, <1>10 DEF Failure

LEMMA EnvironmentType == ASSUME TypeOK, JobInv, Environment PROVE TypeOK'
<1> USE DEF TypeOK, Task, MainPC, ConsumerPC, OutboxPC, RowStatus,
            miniflux, outbox, files, locks, cycle, bounds
<1>1. ASSUME NEW w \in Worker, DropLeadership(w) PROVE TypeOK'
  BY <1>1 DEF DropLeadership
<1>2. ASSUME NEW c \in Consumer, DropUrlLock(c) PROVE TypeOK'
  BY <1>2 DEF DropUrlLock
<1>3. ASSUME NEW e \in Entry, Arrive(e) PROVE TypeOK'
  BY <1>3 DEF Arrive
<1>4. ASSUME NEW e \in Entry, Expire(e) PROVE TypeOK'
  BY <1>4 DEF Expire
<1>5. ASSUME NEW u \in Url, ZombieWrite(u) PROVE TypeOK'
  BY <1>5 DEF ZombieWrite
<1>6. ASSUME NEW u \in Url, GrowStale(u) PROVE TypeOK'
  BY <1>6 DEF GrowStale
<1>7. ASSUME NEW w \in Worker, Stop(w) PROVE TypeOK'
  <2>1. \A t \in Task : pc[t] = "write" => Target(t) \in Url
    BY DEF JobInv, Busy, Target
  <2>2. TasksOf(w) \subseteq Task
    BY DEF TasksOf, ConsumersOf
  <2>3. zombie' \in SUBSET Url
    BY <1>7, <2>1, <2>2 DEF Stop
  <2>4. QED BY <1>7, <2>3 DEF Stop, TasksOf, ConsumersOf
<1>8. QED
  BY <1>1, <1>2, <1>3, <1>4, <1>5, <1>6, <1>7 DEF Environment

-----------------------------------------------------------------------------
(* The inductive invariant *)

LEMMA InitInv == Init => IInv
<1> SUFFICES ASSUME Init PROVE IInv
  OBVIOUS
<1>1. TypeOK
  BY InitType
<1>2. JobInv /\ RowInv /\ FileInv /\ DurableInv
  BY DEF Init, JobInv, Busy, RowInv, FileInv, DurableInv, OutboxPC, Task
<1>3. ClassifiedIsNew /\ CompletedIsDurable /\ ReadIsDurable
  BY DEF Init, ClassifiedIsNew, CompletedIsDurable, ReadIsDurable, Task
<1>4. QED BY <1>1, <1>2, <1>3 DEF IInv

\* The reset of stale rows touches rows in writing only.
LEMMA ResetKeeps ==
  ASSUME NEW w \in Worker, NEW next, ResetStaleTo(w, next), NEW u \in Url
  PROVE  /\ status'[u] # "none" => status[u] # "none"
         /\ status[u] # "none" => status'[u] # "none"
         /\ status'[u] = "completed" => status[u] = "completed"
BY DEF ResetStaleTo

\* Conjuncts that survive a step that creates or completes no row.
LEMMA CompletedFrame ==
  ASSUME CompletedIsDurable, UNCHANGED <<article, vault>>,
         \A u \in Url : status'[u] = "completed" => status[u] = "completed"
  PROVE  CompletedIsDurable'
BY DEF CompletedIsDurable

LEMMA RowFrame ==
  ASSUME RowInv, TypeOK, UNCHANGED <<article, entryId, todoRows, todoMarks>>,
         \A u \in Url :
           /\ status'[u] # "none" => status[u] # "none"
           /\ status[u] # "none" => status'[u] # "none",
         \A t \in Task :
           pc'[t] \in OutboxPC \cup {"select", "claim"} =>
             /\ Target(t)' \in Url
             /\ status[Target(t)'] # "none"
  PROVE  RowInv'
<1>1. \A w \in Worker : \A u \in todoRows[w] \cup todoMarks[w] : u \in Url
  BY DEF TypeOK
<1>2. QED BY <1>1 DEF RowInv

\* The reset, the claims, the commit and the last UPDATEs keep the invariant
\* whatever the task does next: one lemma serves the call that returns and
\* the one that raises after it took effect.
LEMMA ResetInv ==
  ASSUME IInv, NEW w \in Worker, NEW next \in {"selectRows", "sleep"},
         ResetStaleTo(w, next)
  PROVE  IInv'
<1> USE DEF IInv, TypeOK, JobInv, Busy, RowInv, FileInv, DurableInv,
      ClassifiedIsNew, ReadIsDurable, Target, HoldsLock,
      Task, OutboxPC
<1>1. \A u \in Url :
        /\ status'[u] # "none" => status[u] # "none"
        /\ status[u] # "none" => status'[u] # "none"
        /\ status'[u] = "completed" => status[u] = "completed"
  BY ResetKeeps
<1>2. /\ pc' = [pc EXCEPT ![w] = next]
      /\ UNCHANGED <<feed, article, entryId, vault, zombie, urlLock, job,
                     todoRows, todoMarks>>
  BY DEF ResetStaleTo, Goto, miniflux, files, locks, cycle
<1>3. TypeOK'
  BY DEF ResetStaleTo, Goto, MainPC, ConsumerPC, RowStatus, miniflux, files,
         locks, cycle, bounds
<1>4. JobInv'
  BY <1>2
<1>5. RowInv'
  <2>1. \A t \in Task : pc'[t] \in OutboxPC \cup {"select", "claim"}
                          => pc[t] = pc'[t] /\ Busy(t)
    BY <1>2 DEF MainPC
  <2>2. \A t \in Task : pc'[t] \in OutboxPC \cup {"select", "claim"}
                          => Target(t) \in Url /\ status[Target(t)] # "none"
    BY <2>1
  <2>3. QED BY <1>1, <1>2, <2>2, RowFrame
<1>6. FileInv' /\ DurableInv' /\ ClassifiedIsNew'
  BY <1>2
<1>7. CompletedIsDurable'
  BY <1>1, <1>2, CompletedFrame
<1>8. ReadIsDurable'
  BY <1>2
<1>9. QED BY <1>3, <1>4, <1>5, <1>6, <1>7, <1>8

LEMMA ReconcileRowInv ==
  ASSUME IInv, NEW w \in Worker, NEW next \in {"write", "sleep"},
         ReconcileRowTo(w, next)
  PROVE  IInv'
<1>1. TypeOK'
  BY ReconcileRowType DEF IInv, MainPC, OutboxPC
<1> USE <1>1 DEF IInv, TypeOK, JobInv, Busy, RowInv, FileInv, DurableInv,
      ClassifiedIsNew, CompletedIsDurable, ReadIsDurable, Target, HoldsLock,
      Task, OutboxPC, RowStatus, miniflux, files, locks
<1>2. PICK u \in todoRows[w] :
             /\ todoRows' = [todoRows EXCEPT ![w] = @ \ {u}]
             /\ ClaimRow(w, u, next)
  BY DEF ReconcileRowTo
<1>3. UNCHANGED <<feed, article, entryId, vault, zombie, urlLock, todoMarks>>
  BY DEF ReconcileRowTo
<1>4. u \in Url /\ status[u] # "none"
  BY <1>2
<1>5. CASE status[u] \in {"pending", "failed", "writing"}
  <2>1. /\ status' = [status EXCEPT ![u] = "writing"]
        /\ job' = [job EXCEPT ![w] = entryId[u]]
        /\ pc' = [pc EXCEPT ![w] = next]
    BY <1>2, <1>5 DEF ClaimRow, SetRow
  <2>2. JobInv'
    BY <1>4, <2>1
  <2>3. RowInv'
    BY <1>2, <1>3, <1>4, <2>1
  <2>4. FileInv' /\ DurableInv' /\ ClassifiedIsNew'
    BY <1>3, <2>1
  <2>5. CompletedIsDurable' /\ ReadIsDurable'
    BY <1>3, <2>1
  <2>6. QED BY <2>2, <2>3, <2>4, <2>5
<1>6. CASE status[u] \notin {"pending", "failed", "writing"}
  <2>1. UNCHANGED <<status, job>> /\ pc' = [pc EXCEPT ![w] = "reconcile"]
    BY <1>2, <1>6 DEF ClaimRow, Return
  <2>2. JobInv' /\ RowInv'
    BY <1>2, <1>3, <2>1
  <2>3. FileInv' /\ DurableInv' /\ ClassifiedIsNew'
    BY <1>3, <2>1
  <2>4. CompletedIsDurable' /\ ReadIsDurable'
    BY <1>3, <2>1
  <2>5. QED BY <2>2, <2>3, <2>4
<1>7. QED BY <1>5, <1>6

LEMMA ClaimInv ==
  ASSUME IInv, NEW c \in Consumer, NEW next \in {"write", "release"},
         ClaimTo(c, next)
  PROVE  IInv'
<1>1. /\ pc[c] = "claim"
      /\ UNCHANGED <<feed, article, entryId, vault, zombie, urlLock,
                     todoRows, todoMarks>>
  BY DEF ClaimTo, miniflux, files, locks, cycle
<1>2. Target(c) \in Url /\ status[Target(c)] # "none"
  BY <1>1 DEF IInv, JobInv, Busy, RowInv, Target, Task
<1>3. TypeOK'
  BY <1>2, ClaimType DEF IInv, ConsumerPC, OutboxPC
<1> USE <1>3 DEF IInv, TypeOK, JobInv, Busy, RowInv, FileInv, DurableInv,
      ClassifiedIsNew, CompletedIsDurable, ReadIsDurable, Target, HoldsLock,
      Task, OutboxPC, RowStatus
<1>4. CASE status[Target(c)] \in {"pending", "failed", "writing"}
  <2>1. /\ status' = [status EXCEPT ![Target(c)] = "writing"]
        /\ job' = [job EXCEPT ![c] = entryId[Target(c)]]
        /\ pc' = [pc EXCEPT ![c] = next]
    BY <1>4 DEF ClaimTo, ClaimRow, SetRow
  <2>2. JobInv'
    BY <1>2, <2>1
  <2>3. RowInv'
    BY <1>1, <1>2, <2>1
  <2>4. FileInv' /\ DurableInv' /\ ClassifiedIsNew'
    BY <1>1, <2>1
  <2>5. CompletedIsDurable' /\ ReadIsDurable'
    BY <1>1, <2>1
  <2>6. QED BY <2>2, <2>3, <2>4, <2>5
<1>5. CASE status[Target(c)] \notin {"pending", "failed", "writing"}
  <2>1. UNCHANGED <<status, job>> /\ pc' = [pc EXCEPT ![c] = "release"]
    BY <1>5 DEF ClaimTo, ClaimRow, Return
  <2>2. JobInv' /\ RowInv'
    BY <1>1, <2>1
  <2>3. FileInv' /\ DurableInv' /\ ClassifiedIsNew'
    BY <1>1, <2>1
  <2>4. CompletedIsDurable' /\ ReadIsDurable'
    BY <1>1, <2>1
  <2>5. QED BY <2>2, <2>3, <2>4
<1>6. QED BY <1>4, <1>5

LEMMA CommitInv ==
  ASSUME IInv, NEW c \in Consumer, NEW next \in {"select", "release"},
         CommitTo(c, next)
  PROVE  IInv'
<1>1. Target(c) \in Url /\ job[c] \in Entry
  BY DEF CommitTo, Goto, IInv, JobInv, Busy, Target, Task
<1>2. TypeOK'
  BY <1>1, CommitType DEF IInv, ConsumerPC
<1> USE DEF IInv, TypeOK, JobInv, Busy, RowInv, FileInv, DurableInv,
      ClassifiedIsNew, CompletedIsDurable, ReadIsDurable, Target, HoldsLock,
      Task, OutboxPC, RowStatus, Goto, SetRow, CommitTo,
      miniflux, outbox, files, locks, cycle, bounds
<1>3. JobInv'
  BY <1>1
<1>4. RowInv'
  BY <1>1
<1>5. FileInv' /\ DurableInv'
  BY <1>1
<1>6. ClassifiedIsNew'
  BY <1>1
<1>7. CompletedIsDurable' /\ ReadIsDurable'
  BY <1>1
<1>8. QED BY <1>2, <1>3, <1>4, <1>5, <1>6, <1>7

LEMMA MarkRowInv ==
  ASSUME IInv, NEW t \in Task,
         \/ MarkFailedTo(t, Return(t)) \/ MarkFailedTo(t, Raise(t))
         \/ MarkCompletedTo(t, "mark") \/ MarkCompletedTo(t, Raise(t))
  PROVE  IInv'
<1> USE DEF OutboxPC
<1>1. pc[t] \in OutboxPC
  BY DEF MarkFailedTo, MarkCompletedTo, Goto
<1>2. job[t] \in Entry /\ Target(t) \in Url /\ status[Target(t)] # "none"
  BY <1>1 DEF IInv, JobInv, Busy, RowInv, Target
<1>3. TypeOK'
  <2>1. /\ Return(t) \in (IF t \in Worker THEN MainPC ELSE ConsumerPC)
        /\ Raise(t) \in (IF t \in Worker THEN MainPC ELSE ConsumerPC)
        /\ "mark" \in (IF t \in Worker THEN MainPC ELSE ConsumerPC)
    BY DEF Return, Raise, MainPC, ConsumerPC
  <2>2. QED BY <1>2, <2>1, MarkRowType DEF IInv
<1> USE <1>2, <1>3 DEF IInv, TypeOK, JobInv, Busy, RowInv, FileInv, DurableInv,
      ClassifiedIsNew, CompletedIsDurable, ReadIsDurable, Target, HoldsLock,
      Task, MainPC, ConsumerPC, RowStatus, Goto, SetRow, Return, Raise,
      miniflux, outbox, files, locks, cycle, bounds
<1>4. CASE MarkFailedTo(t, Return(t))   BY <1>4 DEF MarkFailedTo
<1>5. CASE MarkFailedTo(t, Raise(t))    BY <1>5 DEF MarkFailedTo
<1>6. CASE MarkCompletedTo(t, "mark")   BY <1>6 DEF MarkCompletedTo
<1>7. CASE MarkCompletedTo(t, Raise(t)) BY SMTT(30), <1>7 DEF MarkCompletedTo
<1>8. QED BY <1>4, <1>5, <1>6, <1>7

LEMMA MainStepInv ==
  ASSUME IInv, NEW w \in Worker, MainStep(w)
  PROVE  IInv'
<1>1. TypeOK'
  BY MainStepType DEF IInv
<1> USE <1>1 DEF IInv, TypeOK, JobInv, Busy, RowInv, FileInv, DurableInv,
      ClassifiedIsNew, CompletedIsDurable, ReadIsDurable, Target, HoldsLock,
      Task, MainPC, ConsumerPC, OutboxPC, RowStatus, Goto,
      miniflux, outbox, files, locks, cycle, bounds
<1>2. CASE Boot(w)         BY <1>2 DEF Boot
<1>3. CASE Elect(w)        BY <1>3 DEF Elect
<1>4. CASE ResetStale(w)   BY <1>4, ResetInv DEF ResetStale
<1>5. CASE SelectRows(w)   BY <1>5 DEF SelectRows
<1>6. CASE SelectMarks(w)  BY <1>6 DEF SelectMarks
<1>7. CASE ReconcileRow(w) BY <1>7, ReconcileRowInv DEF ReconcileRow
<1>8. CASE RetryMark(w)    BY <1>8 DEF RetryMark
<1>9. CASE Reconciled(w)   BY <1>9 DEF Reconciled
<1>10. CASE Fetch(w)       BY <1>10 DEF Fetch, Hand, Unread
<1>11. CASE FetchEmpty(w)  BY <1>11 DEF FetchEmpty, SkipFetch
<1>12. CASE Join(w)        BY <1>12 DEF Join
<1>13. CASE Wake(w)        BY <1>13 DEF Wake
<1>14. QED
  BY <1>2, <1>3, <1>4, <1>5, <1>6, <1>7, <1>8, <1>9, <1>10, <1>11, <1>12,
     <1>13 DEF MainStep

LEMMA OutboxStepInv ==
  ASSUME IInv, NEW t \in Task, OutboxStep(t)
  PROVE  IInv'
<1> USE DEF OutboxPC
<1>1. pc[t] \in OutboxPC
  BY DEF OutboxStep, WriteVault, MarkFailed, MarkFailedTo, MarkCompleted,
         MarkCompletedTo, MarkRead, Stamp, Goto
<1>2. job[t] \in Entry /\ Target(t) \in Url /\ status[Target(t)] # "none"
  BY <1>1 DEF IInv, JobInv, Busy, RowInv, Target
<1>3. TypeOK'
  BY <1>2, OutboxStepType DEF IInv
<1> USE <1>2, <1>3 DEF IInv, TypeOK, JobInv, Busy, RowInv, FileInv, DurableInv,
      ClassifiedIsNew, CompletedIsDurable, ReadIsDurable, Target, HoldsLock,
      Task, MainPC, ConsumerPC, RowStatus, Goto, SetRow, Return,
      miniflux, outbox, files, locks, cycle, bounds
<1>4. CASE WriteVault(t)    BY <1>4 DEF WriteVault
<1>5. CASE MarkFailed(t)
  BY <1>5, MarkRowInv DEF MarkFailed
<1>6. CASE MarkCompleted(t)
  BY <1>6, MarkRowInv DEF MarkCompleted
<1>7. CASE MarkRead(t)      BY <1>7 DEF MarkRead
<1>8. CASE Stamp(t)         BY <1>8 DEF Stamp
<1>9. QED BY <1>4, <1>5, <1>6, <1>7, <1>8 DEF OutboxStep
LEMMA EntryStepInv ==
  ASSUME IInv, NEW c \in Consumer, EntryStep(c)
  PROVE  IInv'
<1>1. pc[c] # "idle" => Target(c) \in Url /\ job[c] \in Entry
  BY DEF IInv, JobInv, Busy, Target, Task
<1>2. TypeOK'
  BY <1>1, EntryStepType DEF IInv
<1> USE <1>1, <1>2 DEF IInv, TypeOK, JobInv, Busy, RowInv, FileInv, DurableInv,
      ClassifiedIsNew, CompletedIsDurable, ReadIsDurable, Target, HoldsLock,
      Task, MainPC, ConsumerPC, OutboxPC, RowStatus, Goto, SetRow,
      miniflux, outbox, files, locks, cycle, bounds
<1>3. CASE Take(c)            BY <1>3 DEF Take
<1>4. CASE LockUrl(c)         BY <1>4 DEF LockUrl
<1>5. CASE Dedup(c)           BY <1>5 DEF Dedup
<1>6. CASE Inspect(c)         BY <1>6 DEF Inspect
<1>7. CASE DupMarkRead(c)     BY <1>7 DEF DupMarkRead
<1>8. CASE Classify(c)        BY <1>8 DEF Classify
<1>9. CASE Commit(c)          BY <1>9, CommitInv DEF Commit
<1>10. CASE SelectOutboxRow(c) BY <1>10 DEF SelectOutboxRow
<1>11. CASE Claim(c)          BY <1>11, ClaimInv DEF Claim
<1>12. CASE Release(c)        BY <1>12 DEF Release
<1>13. QED
  BY <1>3, <1>4, <1>5, <1>6, <1>7, <1>8, <1>9, <1>10, <1>11, <1>12
  DEF EntryStep

LEMMA FailureInv ==
  ASSUME IInv, NEW t \in Task, Failure(t)
  PROVE  IInv'
<1>1. TypeOK'
  BY FailureType DEF IInv
<1> USE <1>1 DEF IInv, TypeOK, JobInv, Busy, RowInv, FileInv, DurableInv,
      ClassifiedIsNew, CompletedIsDurable, ReadIsDurable, Target, HoldsLock,
      Task, MainPC, ConsumerPC, OutboxPC, RowStatus, Goto, Return,
      miniflux, outbox, files, locks, cycle, bounds
<1>2. CASE t \in Worker /\ FetchCut(t)
  BY <1>2 DEF FetchCut, Hand, Unread
<1>3. CASE t \in Worker /\ FetchFails(t)
  BY <1>3 DEF FetchFails, SkipFetch
<1>4. CASE t \in Consumer /\ LockFails(t)
  BY <1>4 DEF LockFails
<1>5. CASE t \in Consumer /\ ClassifyFails(t)
  BY <1>5 DEF ClassifyFails
<1>6. CASE t \in Consumer /\ DupMarkReadFails(t)
  BY <1>6 DEF DupMarkReadFails
<1>7. CASE WriteFails(t)        BY <1>7 DEF WriteFails
<1>8. CASE MarkReadSwallowed(t) BY <1>8 DEF MarkReadSwallowed
<1>9. CASE MarkReadRaises(t)    BY <1>9 DEF MarkReadRaises
<1>10. CASE DbError(t)
  <2>1. UNCHANGED <<feed, article, status, entryId, vault, zombie, urlLock,
                    job>>
    BY <1>10 DEF DbError
  <2>2. \E p \in {"release", "sleep", "reconcile"} : pc' = [pc EXCEPT ![t] = p]
    BY <1>10 DEF DbError, Raise
  <2>3. \A w \in Worker : /\ todoRows'[w] \subseteq todoRows[w]
                          /\ todoMarks'[w] \subseteq todoMarks[w]
    BY <1>10 DEF DbError
  <2>4. JobInv'
    BY <1>10, <2>1 DEF DbError, Raise
  <2>5. RowInv'
    BY <2>1, <2>2, <2>3
  <2>6. FileInv' /\ DurableInv' /\ ClassifiedIsNew'
    BY <2>1, <2>2, <2>3
  <2>7. CompletedIsDurable' /\ ReadIsDurable'
    BY <2>1
  <2>8. QED BY <2>4, <2>5, <2>6, <2>7
<1>11. CASE LateDbError(t)
  BY <1>11, ResetInv, ReconcileRowInv, CommitInv, ClaimInv, MarkRowInv
  DEF LateDbError, Raise
<1>12. QED
  BY <1>2, <1>3, <1>4, <1>5, <1>6, <1>7, <1>8, <1>9, <1>10, <1>11 DEF Failure

LEMMA EnvironmentInv == ASSUME IInv, Environment PROVE IInv'
<1>1. TypeOK'
  BY EnvironmentType DEF IInv
<1> USE <1>1 DEF IInv, TypeOK, JobInv, Busy, RowInv, FileInv, DurableInv,
      ClassifiedIsNew, CompletedIsDurable, ReadIsDurable, Target, HoldsLock,
      Task, MainPC, ConsumerPC, OutboxPC, RowStatus,
      miniflux, outbox, files, locks, cycle, bounds
<1>2. ASSUME NEW w \in Worker, DropLeadership(w) PROVE IInv'
  BY <1>2 DEF DropLeadership
<1>3. ASSUME NEW c \in Consumer, DropUrlLock(c) PROVE IInv'
  BY <1>3 DEF DropUrlLock
<1>4. ASSUME NEW e \in Entry, Arrive(e) PROVE IInv'
  BY <1>4 DEF Arrive
<1>5. ASSUME NEW e \in Entry, Expire(e) PROVE IInv'
  BY <1>5 DEF Expire
<1>6. ASSUME NEW u \in Url, ZombieWrite(u) PROVE IInv'
  BY <1>6 DEF ZombieWrite
<1>7. ASSUME NEW u \in Url, GrowStale(u) PROVE IInv'
  BY <1>7 DEF GrowStale
<1>8. ASSUME NEW w \in Worker, Stop(w) PROVE IInv'
  BY <1>8 DEF Stop, TasksOf, ConsumersOf
<1>9. QED
  BY <1>2, <1>3, <1>4, <1>5, <1>6, <1>7, <1>8 DEF Environment

\* IInv is inductive.
LEMMA StepInv == IInv /\ [Next]_vars => IInv'
<1> SUFFICES ASSUME IInv, [Next]_vars PROVE IInv'
  OBVIOUS
<1>1. ASSUME NEW t \in Task, Step(t) PROVE IInv'
  BY <1>1, MainStepInv, EntryStepInv, OutboxStepInv DEF Step
<1>2. ASSUME NEW t \in Task, Failure(t) PROVE IInv'
  BY <1>2, FailureInv
<1>3. CASE Environment
  BY <1>3, EnvironmentInv
<1>4. CASE UNCHANGED vars
  BY <1>4 DEF vars, miniflux, outbox, files, locks, cycle, bounds, IInv,
    TypeOK, JobInv, Busy, RowInv, FileInv, DurableInv, ClassifiedIsNew,
    CompletedIsDurable, ReadIsDurable, Target, HoldsLock
<1>5. QED BY <1>1, <1>2, <1>3, <1>4 DEF Next

-----------------------------------------------------------------------------
\* The inductive invariant holds in every reachable state, whatever fails,
\* crashes or loses its session.
THEOREM Invariance == Spec => []IInv
<1>1. Init => IInv
  BY InitInv
<1>2. IInv /\ [Next]_vars => IInv'
  BY StepInv
<1>3. QED BY <1>1, <1>2, PTL DEF Spec

\* The states of the worker, its tables, locks and files keep their types.
THEOREM TypeCorrect == Spec => []TypeOK
<1>1. IInv => TypeOK
  BY DEF IInv
<1>2. QED BY <1>1, Invariance, PTL

\* No path of the ingest (the outbox, the retry of the reconcile, the
\* duplicate path) marks an entry read before the file of its article is in
\* the Vault: for any number of workers, whether or not they hold the
\* leadership, and after any number of crashes and lost sessions.
THEOREM NoBlindAcknowledge == Spec => []ReadIsDurable
<1>1. IInv => ReadIsDurable
  BY DEF IInv
<1>2. QED BY <1>1, Invariance, PTL

\* A completed outbox row has its article in the database and its file in
\* the Vault, although _mark_completed checks neither.
THEOREM CompletionIsTrue == Spec => []CompletedIsDurable
<1>1. IInv => CompletedIsDurable
  BY DEF IInv
<1>2. QED BY <1>1, Invariance, PTL

\* What is classified and committed under the URL lock was not stored
\* before: the duplicate check made under the lock is still true when the
\* LLM answers.
THEOREM NoSecondClassification == Spec => []ClassifiedIsNew
<1>1. IInv => ClassifiedIsNew
  BY DEF IInv
<1>2. QED BY <1>1, Invariance, PTL
-----------------------------------------------------------------------------
(* The pipeline implements Delivery *)

\* A consumer that counts as working on its article.
Live(c) == pc[c] \in {"classify", "commit"} /\ HoldsLock(c)

LEMMA WorkingType == ASSUME IInv PROVE Working \subseteq Url
BY DEF Working, IInv, JobInv, Busy, Target, Task, OutboxPC

\* A URL lock has one holder: no two consumers work on one article.
LEMMA OneWorks ==
  ASSUME NEW c \in Consumer, NEW d \in Consumer, Live(c), HoldsLock(d),
         Target(c) = Target(d)
  PROVE  c = d
BY DEF Live, HoldsLock

\* When no consumer starts to work, the step is an Abandon (of nothing, when
\* none stops).
LEMMA Shrinks ==
  ASSUME IInv, UNCHANGED <<feed, article, vault>>,
         \A c \in Consumer : Live(c)' => Live(c) /\ Target(c)' = Target(c)
  PROVE  Promise!Next
<1>1. Working' \subseteq Working
  BY DEF Working, Live
<1>2. Promise!Abandon(Working \ Working')
  BY <1>1 DEF Promise!Abandon
<1>3. Working \ Working' \in SUBSET Url
  BY WorkingType
<1>4. QED BY <1>2, <1>3 DEF Promise!Next

\* When every consumer keeps what it does, the work stays the same.
LEMMA Stays ==
  ASSUME \A c \in Consumer : /\ Live(c)' <=> Live(c)
                             /\ Live(c) => Target(c)' = Target(c)
  PROVE  Working' = Working
BY DEF Working, Live

\* The steps of a main coroutine.
LEMMA MainStepMaps ==
  ASSUME IInv, NEW w \in Worker, MainStep(w)
  PROVE  Promise!Next
<1>1. w \notin Consumer
  OBVIOUS
<1>2. UNCHANGED <<feed, article, vault, urlLock>>
  BY DEF MainStep, Boot, Elect, ResetStale, ResetStaleTo, SelectRows,
     SelectMarks, ReconcileRow, ReconcileRowTo, RetryMark, Reconciled, Fetch,
     FetchEmpty, Hand, SkipFetch, Join, Wake, miniflux, outbox, files, locks,
     cycle, bounds
<1>3. \A c \in Consumer : pc'[c] = pc[c] /\ job'[c] = job[c]
  <2> USE DEF IInv, TypeOK, Task, Goto
  <2>1. CASE \E u \in todoRows[w] : ClaimRow(w, u, "write")
    BY <1>1, <2>1 DEF ClaimRow
  <2>2. CASE ~ \E u \in todoRows[w] : ClaimRow(w, u, "write")
    BY <1>1, <2>2 DEF MainStep, Boot, Elect, ResetStale, ResetStaleTo,
       SelectRows, SelectMarks, ReconcileRow, ReconcileRowTo, RetryMark,
       Reconciled, Fetch, FetchEmpty, Hand, SkipFetch, Join, Wake
  <2>3. QED BY <2>1, <2>2
<1>4. \A c \in Consumer : Live(c)' => Live(c) /\ Target(c)' = Target(c)
  BY <1>2, <1>3 DEF Live, HoldsLock, Target
<1>5. QED BY <1>2, <1>4, Shrinks

\* The steps of process_outbox_row: a write is a Project, a mark-read an
\* Acknowledge.
LEMMA OutboxStepMaps ==
  ASSUME IInv, NEW t \in Task, OutboxStep(t)
  PROVE  Promise!Next
<1>1. /\ pc[t] \in OutboxPC
      /\ UNCHANGED <<article, urlLock, job>>
      /\ \E p \in OutboxPC \cup {"reconcile", "release"} :
           pc' = [pc EXCEPT ![t] = p]
  BY DEF OutboxStep, WriteVault, MarkFailed, MarkFailedTo, MarkCompleted,
     MarkCompletedTo, MarkRead, Stamp, Goto, Return, OutboxPC, locks
<1>2. \A c \in Consumer : /\ Live(c)' <=> Live(c)
                          /\ Target(c)' = Target(c)
  BY <1>1 DEF Live, HoldsLock, Target, IInv, TypeOK, OutboxPC
<1>3. Working' = Working
  BY <1>2, Stays
<1>4. job[t] \in Entry /\ Target(t) \in Url /\ Target(t) \in article
  BY <1>1 DEF IInv, JobInv, Busy, RowInv, Target
<1>5. CASE WriteVault(t)
  <2>1. Promise!Project(Target(t))
    BY <1>3, <1>4, <1>5 DEF WriteVault, miniflux, Promise!Project
  <2>2. QED BY <1>4, <2>1 DEF Promise!Next
<1>6. CASE MarkRead(t)
  <2>1. PICK a \in Entry : a = job[t]
    BY <1>4
  <2>2. UrlOf[a] \in vault
    BY <1>6, <2>1 DEF MarkRead, Goto, IInv, DurableInv, Target
  <2>3. {e \in Entry : feed'[e] = "read"} =
          {e \in Entry : feed[e] = "read"} \cup {a}
    BY <1>6, <2>1 DEF MarkRead, IInv, TypeOK
  <2>4. Promise!Acknowledge(a)
    BY <1>1, <1>3, <1>6, <2>2, <2>3 DEF MarkRead, files, Promise!Acknowledge
  <2>5. QED BY <2>4 DEF Promise!Next
<1>7. CASE MarkFailed(t) \/ MarkCompleted(t) \/ Stamp(t)
  <2>1. UNCHANGED <<feed, article, vault>>
    BY <1>7 DEF MarkFailed, MarkFailedTo, MarkCompleted, MarkCompletedTo,
                Stamp, miniflux, files
  <2>2. QED BY <1>2, <2>1, Shrinks
<1>8. QED BY <1>5, <1>6, <1>7 DEF OutboxStep

\* The commit is a Store, whether or not its answer arrives.
LEMMA CommitMaps ==
  ASSUME IInv, NEW c \in Consumer, NEW next \in {"select", "release"},
         CommitTo(c, next)
  PROVE  Promise!Next
<1> USE DEF Goto, IInv, TypeOK, Task
<1>1. /\ UNCHANGED <<feed, vault, urlLock, job>>
      /\ HoldsLock(c) /\ pc[c] = "commit"
      /\ pc' = [pc EXCEPT ![c] = next]
      /\ article' = article \cup {Target(c)}
  BY DEF CommitTo, miniflux, files, locks
<1>2. \A d \in Consumer : /\ Live(d)' <=> Live(d) /\ d # c
                          /\ Target(d)' = Target(d)
  BY <1>1 DEF Live, HoldsLock, Target
<1>3. \A d \in Consumer : Live(d) /\ Target(d) = Target(c) => d = c
  BY <1>1, OneWorks
<1>4. Working' = Working \ {Target(c)} /\ Target(c) \in Working
  BY <1>1, <1>2, <1>3 DEF Working, Live
<1>5. PICK u \in Url : u = Target(c)
  BY <1>1 DEF JobInv, Busy, Target
<1>6. Promise!Store(u)
  BY <1>1, <1>4, <1>5 DEF Promise!Store
<1>7. QED BY <1>6 DEF Promise!Next

\* The duplicate check that finds no article is a Begin, the commit a Store,
\* the acknowledgement of a duplicate an Acknowledge.
LEMMA EntryStepMaps ==
  ASSUME IInv, NEW c \in Consumer, EntryStep(c)
  PROVE  Promise!Next
<1> USE DEF Goto, IInv, TypeOK, Task
<1>1. pc[c] # "idle" => Target(c) \in Url /\ job[c] \in Entry
  BY DEF JobInv, Busy, Target
<1>2. ASSUME UNCHANGED <<feed, article, vault>>,
             \A d \in Consumer \ {c} :
               /\ pc'[d] = pc[d] /\ job'[d] = job[d]
               /\ HoldsLock(d)' => HoldsLock(d),
             ~ Live(c)'
      PROVE  Promise!Next
  <2>1. \A d \in Consumer : Live(d)' => Live(d) /\ Target(d)' = Target(d)
    BY <1>2 DEF Live, Target
  <2>2. QED BY <1>2, <2>1, Shrinks
<1>3. CASE Take(c)
  BY <1>2, <1>3 DEF Take, Live, HoldsLock, Target, miniflux, files, locks
<1>4. CASE LockUrl(c)
  <2>1. /\ UNCHANGED <<feed, article, vault, job>>
        /\ pc[c] = "lock" /\ pc' = [pc EXCEPT ![c] = "dedup"]
        /\ urlLock' = [urlLock EXCEPT ![Target(c)] = c]
    BY <1>4 DEF LockUrl, miniflux, files
  <2>2. \A d \in Consumer \ {c} : HoldsLock(d)' => HoldsLock(d)
    BY <1>1, <2>1 DEF HoldsLock, Target
  <2>3. QED BY <1>2, <2>1, <2>2 DEF Live
<1>5. CASE Dedup(c)
  <2>1. /\ UNCHANGED <<feed, article, vault, urlLock, job>>
        /\ HoldsLock(c) /\ pc[c] = "dedup"
        /\ pc' = [pc EXCEPT ![c] = IF Target(c) \in article THEN "inspect"
                                                         ELSE "classify"]
    BY <1>5 DEF Dedup, miniflux, files, locks
  <2>2. CASE Target(c) \in article
    BY <1>2, <2>1, <2>2 DEF Live, HoldsLock, Target
  <2>3. CASE Target(c) \notin article
    <3>1. \A d \in Consumer : /\ Live(d)' <=> Live(d) \/ d = c
                              /\ Target(d)' = Target(d)
      BY <2>1, <2>3 DEF Live, HoldsLock, Target
    <3>2. Working' = Working \cup {Target(c)}
      BY <3>1 DEF Working, Live
    <3>3. Target(c) \notin Working
      <4>1. ASSUME NEW d \in Consumer, Live(d), Target(d) = Target(c)
            PROVE  FALSE
        BY <2>1, <4>1, OneWorks DEF Live
      <4>2. QED BY <4>1 DEF Working, Live
    <3>4. PICK u \in Url : u = Target(c)
      BY <1>1, <2>1
    <3>5. Promise!Begin(u)
      BY <2>1, <2>3, <3>2, <3>3, <3>4 DEF Promise!Begin
    <3>6. QED BY <3>5 DEF Promise!Next
  <2>4. QED BY <2>2, <2>3
<1>6. CASE Inspect(c)
  BY <1>2, <1>6 DEF Inspect, Live, HoldsLock, Target, miniflux, files, locks
<1>7. CASE DupMarkRead(c)
  <2>1. /\ UNCHANGED <<article, vault, urlLock, job>>
        /\ pc[c] = "dupmark" /\ pc' = [pc EXCEPT ![c] = "release"]
        /\ feed' = [feed EXCEPT ![job[c]] = "read"]
    BY <1>7 DEF DupMarkRead, files, locks
  <2>2. Working' = Working
    BY <2>1, Stays DEF Live, HoldsLock, Target
  <2>3. PICK a \in Entry : a = job[c]
    BY <1>1, <2>1
  <2>4. UrlOf[a] \in vault
    BY <2>1, <2>3 DEF DurableInv, Target
  <2>5. {e \in Entry : feed'[e] = "read"} =
          {e \in Entry : feed[e] = "read"} \cup {a}
    BY <2>1, <2>3
  <2>6. Promise!Acknowledge(a)
    BY <2>1, <2>2, <2>4, <2>5 DEF Promise!Acknowledge
  <2>7. QED BY <2>6 DEF Promise!Next
<1>8. CASE Classify(c)
  <2>1. /\ UNCHANGED <<feed, article, vault, urlLock, job>>
        /\ pc[c] = "classify" /\ pc' = [pc EXCEPT ![c] = "commit"]
    BY <1>8 DEF Classify, miniflux, files, locks
  <2>2. \A d \in Consumer : Live(d)' => Live(d) /\ Target(d)' = Target(d)
    BY <2>1 DEF Live, HoldsLock, Target
  <2>3. QED BY <2>1, <2>2, Shrinks
<1>9. CASE Commit(c)
  BY <1>9, CommitMaps DEF Commit
<1>10. CASE SelectOutboxRow(c)
  BY <1>2, <1>10
  DEF SelectOutboxRow, Live, HoldsLock, Target, miniflux, files, locks
<1>11. CASE Claim(c)
  <2>1. /\ UNCHANGED <<feed, article, vault, urlLock>>
        /\ ClaimRow(c, Target(c), "write")
    BY <1>11 DEF Claim, ClaimTo, miniflux, files, locks
  <2>2. /\ \A d \in Consumer \ {c} : pc'[d] = pc[d] /\ job'[d] = job[d]
        /\ pc'[c] \in {"write", "release"}
    BY <2>1 DEF ClaimRow, Return
  <2>3. QED BY <1>2, <2>1, <2>2 DEF Live, HoldsLock, Target
<1>12. CASE Release(c)
  <2>1. /\ UNCHANGED <<feed, article, vault>>
        /\ pc' = [pc EXCEPT ![c] = "idle"] /\ job' = [job EXCEPT ![c] = None]
        /\ \A u \in Url : urlLock'[u] = None \/ urlLock'[u] = urlLock[u]
    BY <1>12 DEF Release, miniflux, files
  <2>2. \A d \in Consumer \ {c} : Live(d)' => Live(d) /\ Target(d)' = Target(d)
    <3>1. SUFFICES ASSUME NEW d \in Consumer \ {c}, Live(d)'
                   PROVE  Live(d) /\ Target(d)' = Target(d)
      OBVIOUS
    <3>2. pc[d] \in {"classify", "commit"} /\ Target(d)' = Target(d)
      BY <2>1, <3>1 DEF Live, Target
    <3>3. Target(d) \in Url
      BY <3>2 DEF JobInv, Busy, Target, OutboxPC
    <3>4. HoldsLock(d)
      BY <2>1, <3>1, <3>2, <3>3 DEF Live, HoldsLock
    <3>5. QED BY <3>2, <3>4 DEF Live
  <2>3. ~ Live(c)'
    BY <2>1 DEF Live
  <2>4. QED BY <2>1, <2>2, <2>3, Shrinks
<1>13. QED
  BY <1>3, <1>4, <1>5, <1>6, <1>7, <1>8, <1>9, <1>10, <1>11, <1>12
  DEF EntryStep
\* A failure abandons the work of its task, or is a mark-read that reached
\* Miniflux before it raised.
LEMMA FailureMaps ==
  ASSUME IInv, NEW t \in Task, Failure(t)
  PROVE  Promise!Next
<1> USE DEF Goto, IInv, TypeOK, Task
<1>1. ASSUME UNCHANGED <<feed, article, vault, urlLock>>,
             NEW p \in MainPC \cup ConsumerPC, p \notin {"classify", "commit"},
             pc' = [pc EXCEPT ![t] = p],
             \A s \in Task \ {t} : job'[s] = job[s]
      PROVE  Promise!Next
  <2>1. \A d \in Consumer : Live(d)' => Live(d) /\ Target(d)' = Target(d)
    BY <1>1 DEF Live, HoldsLock, Target
  <2>2. QED BY <1>1, <2>1, Shrinks
<1> USE DEF MainPC, ConsumerPC, OutboxPC, miniflux, files, locks, Return
<1>2. CASE t \in Worker /\ FetchCut(t)
  BY <1>1, <1>2 DEF FetchCut, Hand
<1>3. CASE t \in Worker /\ FetchFails(t)
  BY <1>1, <1>3 DEF FetchFails, SkipFetch
<1>4. CASE t \in Consumer /\ LockFails(t)
  BY <1>1, <1>4 DEF LockFails
<1>5. CASE t \in Consumer /\ ClassifyFails(t)
  BY <1>1, <1>5 DEF ClassifyFails
<1>6. CASE t \in Consumer /\ DupMarkReadFails(t)
  BY <1>1, <1>6 DEF DupMarkReadFails
<1>7. CASE WriteFails(t)
  BY <1>1, <1>7 DEF WriteFails
<1>8. CASE MarkReadSwallowed(t)
  BY <1>1, <1>8 DEF MarkReadSwallowed
<1>9. CASE MarkReadRaises(t)
  <2>1. /\ UNCHANGED <<article, vault, urlLock, job>>
        /\ pc[t] = "mark" /\ pc' = [pc EXCEPT ![t] = Return(t)]
        /\ feed' \in {feed, [feed EXCEPT ![job[t]] = "read"]}
    BY <1>9 DEF MarkReadRaises
  <2>2. CASE feed' = feed
    BY <1>1, <2>1, <2>2
  <2>3. CASE feed' = [feed EXCEPT ![job[t]] = "read"]
    <3>1. Working' = Working
      BY <2>1, Stays DEF Live, HoldsLock, Target
    <3>2. PICK a \in Entry : a = job[t]
      BY <2>1 DEF JobInv, Busy
    <3>3. UrlOf[a] \in vault
      BY <2>1, <3>2 DEF DurableInv, Target
    <3>4. {e \in Entry : feed'[e] = "read"} =
            {e \in Entry : feed[e] = "read"} \cup {a}
      BY <2>3, <3>2
    <3>5. Promise!Acknowledge(a)
      BY <2>1, <3>1, <3>3, <3>4 DEF Promise!Acknowledge
    <3>6. QED BY <3>5 DEF Promise!Next
  <2>4. QED BY <2>1, <2>2, <2>3
<1>10. CASE DbError(t)
  <2>1. /\ UNCHANGED <<feed, article, vault, urlLock, job>>
        /\ \E p \in {"release", "sleep", "reconcile"} :
             pc' = [pc EXCEPT ![t] = p]
    BY <1>10 DEF DbError, Raise
  <2>2. QED BY <1>1, <2>1
<1>11. CASE LateDbError(t)
  <2>1. CASE t \in Consumer /\ CommitTo(t, Raise(t))
    BY <2>1, CommitMaps DEF Raise
  <2>2. ASSUME NEW u, ClaimRow(t, u, Raise(t)),
               UNCHANGED <<feed, article, vault, urlLock>>
        PROVE  Promise!Next
    <3>1. /\ \E p \in {"release", "sleep", "reconcile"} :
               pc' = [pc EXCEPT ![t] = p]
          /\ \A s \in Task \ {t} : job'[s] = job[s]
      BY <2>2 DEF ClaimRow, Raise
    <3>2. QED BY <1>1, <2>2, <3>1
  <2>3. CASE t \in Worker /\ ReconcileRowTo(t, Raise(t))
    BY <2>2, <2>3 DEF ReconcileRowTo
  <2>4. CASE t \in Consumer /\ ClaimTo(t, Raise(t))
    BY <2>2, <2>4 DEF ClaimTo
  <2>5. CASE \/ t \in Worker /\ ResetStaleTo(t, Raise(t))
             \/ MarkFailedTo(t, Raise(t)) \/ MarkCompletedTo(t, Raise(t))
    <3>1. /\ UNCHANGED <<feed, article, vault, urlLock, job>>
          /\ \E p \in {"release", "sleep"} : pc' = [pc EXCEPT ![t] = p]
      BY <2>5 DEF ResetStaleTo, MarkFailedTo, MarkCompletedTo, Raise
    <3>2. QED BY <1>1, <3>1
  <2>6. QED BY <1>11, <2>1, <2>3, <2>4, <2>5 DEF LateDbError
<1>12. QED
  BY <1>2, <1>3, <1>4, <1>5, <1>6, <1>7, <1>8, <1>9, <1>10, <1>11 DEF Failure

\* A crash, a lost session or a step of Miniflux abandons work at most; the
\* write of a thread left behind is a Project.
LEMMA EnvironmentMaps ==
  ASSUME IInv, Environment
  PROVE  Promise!Next \/ UNCHANGED Promise!dvars
<1> USE DEF IInv, TypeOK, Task, files, locks
<1>1. ASSUME UNCHANGED <<article, vault, urlLock, pc, job>>,
             NEW e \in Entry, feed[e] # "read",
             feed' = feed \/ feed' = [feed EXCEPT ![e] = "unread"]
      PROVE  UNCHANGED Promise!dvars
  <2>1. Working' = Working
    BY <1>1, Stays DEF Live, HoldsLock, Target
  <2>2. {a \in Entry : feed'[a] = "read"} = {a \in Entry : feed[a] = "read"}
    BY <1>1
  <2>3. QED BY <1>1, <2>1, <2>2 DEF Promise!dvars
<1>2. ASSUME NEW e \in Entry, Arrive(e) PROVE UNCHANGED Promise!dvars
  BY <1>1, <1>2 DEF Arrive
<1>3. ASSUME NEW e \in Entry, Expire(e) PROVE UNCHANGED Promise!dvars
  BY <1>1, <1>3 DEF Expire
<1>4. ASSUME NEW w \in Worker, DropLeadership(w) PROVE Promise!Next
  <2>1. UNCHANGED <<feed, article, vault, urlLock, pc, job>>
    BY <1>4 DEF DropLeadership, miniflux
  <2>2. QED BY <2>1, Shrinks DEF Live, HoldsLock, Target
<1>5. ASSUME NEW u \in Url, GrowStale(u) PROVE Promise!Next
  <2>1. UNCHANGED <<feed, article, vault, urlLock, pc, job>>
    BY <1>5 DEF GrowStale, miniflux
  <2>2. QED BY <2>1, Shrinks DEF Live, HoldsLock, Target
<1>6. ASSUME NEW c \in Consumer, DropUrlLock(c) PROVE Promise!Next
  <2>1. UNCHANGED <<feed, article, vault, pc, job>>
    BY <1>6 DEF DropUrlLock, miniflux
  <2>2. \A d \in Consumer : Live(d)' => Live(d) /\ Target(d)' = Target(d)
    BY <1>6, <2>1 DEF DropUrlLock, Live, HoldsLock, Target
  <2>3. QED BY <2>1, <2>2, Shrinks
<1>7. ASSUME NEW w \in Worker, Stop(w) PROVE Promise!Next
  <2>1. UNCHANGED <<feed, article, vault>>
    BY <1>7 DEF Stop, miniflux
  <2>2. ASSUME NEW d \in Consumer, Live(d)'
        PROVE  Live(d) /\ Target(d)' = Target(d)
    <3>1. pc'[d] = pc[d] /\ job'[d] = job[d]
      BY <1>7, <2>2 DEF Stop, Live, TasksOf
    <3>2. Target(d) \in Url /\ Target(d)' = Target(d)
      BY <2>2, <3>1 DEF Live, JobInv, Busy, Target, OutboxPC
    <3>3. HoldsLock(d)
      BY <1>7, <2>2, <3>2 DEF Stop, Live, HoldsLock
    <3>4. QED BY <2>2, <3>1, <3>2, <3>3 DEF Live
  <2>3. QED BY <2>1, <2>2, Shrinks
<1>8. ASSUME NEW u \in Url, ZombieWrite(u)
      PROVE  Promise!Next \/ UNCHANGED Promise!dvars
  <2>1. /\ UNCHANGED <<feed, article, urlLock, pc, job>>
        /\ u \in article
        /\ vault' \in {vault, vault \cup {u}}
    BY <1>8 DEF ZombieWrite, miniflux, FileInv
  <2>2. Working' = Working
    BY <2>1, Stays DEF Live, HoldsLock, Target
  <2>3. CASE vault' = vault
    BY <2>1, <2>2, <2>3 DEF Promise!dvars
  <2>4. CASE vault' = vault \cup {u}
    BY <2>1, <2>2, <2>4 DEF Promise!Next, Promise!Project
  <2>5. QED BY <2>1, <2>3, <2>4
<1>9. QED
  BY <1>2, <1>3, <1>4, <1>5, <1>6, <1>7, <1>8 DEF Environment

\* The pipeline implements Delivery: every history of the workers, their
\* failures included, is one in which an article is worked on by one consumer
\* at a time and never again once stored, and in which an entry is
\* acknowledged only after the projection of its article.
THEOREM ImplementsDelivery == Spec => Delivers
<1>1. Init => Promise!Init
  <2>1. ASSUME Init PROVE Working = {}
    BY <2>1 DEF Init, Working, Task
  <2>2. QED BY <2>1 DEF Init, Promise!Init
<1>2. IInv /\ [Next]_vars => [Promise!Next]_(Promise!dvars)
  <2>1. SUFFICES ASSUME IInv, [Next]_vars
                 PROVE  Promise!Next \/ UNCHANGED Promise!dvars
    OBVIOUS
  <2>2. ASSUME NEW t \in Task, Step(t) PROVE Promise!Next
    BY <2>1, <2>2, MainStepMaps, EntryStepMaps, OutboxStepMaps DEF Step
  <2>3. ASSUME NEW t \in Task, Failure(t) PROVE Promise!Next
    BY <2>1, <2>3, FailureMaps
  <2>4. CASE Environment
    BY <2>1, <2>4, EnvironmentMaps
  <2>5. CASE UNCHANGED vars
    BY <2>5 DEF vars, miniflux, files, locks, Promise!dvars, Working,
                HoldsLock, Target
  <2>6. QED BY <2>1, <2>2, <2>3, <2>4, <2>5 DEF Next
<1>3. QED BY <1>1, <1>2, Invariance, PTL DEF Spec, Delivers, Promise!Spec
=============================================================================
