--------------------------- MODULE ExclusionProofs ---------------------------
(***************************************************************************)
(* What the leadership lock and the URL locks give as long as no database  *)
(* session is lost in use (MaxDrops = 0), for any number of workers,       *)
(* consumers, crashes and articles.  Without that assumption the theorems  *)
(* are false: nothing looks at the leadership session again.               *)
(***************************************************************************)
EXTENDS IngestProofs

USE IngestAssumption

\* The coroutine that may be inside process_outbox_row for an article is one.
LEMMA ProjectsAlone == IInv /\ Exclusive => OneProjector
<1> SUFFICES ASSUME IInv, Exclusive, NEW s \in Task, NEW t \in Task,
                    pc[s] \in OutboxPC, pc[t] \in OutboxPC,
                    Target(s) = Target(t)
             PROVE  s = t
  BY DEF OneProjector
<1> USE DEF Exclusive, LeaderActs, OutboxPC, Task
<1>1. ASSUME NEW w \in Worker, pc[w] \in OutboxPC PROVE leader = w
  BY <1>1
<1>2. ASSUME NEW c \in Consumer, pc[c] \in OutboxPC
      PROVE  /\ urlLock[Target(c)] = c
             /\ leader = Owner[c] /\ pc[leader] = "consume"
  BY <1>2 DEF HoldsLock
<1>3. CASE s \in Worker /\ t \in Worker
  BY <1>1, <1>3
<1>4. CASE s \in Worker /\ t \in Consumer
  BY <1>1, <1>2, <1>4
<1>5. CASE s \in Consumer /\ t \in Worker
  BY <1>1, <1>2, <1>5
<1>6. CASE s \in Consumer /\ t \in Consumer
  BY <1>2, <1>6
<1>7. QED BY <1>3, <1>4, <1>5, <1>6

\* A URL lock has one holder.
LEMMA ClassifiesAlone == Exclusive => SingleFlight
BY DEF Exclusive, SingleFlight, HoldsLock

LEMMA ReconcileRowExcludes ==
  ASSUME IInv, Exclusive, NEW w \in Worker, NEW next \in {"write", "sleep"},
         ReconcileRowTo(w, next)
  PROVE  Exclusive'
<1> USE DEF IInv, TypeOK, Exclusive, LeaderActs, Target, HoldsLock, Task
<1>1. PICK u \in todoRows[w] : ClaimRow(w, u, next)
  BY DEF ReconcileRowTo
<1>2. /\ pc[w] = "reconcile" /\ leader = w
      /\ UNCHANGED <<entryId, leader, urlLock, drops>>
  BY DEF ReconcileRowTo, locks, bounds
<1>3. \A c \in Consumer : pc[c] # "idle" => Owner[c] # w
  BY <1>2
<1>4. /\ pc' = [pc EXCEPT ![w] = next] \/ pc' = [pc EXCEPT ![w] = "reconcile"]
      /\ \A t \in Task : t # w => job'[t] = job[t]
  BY <1>1 DEF ClaimRow, Return
<1>5. LeaderActs'
  BY <1>2, <1>4
<1>6. \A c \in Consumer : pc'[c] \notin {"idle", "lock"} => HoldsLock(c)'
  BY <1>2, <1>4
<1>7. \A c \in Consumer : pc'[c] # "idle" => pc'[Owner[c]] = "consume"
  BY <1>3, <1>4
<1>8. \A t \in Task : pc'[t] \in {"write", "fail", "complete"}
                        => status'[Target(t)'] # "completed"
  <2>1. CASE status[u] \in {"pending", "failed", "writing"}
    <3>1. /\ status' = [status EXCEPT ![u] = "writing"]
          /\ job' = [job EXCEPT ![w] = entryId[u]]
      BY <1>1, <2>1 DEF ClaimRow, SetRow
    <3>2. u \in Url /\ UrlOf[entryId[u]] = u
      BY <1>1 DEF RowInv
    <3>3. QED BY <1>4, <3>1, <3>2
  <2>2. CASE status[u] \notin {"pending", "failed", "writing"}
    BY <1>1, <2>2 DEF ClaimRow, Return
  <2>3. QED BY <2>1, <2>2
<1>9. QED BY <1>2, <1>5, <1>6, <1>7, <1>8

LEMMA ClaimExcludes ==
  ASSUME IInv, Exclusive, NEW c \in Consumer, NEW next \in {"write", "release"},
         ClaimTo(c, next)
  PROVE  Exclusive'
<1> USE DEF IInv, TypeOK, Exclusive, LeaderActs, Target, HoldsLock, Task
<1>1. /\ pc[c] = "claim" /\ ClaimRow(c, Target(c), next) /\ HoldsLock(c)
      /\ UNCHANGED <<entryId, leader, urlLock, drops>>
  BY DEF ClaimTo, locks, bounds
<1>2. Target(c) \in Url /\ UrlOf[entryId[Target(c)]] = Target(c)
  BY <1>1 DEF JobInv, Busy, RowInv
<1>3. CASE status[Target(c)] \in {"pending", "failed", "writing"}
  <2>1. /\ status' = [status EXCEPT ![Target(c)] = "writing"]
        /\ job' = [job EXCEPT ![c] = entryId[Target(c)]]
        /\ pc' = [pc EXCEPT ![c] = next]
    BY <1>1, <1>3 DEF ClaimRow, SetRow
  <2>2. \A t \in Task : Target(t)' = Target(t)
    BY <1>2, <2>1
  <2>3. QED BY <1>1, <1>2, <2>1, <2>2
<1>4. CASE status[Target(c)] \notin {"pending", "failed", "writing"}
  <2>1. UNCHANGED <<status, job>> /\ pc' = [pc EXCEPT ![c] = "release"]
    BY <1>1, <1>4 DEF ClaimRow, Return
  <2>2. QED BY <1>1, <2>1
<1>5. QED BY <1>3, <1>4

LEMMA CommitExcludes ==
  ASSUME IInv, Exclusive, NEW c \in Consumer, NEW next \in {"select", "release"},
         CommitTo(c, next)
  PROVE  Exclusive'
<1>1. Target(c) \in Url /\ job[c] \in Entry
  BY DEF CommitTo, Goto, IInv, JobInv, Busy, Target, Task
<1>2. QED
  BY <1>1 DEF IInv, TypeOK, Exclusive, LeaderActs, Target, HoldsLock, Task,
     Goto, SetRow, CommitTo, miniflux, outbox, files, locks, cycle, bounds

\* The row of a completion or a failure is in the hands of its task alone.
LEMMA MarkRowExcludes ==
  ASSUME IInv, Exclusive, NEW t \in Task,
         \/ MarkFailedTo(t, Return(t)) \/ MarkFailedTo(t, Raise(t))
         \/ MarkCompletedTo(t, "mark") \/ MarkCompletedTo(t, Raise(t))
  PROVE  Exclusive'
<1>1. OneProjector
  BY ProjectsAlone
<1> USE DEF IInv, TypeOK, Exclusive, LeaderActs, Target, HoldsLock, Task, Goto,
            SetRow, Return, Raise, OutboxPC, OneProjector,
            miniflux, outbox, files, locks, cycle, bounds
<1>2. CASE MarkFailedTo(t, Return(t))   BY <1>2 DEF MarkFailedTo
<1>3. CASE MarkFailedTo(t, Raise(t))    BY <1>3 DEF MarkFailedTo
<1>4. CASE MarkCompletedTo(t, "mark")   BY <1>1, <1>4 DEF MarkCompletedTo
<1>5. CASE MarkCompletedTo(t, Raise(t)) BY <1>1, <1>5 DEF MarkCompletedTo
<1>6. QED BY <1>2, <1>3, <1>4, <1>5

LEMMA MainStepExcludes ==
  ASSUME IInv, Exclusive, NEW w \in Worker, MainStep(w)
  PROVE  Exclusive'
<1> USE DEF IInv, TypeOK, Exclusive, LeaderActs, Target, HoldsLock, Task, Goto,
            miniflux, outbox, files, locks, cycle, bounds
<1>1. CASE Boot(w)         BY <1>1 DEF Boot
<1>2. CASE Elect(w)        BY <1>2 DEF Elect
<1>3. CASE ResetStale(w)   BY <1>3 DEF ResetStale, ResetStaleTo
<1>4. CASE SelectRows(w)   BY <1>4 DEF SelectRows
<1>5. CASE SelectMarks(w)  BY <1>5 DEF SelectMarks
<1>6. CASE ReconcileRow(w) BY <1>6, ReconcileRowExcludes DEF ReconcileRow
<1>7. CASE RetryMark(w)    BY <1>7 DEF RetryMark
<1>8. CASE Reconciled(w)   BY <1>8 DEF Reconciled
<1>9. CASE Fetch(w)        BY <1>9 DEF Fetch, Hand, Unread
<1>10. CASE FetchEmpty(w)  BY <1>10 DEF FetchEmpty, SkipFetch
<1>11. CASE Join(w)        BY <1>11 DEF Join, ConsumersOf
<1>12. CASE Wake(w)        BY <1>12 DEF Wake
<1>13. QED
  BY <1>1, <1>2, <1>3, <1>4, <1>5, <1>6, <1>7, <1>8, <1>9, <1>10, <1>11,
     <1>12 DEF MainStep

LEMMA OutboxStepExcludes ==
  ASSUME IInv, Exclusive, NEW t \in Task, OutboxStep(t)
  PROVE  Exclusive'
<1> USE DEF IInv, TypeOK, Exclusive, LeaderActs, Target, HoldsLock, Task, Goto,
            Return, OutboxPC, miniflux, outbox, files, locks, cycle, bounds
<1>1. CASE WriteVault(t)    BY <1>1 DEF WriteVault
<1>2. CASE MarkFailed(t)    BY <1>2, MarkRowExcludes DEF MarkFailed
<1>3. CASE MarkCompleted(t) BY <1>3, MarkRowExcludes DEF MarkCompleted
<1>4. CASE MarkRead(t)      BY <1>4 DEF MarkRead
<1>5. CASE Stamp(t)         BY <1>5 DEF Stamp
<1>6. QED BY <1>1, <1>2, <1>3, <1>4, <1>5 DEF OutboxStep

LEMMA EntryStepExcludes ==
  ASSUME IInv, Exclusive, NEW c \in Consumer, EntryStep(c)
  PROVE  Exclusive'
<1>1. pc[c] # "idle" => Target(c) \in Url /\ job[c] \in Entry
  BY DEF IInv, JobInv, Busy, Target, Task
<1> USE <1>1 DEF IInv, TypeOK, Exclusive, LeaderActs, Target, HoldsLock, Task,
            Goto, SetRow, miniflux, outbox, files, locks, cycle, bounds
<1>2. CASE Take(c)            BY <1>2 DEF Take
<1>3. CASE LockUrl(c)         BY <1>3 DEF LockUrl
<1>4. CASE Dedup(c)           BY <1>4 DEF Dedup
<1>5. CASE Inspect(c)         BY <1>5 DEF Inspect
<1>6. CASE DupMarkRead(c)     BY <1>6 DEF DupMarkRead
<1>7. CASE Classify(c)        BY <1>7 DEF Classify
<1>8. CASE Commit(c)          BY <1>8, CommitExcludes DEF Commit
<1>9. CASE SelectOutboxRow(c) BY <1>9 DEF SelectOutboxRow
<1>10. CASE Claim(c)          BY <1>10, ClaimExcludes DEF Claim
<1>11. CASE Release(c)
  <2>1. /\ UNCHANGED <<status, leader, drops>>
        /\ pc[c] = "release" /\ pc' = [pc EXCEPT ![c] = "idle"]
        /\ job' = [job EXCEPT ![c] = None]
        /\ urlLock' = [u \in Url |-> IF urlLock[u] = c THEN None ELSE urlLock[u]]
    BY <1>11 DEF Release
  <2>2. \A d \in Consumer : pc'[d] \notin {"idle", "lock"} => HoldsLock(d)'
    <3>1. SUFFICES ASSUME NEW d \in Consumer, pc'[d] \notin {"idle", "lock"}
                   PROVE  HoldsLock(d)'
      OBVIOUS
    <3>2. d # c /\ pc'[d] = pc[d] /\ Target(d)' = Target(d) /\ HoldsLock(d)
      BY <2>1, <3>1
    <3>3. Target(d) \in Url
      BY <3>1, <3>2 DEF JobInv, Busy
    <3>4. QED BY <2>1, <3>2, <3>3
  <2>3. LeaderActs'
    BY <2>1
  <2>4. \A d \in Consumer : pc'[d] # "idle" => pc'[Owner[d]] = "consume"
    BY <2>1
  <2>5. \A t \in Task : pc'[t] \in {"write", "fail", "complete"}
                          => status'[Target(t)'] # "completed"
    BY <2>1
  <2>6. QED BY <2>1, <2>2, <2>3, <2>4, <2>5
<1>12. QED
  BY <1>2, <1>3, <1>4, <1>5, <1>6, <1>7, <1>8, <1>9, <1>10, <1>11
  DEF EntryStep

LEMMA FailureExcludes ==
  ASSUME IInv, Exclusive, NEW t \in Task, Failure(t)
  PROVE  Exclusive'
<1> USE DEF IInv, TypeOK, Exclusive, LeaderActs, Target, HoldsLock, Task, Goto,
            Return, miniflux, outbox, files, locks, cycle, bounds
<1>1. CASE t \in Worker /\ FetchCut(t)
  BY <1>1 DEF FetchCut, Hand, Unread
<1>2. CASE t \in Worker /\ FetchFails(t)
  BY <1>2 DEF FetchFails, SkipFetch
<1>3. CASE t \in Consumer /\ LockFails(t)
  BY <1>3 DEF LockFails
<1>4. CASE t \in Consumer /\ ClassifyFails(t)
  BY <1>4 DEF ClassifyFails
<1>5. CASE t \in Consumer /\ DupMarkReadFails(t)
  BY <1>5 DEF DupMarkReadFails
<1>6. CASE WriteFails(t)        BY <1>6 DEF WriteFails
<1>7. CASE MarkReadSwallowed(t) BY <1>7 DEF MarkReadSwallowed
<1>8. CASE MarkReadRaises(t)    BY <1>8 DEF MarkReadRaises
<1>9. CASE DbError(t)           BY <1>9 DEF DbError, Raise
<1>10. CASE LateDbError(t)
  <2>1. CASE t \in Worker /\ ResetStaleTo(t, Raise(t))
    BY <2>1 DEF ResetStaleTo, Raise
  <2>2. CASE \/ t \in Worker /\ ReconcileRowTo(t, Raise(t))
             \/ t \in Consumer /\ ClaimTo(t, Raise(t))
             \/ t \in Consumer /\ CommitTo(t, Raise(t))
             \/ MarkFailedTo(t, Raise(t)) \/ MarkCompletedTo(t, Raise(t))
    BY <2>2, ReconcileRowExcludes, ClaimExcludes, CommitExcludes,
       MarkRowExcludes DEF Raise
  <2>3. QED BY <1>10, <2>1, <2>2 DEF LateDbError
<1>11. QED
  BY <1>1, <1>2, <1>3, <1>4, <1>5, <1>6, <1>7, <1>8, <1>9, <1>10 DEF Failure

LEMMA EnvironmentExcludes ==
  ASSUME MaxDrops = 0, IInv, Exclusive, Environment
  PROVE  Exclusive'
<1> USE DEF IInv, TypeOK, Exclusive, LeaderActs, Target, HoldsLock, Task,
            miniflux, outbox, files, locks, cycle, bounds
<1>1. ASSUME NEW w \in Worker, DropLeadership(w) PROVE FALSE
  BY <1>1 DEF DropLeadership
<1>2. ASSUME NEW c \in Consumer, DropUrlLock(c) PROVE FALSE
  BY <1>2 DEF DropUrlLock
<1>3. ASSUME NEW e \in Entry, Arrive(e) PROVE Exclusive'
  BY <1>3 DEF Arrive
<1>4. ASSUME NEW e \in Entry, Expire(e) PROVE Exclusive'
  BY <1>4 DEF Expire
<1>5. ASSUME NEW u \in Url, ZombieWrite(u) PROVE Exclusive'
  BY <1>5 DEF ZombieWrite
<1>6. ASSUME NEW u \in Url, GrowStale(u) PROVE Exclusive'
  BY <1>6 DEF GrowStale
<1>7. ASSUME NEW w \in Worker, Stop(w) PROVE Exclusive'
  <2>1. /\ UNCHANGED <<status, drops>>
        /\ leader' = IF leader = w THEN None ELSE leader
        /\ urlLock' = [u \in Url |-> IF urlLock[u] \in ConsumersOf(w)
                                     THEN None ELSE urlLock[u]]
    BY <1>7 DEF Stop
  <2>2. \A t \in Task \ TasksOf(w) : pc'[t] = pc[t] /\ Target(t)' = Target(t)
    BY <1>7 DEF Stop, TasksOf
  <2>3. pc'[w] = "down" /\ \A c \in ConsumersOf(w) : pc'[c] = "idle"
    BY <1>7 DEF Stop, ConsumersOf
  <2>4. LeaderActs'
    BY <2>1, <2>2, <2>3 DEF TasksOf, ConsumersOf
  <2>5. \A d \in Consumer : pc'[d] \notin {"idle", "lock"} => HoldsLock(d)'
    <3>1. SUFFICES ASSUME NEW d \in Consumer, pc'[d] \notin {"idle", "lock"}
                   PROVE  HoldsLock(d)'
      OBVIOUS
    <3>2. d \notin ConsumersOf(w) /\ pc'[d] = pc[d] /\ Target(d)' = Target(d)
      BY <2>2, <2>3, <3>1 DEF TasksOf
    <3>3. HoldsLock(d) /\ Target(d) \in Url
      BY <3>1, <3>2 DEF JobInv, Busy
    <3>4. QED BY <2>1, <3>2, <3>3
  <2>6. \A d \in Consumer : pc'[d] # "idle" => pc'[Owner[d]] = "consume"
    BY <2>2, <2>3 DEF TasksOf, ConsumersOf
  <2>7. \A t \in Task : pc'[t] \in {"write", "fail", "complete"}
                          => status'[Target(t)'] # "completed"
    BY SMTT(30), <2>1, <2>2, <2>3 DEF TasksOf
  <2>8. QED BY <2>1, <2>4, <2>5, <2>6, <2>7
<1>8. QED
  BY <1>1, <1>2, <1>3, <1>4, <1>5, <1>6, <1>7 DEF Environment

LEMMA StepExcludes ==
  MaxDrops = 0 /\ IInv /\ Exclusive /\ [Next]_vars => Exclusive'
<1> SUFFICES ASSUME MaxDrops = 0, IInv, Exclusive, [Next]_vars
             PROVE  Exclusive'
  OBVIOUS
<1>1. ASSUME NEW t \in Task, Step(t) PROVE Exclusive'
  BY <1>1, MainStepExcludes, EntryStepExcludes, OutboxStepExcludes DEF Step
<1>2. ASSUME NEW t \in Task, Failure(t) PROVE Exclusive'
  BY <1>2, FailureExcludes
<1>3. CASE Environment
  BY <1>3, EnvironmentExcludes
<1>4. CASE UNCHANGED vars
  BY <1>4 DEF vars, miniflux, outbox, files, locks, cycle, bounds, Exclusive,
              LeaderActs, HoldsLock, Target
<1>5. QED BY <1>1, <1>2, <1>3, <1>4 DEF Next
-----------------------------------------------------------------------------
\* The locks are where the code relies on them, as long as no session drops.
THEOREM Exclusion == ASSUME MaxDrops = 0 PROVE Spec => []Exclusive
<1>1. Init => Exclusive
  BY DEF Init, Exclusive, LeaderActs, Task
<1>2. IInv /\ Exclusive /\ [Next]_vars => Exclusive'
  BY StepExcludes
<1>3. QED BY <1>1, <1>2, Invariance, PTL DEF Spec

\* Only the holder of the leadership lock runs the pipeline, across any
\* number of crashes and takeovers, when no session is lost in use.
THEOREM SingleLeader == ASSUME MaxDrops = 0 PROVE Spec => []LeaderActs
<1>1. Exclusive => LeaderActs
  BY DEF Exclusive
<1>2. QED BY <1>1, Exclusion, PTL

\* No article is classified by two consumers at the same time.
THEOREM SingleClassification == ASSUME MaxDrops = 0 PROVE Spec => []SingleFlight
<1>1. QED BY ClassifiesAlone, Exclusion, PTL

\* No article is projected by two tasks at the same time, be it two
\* consumers, or a consumer and the reconcile of its own or another worker.
THEOREM SingleProjection == ASSUME MaxDrops = 0 PROVE Spec => []OneProjector
<1>1. QED BY ProjectsAlone, Invariance, Exclusion, PTL

\* The step of CompletionIsFinal.
Final == \A u \in Url : status[u] = "completed" =>
           /\ status'[u] = "completed"
           /\ markedAt[u] => markedAt'[u]

\* A completed row is never reopened nor its mark-read erased, although
\* _mark_failed and _mark_completed update the row whatever its status.
THEOREM CompletionStands == ASSUME MaxDrops = 0 PROVE Spec => CompletionIsFinal
<1>1. ASSUME IInv, Exclusive, [Next]_vars PROVE [Final]_vars
  <2> USE <1>1 DEF IInv, TypeOK, Exclusive, Final, Goto, SetRow, Task,
                   miniflux, outbox, files, locks, cycle, bounds
  <2>1. ASSUME NEW w \in Worker, MainStep(w) PROVE Final
    BY <2>1 DEF MainStep, Boot, Elect, ResetStale, ResetStaleTo, SelectRows,
       SelectMarks, ReconcileRow, ReconcileRowTo, ClaimRow, RetryMark,
       Reconciled, Fetch, FetchEmpty, Hand, SkipFetch, Join, Wake
  <2>2. ASSUME NEW t \in Task, OutboxStep(t) PROVE Final
    BY <2>2 DEF OutboxStep, WriteVault, MarkFailed, MarkFailedTo,
       MarkCompleted, MarkCompletedTo, MarkRead, Stamp
  <2>3. ASSUME NEW c \in Consumer, EntryStep(c) PROVE Final
    BY <2>3 DEF EntryStep, Take, LockUrl, Dedup, Inspect, DupMarkRead,
       Classify, Commit, CommitTo, SelectOutboxRow, Claim, ClaimTo, ClaimRow,
       Release
  <2>4. ASSUME NEW t \in Task, Failure(t) PROVE Final
    BY <2>4 DEF Failure, FetchCut, FetchFails, Hand, SkipFetch, LockFails,
       ClassifyFails, DupMarkReadFails, WriteFails, MarkReadSwallowed,
       MarkReadRaises, DbError, LateDbError, ResetStaleTo, ReconcileRowTo,
       ClaimTo, ClaimRow, CommitTo, MarkFailedTo, MarkCompletedTo
  <2>5. CASE Environment
    BY <2>5 DEF Environment, Stop, DropLeadership, DropUrlLock, Arrive, Expire,
       ZombieWrite, GrowStale
  <2>6. QED BY <2>1, <2>2, <2>3, <2>4, <2>5 DEF Next, Step
<1>2. QED
  BY <1>1, Invariance, Exclusion, PTL DEF Spec, CompletionIsFinal, Final
=============================================================================
