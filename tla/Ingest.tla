------------------------------- MODULE Ingest -------------------------------
(***************************************************************************)
(* The ingest pipeline of radar-worker: leader election, the reconcile of  *)
(* the outbox, the fetch of unread Miniflux entries, and the consumers     *)
(* that deduplicate, classify, commit and project one entry each           *)
(* (backend/app/worker.py, commit/outbox.py, commit/db_commit.py,          *)
(* extraction/client.py).                                                  *)
(*                                                                         *)
(* Every await at which another task, process or service can act is a      *)
(* boundary between two actions.  A task is a worker's main coroutine (it  *)
(* elects, reconciles, fetches, waits for its consumers) or one of its     *)
(* consumer coroutines; both run process_outbox_row, whose steps are       *)
(* therefore parameterised by the task.                                    *)
(*                                                                         *)
(* Abstractions: an article is its URL; the classification returns some    *)
(* article or raises; the file and the outbox row of an article are named  *)
(* by its URL; LIMIT 200 of the reconcile queries is not reached; the      *)
(* queue between the main coroutine and the consumers is the set of        *)
(* entries not taken yet; time appears as the facts "the row has been      *)
(* writing for too long" and "the entry left the 48h window".              *)
(***************************************************************************)
EXTENDS Naturals

CONSTANTS
  Entry,        \* Miniflux entry ids
  Url,          \* normalised source URLs
  UrlOf,        \* the URL of an entry: two feeds may announce one URL
  Worker,       \* worker processes
  Consumer,     \* consumer coroutines of all the workers
  Owner,        \* the worker a consumer belongs to
  None,         \* no entry, no lock holder
  MaxStops,     \* bound: crashes and terminations of workers
  MaxDrops      \* bound: database sessions that are lost while in use

ASSUME IngestAssumption ==
  /\ UrlOf \in [Entry -> Url]
  /\ Owner \in [Consumer -> Worker]
  /\ Worker \cap Consumer = {}
  /\ None \notin Entry \cup Worker \cup Consumer
  /\ MaxStops \in Nat
  /\ MaxDrops \in Nat

VARIABLES
  feed,         \* Miniflux: an entry is absent, unread or read
  expired,      \* Miniflux: entries published more than 48h ago
  article,      \* table articles: the source URLs present
  status,       \* table article_outbox: status of the row of an article
  entryId,      \* table article_outbox: miniflux_entry_id
  markedAt,     \* table article_outbox: miniflux_marked_at is not NULL
  stale,        \* rows in writing since OUTBOX_STALE_WRITING_SECONDS
  vault,        \* URLs whose Markdown file is in the Vault
  zombie,       \* Vault writes a cancelled task left running in its thread
  leader,       \* holder of the leadership advisory lock
  urlLock,      \* holder of the advisory lock of a URL
  pc,           \* the await a task has reached
  job,          \* the entry a task works for
  todoRows,     \* reconcile: rows selected as pending or failed
  todoMarks,    \* reconcile: rows selected as completed and not marked
  batch,        \* fetched entries no consumer has taken yet
  stops, drops  \* what the bounds count

miniflux == <<feed, expired>>
outbox   == <<status, entryId, markedAt, stale>>
files    == <<vault, zombie>>
locks    == <<leader, urlLock>>
cycle    == <<todoRows, todoMarks, batch>>
bounds   == <<stops, drops>>
vars     == <<miniflux, article, outbox, files, locks, pc, job, cycle, bounds>>

Task == Worker \cup Consumer

RowStatus  == {"none", "pending", "writing", "completed", "failed"}
OutboxPC   == {"write", "fail", "complete", "mark", "stamp"}
MainPC     == {"down", "elect", "reset", "selectRows", "selectMarks",
               "reconcile", "fetch", "consume", "sleep"} \cup OutboxPC
ConsumerPC == {"idle", "lock", "dedup", "inspect", "dupmark", "classify",
               "commit", "select", "claim", "release"} \cup OutboxPC

TypeOK ==
  /\ feed \in [Entry -> {"absent", "unread", "read"}]
  /\ expired \in SUBSET Entry
  /\ article \in SUBSET Url
  /\ status \in [Url -> RowStatus]
  /\ entryId \in [Url -> Entry \cup {None}]
  /\ markedAt \in [Url -> BOOLEAN]
  /\ stale \in SUBSET Url
  /\ vault \in SUBSET Url
  /\ zombie \in SUBSET Url
  /\ leader \in Worker \cup {None}
  /\ urlLock \in [Url -> Consumer \cup {None}]
  /\ pc \in [Task -> MainPC \cup ConsumerPC]
  /\ \A w \in Worker : pc[w] \in MainPC
  /\ \A c \in Consumer : pc[c] \in ConsumerPC
  /\ job \in [Task -> Entry \cup {None}]
  /\ todoRows \in [Worker -> SUBSET Url]
  /\ todoMarks \in [Worker -> SUBSET Url]
  /\ batch \in [Worker -> SUBSET Entry]
  /\ stops \in 0..MaxStops
  /\ drops \in 0..MaxDrops

\* Articles of versions before migration 002 have no outbox row; their file
\* may be missing.
Init ==
  /\ feed = [e \in Entry |-> "absent"]
  /\ expired = {}
  /\ article \in SUBSET Url
  /\ status = [u \in Url |-> "none"]
  /\ entryId = [u \in Url |-> None]
  /\ markedAt = [u \in Url |-> FALSE]
  /\ stale = {}
  /\ vault \in SUBSET article
  /\ zombie = {}
  /\ leader = None
  /\ urlLock = [u \in Url |-> None]
  /\ pc = [t \in Task |-> IF t \in Worker THEN "down" ELSE "idle"]
  /\ job = [t \in Task |-> None]
  /\ todoRows = [w \in Worker |-> {}]
  /\ todoMarks = [w \in Worker |-> {}]
  /\ batch = [w \in Worker |-> {}]
  /\ stops = 0
  /\ drops = 0

-----------------------------------------------------------------------------
(* Helpers *)

Goto(t, from, to) == /\ pc[t] = from
                     /\ pc' = [pc EXCEPT ![t] = to]

\* The article a task works on.
Target(t) == UrlOf[job[t]]

\* The session that took the URL lock is the one the consumer keeps using:
\* it is alive as long as the server shows the consumer as the holder.
HoldsLock(c) == urlLock[Target(c)] = c

\* Mutant of Return: the reconcile takes the way out of a consumer.
ReturnAsConsumer(t) == "release"

\* Where process_outbox_row returns to.
Return(t) == IF t \in Worker THEN "reconcile" ELSE "release"

\* Where an error of the database leads: a consumer gives its entry up, the
\* main coroutine its cycle.
Raise(t) == IF t \in Worker THEN "sleep" ELSE "release"

ConsumersOf(w) == {c \in Consumer : Owner[c] = w}
TasksOf(w)     == {w} \cup ConsumersOf(w)

\* Every UPDATE of an outbox row sets updated_at.
SetRow(u, s) == /\ status' = [status EXCEPT ![u] = s]
                /\ stale' = stale \ {u}

-----------------------------------------------------------------------------
(* The main coroutine: run_worker, run_pipeline_loop, run_pipeline_cycle *)

\* Pool, migrations, Vault directories, clients, then the lock connection.
Boot(w) ==
  /\ Goto(w, "down", "elect")
  /\ UNCHANGED <<miniflux, article, outbox, files, locks, job, cycle, bounds>>

\* Mutant of Elect: the result of pg_try_advisory_lock is not looked at.
ElectAnyway(w) ==
  /\ Goto(w, "elect", "reset")
  /\ leader' = w
  /\ UNCHANGED <<miniflux, article, outbox, files, urlLock, job, cycle, bounds>>

\* pg_try_advisory_lock succeeds; while it fails the process sleeps and
\* retries.  Heartbeat and pipeline start right after.
Elect(w) ==
  /\ leader = None
  /\ Goto(w, "elect", "reset")
  /\ leader' = w
  /\ UNCHANGED <<miniflux, article, outbox, files, urlLock, job, cycle, bounds>>

\* Mutant of ResetStale: rows left in writing by a crash stay there.
ResetNothing(w) ==
  /\ Goto(w, "reset", "selectRows")
  /\ UNCHANGED <<miniflux, article, outbox, files, locks, job, cycle, bounds>>

\* _reset_stale_writing
ResetStaleTo(w, next) ==
  /\ Goto(w, "reset", next)
  /\ status' = [u \in Url |-> IF u \in stale /\ status[u] = "writing"
                              THEN "pending" ELSE status[u]]
  /\ stale' = {}
  /\ UNCHANGED <<miniflux, article, entryId, markedAt, files, locks, job,
                 cycle, bounds>>

ResetStale(w) == ResetStaleTo(w, "selectRows")

\* Mutant of SelectRows: the failed rows are not selected again.
SelectPendingRows(w) ==
  /\ Goto(w, "selectRows", "selectMarks")
  /\ todoRows' = [todoRows EXCEPT ![w] = {u \in Url : status[u] = "pending"}]
  /\ UNCHANGED <<miniflux, article, outbox, files, locks, job, todoMarks,
                 batch, bounds>>

SelectRows(w) ==
  /\ Goto(w, "selectRows", "selectMarks")
  /\ todoRows' = [todoRows EXCEPT ![w] =
                    {u \in Url : status[u] \in {"pending", "failed"}}]
  /\ UNCHANGED <<miniflux, article, outbox, files, locks, job, todoMarks,
                 batch, bounds>>

\* Mutant of SelectMarks: the condition on the status is missing.
SelectUnmarked(w) ==
  /\ Goto(w, "selectMarks", "reconcile")
  /\ todoMarks' = [todoMarks EXCEPT ![w] =
                     {u \in Url : status[u] # "none" /\ ~markedAt[u]}]
  /\ UNCHANGED <<miniflux, article, outbox, files, locks, job, todoRows,
                 batch, bounds>>

SelectMarks(w) ==
  /\ Goto(w, "selectMarks", "reconcile")
  /\ todoMarks' = [todoMarks EXCEPT ![w] =
                     {u \in Url : status[u] = "completed" /\ ~markedAt[u]}]
  /\ UNCHANGED <<miniflux, article, outbox, files, locks, job, todoRows,
                 batch, bounds>>

\* The loop over the completed rows: the retry of mark-read.
RetryMark(w) ==
  /\ todoRows[w] = {}
  /\ \E u \in todoMarks[w] :
       /\ todoMarks' = [todoMarks EXCEPT ![w] = @ \ {u}]
       /\ job' = [job EXCEPT ![w] = entryId[u]]
  /\ Goto(w, "reconcile", "mark")
  /\ UNCHANGED <<miniflux, article, outbox, files, locks, todoRows, batch,
                 bounds>>

Reconciled(w) ==
  /\ todoRows[w] = {} /\ todoMarks[w] = {}
  /\ Goto(w, "reconcile", "fetch")
  /\ UNCHANGED <<miniflux, article, outbox, files, locks, job, cycle, bounds>>

\* What a GET of the unread entries of the last 48h returns.
Unread == {e \in Entry : feed[e] = "unread" /\ e \notin expired}

Hand(w, S) ==
  /\ Goto(w, "fetch", "consume")
  /\ batch' = [batch EXCEPT ![w] = S]
  /\ UNCHANGED <<miniflux, article, outbox, files, locks, job, todoRows,
                 todoMarks, bounds>>

Fetch(w) == Unread # {} /\ Hand(w, Unread)

\* The batch is cut by MINIFLUX_LIMIT, by entries that do not validate, or by
\* the soft trim on the daily requests left.
FetchCut(w) == \E S \in SUBSET Unread : S \notin {{}, Unread} /\ Hand(w, S)

SkipFetch(w) ==
  /\ Goto(w, "fetch", "sleep")
  /\ UNCHANGED <<miniflux, article, outbox, files, locks, job, cycle, bounds>>

FetchEmpty(w) == Unread = {} /\ SkipFetch(w)

\* The GET failed, the ledger query failed, or the daily requests are used up
\* (the cycle hibernates).
FetchFails(w) == Unread # {} /\ SkipFetch(w)

\* Mutant of Join: the cycle ends when the queue is empty, not when its
\* entries are done.
JoinEmptyQueue(w) ==
  /\ batch[w] = {}
  /\ Goto(w, "consume", "sleep")
  /\ UNCHANGED <<miniflux, article, outbox, files, locks, job, cycle, bounds>>

\* queue.join returns; the idle consumers are cancelled.
Join(w) ==
  /\ batch[w] = {}
  /\ \A c \in ConsumersOf(w) : pc[c] = "idle"
  /\ Goto(w, "consume", "sleep")
  /\ UNCHANGED <<miniflux, article, outbox, files, locks, job, cycle, bounds>>

Wake(w) ==
  /\ Goto(w, "sleep", "reset")
  /\ UNCHANGED <<miniflux, article, outbox, files, locks, job, cycle, bounds>>

-----------------------------------------------------------------------------
(* process_outbox_row, by a consumer for its article or by the reconcile *)

\* _claim_row: a row in writing can be claimed again; a completed or absent
\* one cannot, and the function returns.
ClaimRow(t, u, next) ==
  IF status[u] \in {"pending", "failed", "writing"}
  THEN /\ SetRow(u, "writing")
       /\ job' = [job EXCEPT ![t] = entryId[u]]
       /\ pc' = [pc EXCEPT ![t] = next]
  ELSE /\ pc' = [pc EXCEPT ![t] = Return(t)]
       /\ UNCHANGED <<status, stale, job>>

ReconcileRowTo(w, next) ==
  /\ pc[w] = "reconcile"
  /\ \E u \in todoRows[w] : /\ todoRows' = [todoRows EXCEPT ![w] = @ \ {u}]
                            /\ ClaimRow(w, u, next)
  /\ UNCHANGED <<miniflux, article, entryId, markedAt, files, locks,
                 todoMarks, batch, bounds>>

ReconcileRow(w) == ReconcileRowTo(w, "write")

ClaimTo(c, next) ==
  /\ pc[c] = "claim"
  /\ ClaimRow(c, Target(c), next)
  /\ UNCHANGED <<miniflux, article, entryId, markedAt, files, locks, cycle,
                 bounds>>

Claim(c) == ClaimTo(c, "write")

\* write_file_with_lock: temporary file, fsync, os.replace.
WriteVault(t) ==
  /\ Goto(t, "write", "complete")
  /\ vault' = vault \cup {Target(t)}
  /\ UNCHANGED <<miniflux, article, outbox, zombie, locks, job, cycle, bounds>>

\* Mutant of WriteFails: the failed write is taken for a success.
WriteFailsUnseen(t) ==
  /\ Goto(t, "write", "complete")
  /\ UNCHANGED <<miniflux, article, outbox, files, locks, job, cycle, bounds>>

\* Checksum mismatch, I/O error, or the file lock was not free for 10s.
WriteFails(t) ==
  /\ Goto(t, "write", "fail")
  /\ UNCHANGED <<miniflux, article, outbox, files, locks, job, cycle, bounds>>

\* _mark_failed, whatever the status is by now.
MarkFailedTo(t, next) ==
  /\ Goto(t, "fail", next)
  /\ SetRow(Target(t), "failed")
  /\ UNCHANGED <<miniflux, article, entryId, markedAt, files, locks, job,
                 cycle, bounds>>

MarkFailed(t) == MarkFailedTo(t, Return(t))

\* _mark_completed, whatever the status is by now.
MarkCompletedTo(t, next) ==
  /\ Goto(t, "complete", next)
  /\ SetRow(Target(t), "completed")
  /\ markedAt' = [markedAt EXCEPT ![Target(t)] = FALSE]
  /\ UNCHANGED <<miniflux, article, entryId, files, locks, job, cycle, bounds>>

MarkCompleted(t) == MarkCompletedTo(t, "mark")

\* mark_as_read: the PUT reaches Miniflux.
MarkRead(t) ==
  /\ Goto(t, "mark", "stamp")
  /\ feed' = [feed EXCEPT ![job[t]] = "read"]
  /\ UNCHANGED <<expired, article, outbox, files, locks, job, cycle, bounds>>

\* mark_as_read: every attempt ended in an httpx.HTTPError.  It is logged
\* and swallowed: the caller cannot tell it from a success.
MarkReadSwallowed(t) ==
  /\ Goto(t, "mark", "stamp")
  /\ UNCHANGED <<miniflux, article, outbox, files, locks, job, cycle, bounds>>

\* mark_as_read raised something else (a response over the size limit, a
\* closed client), before or after the PUT took effect.
MarkReadRaises(t) ==
  /\ Goto(t, "mark", Return(t))
  /\ feed' \in {feed, [feed EXCEPT ![job[t]] = "read"]}
  /\ UNCHANGED <<expired, article, outbox, files, locks, job, cycle, bounds>>

\* _update_miniflux_marked_at
Stamp(t) ==
  /\ Goto(t, "stamp", Return(t))
  /\ markedAt' = [markedAt EXCEPT ![Target(t)] = TRUE]
  /\ stale' = stale \ {Target(t)}
  /\ UNCHANGED <<miniflux, article, status, entryId, files, locks, job, cycle,
                 bounds>>

-----------------------------------------------------------------------------
(* The consumers: _entry_consumer and process_single_entry *)

Take(c) ==
  LET w == Owner[c] IN
  /\ pc[w] = "consume"
  /\ Goto(c, "idle", "lock")
  /\ \E e \in batch[w] : /\ batch' = [batch EXCEPT ![w] = @ \ {e}]
                         /\ job' = [job EXCEPT ![c] = e]
  /\ UNCHANGED <<miniflux, article, outbox, files, locks, todoRows, todoMarks,
                 bounds>>

\* Mutant of LockUrl: the lock is tried and not waited for.
LockUrlAnyway(c) ==
  /\ Goto(c, "lock", "dedup")
  /\ urlLock' = [urlLock EXCEPT ![Target(c)] = c]
  /\ UNCHANGED <<miniflux, article, outbox, files, leader, job, cycle, bounds>>

\* pg_advisory_lock blocks until the lock of the URL is free ...
LockUrl(c) ==
  /\ Goto(c, "lock", "dedup")
  /\ urlLock[Target(c)] = None
  /\ urlLock' = [urlLock EXCEPT ![Target(c)] = c]
  /\ UNCHANGED <<miniflux, article, outbox, files, leader, job, cycle, bounds>>

\* ... or until the 60s command_timeout of the pool, or another error.
LockFails(c) ==
  /\ Goto(c, "lock", "idle")
  /\ job' = [job EXCEPT ![c] = None]
  /\ UNCHANGED <<miniflux, article, outbox, files, locks, cycle, bounds>>

\* Mutant of Dedup: an article is known by its file, not by its row.
DedupByFile(c) ==
  /\ Goto(c, "dedup", IF Target(c) \in vault THEN "inspect" ELSE "classify")
  /\ HoldsLock(c)
  /\ UNCHANGED <<miniflux, article, outbox, files, locks, job, cycle, bounds>>

\* is_article_duplicate
Dedup(c) ==
  /\ Goto(c, "dedup", IF Target(c) \in article THEN "inspect" ELSE "classify")
  /\ HoldsLock(c)
  /\ UNCHANGED <<miniflux, article, outbox, files, locks, job, cycle, bounds>>

\* Mutant of Inspect: every duplicate is acknowledged.
InspectBlind(c) ==
  /\ Goto(c, "inspect", "dupmark")
  /\ HoldsLock(c)
  /\ UNCHANGED <<miniflux, article, outbox, files, locks, job, cycle, bounds>>

\* A duplicate is acknowledged when its row is completed or, without a row,
\* when its file is in the Vault.
Inspect(c) ==
  LET u == Target(c)
      ackable == \/ status[u] = "completed"
                 \/ status[u] = "none" /\ u \in article \cap vault
  IN
  /\ Goto(c, "inspect", IF ackable THEN "dupmark" ELSE "release")
  /\ HoldsLock(c)
  /\ UNCHANGED <<miniflux, article, outbox, files, locks, job, cycle, bounds>>

DupMarkRead(c) ==
  /\ Goto(c, "dupmark", "release")
  /\ feed' = [feed EXCEPT ![job[c]] = "read"]
  /\ UNCHANGED <<expired, article, outbox, files, locks, job, cycle, bounds>>

DupMarkReadFails(c) ==
  /\ Goto(c, "dupmark", "release")
  /\ UNCHANGED <<miniflux, article, outbox, files, locks, job, cycle, bounds>>

\* classify_article returns an article of a model or the fallback article.
Classify(c) ==
  /\ Goto(c, "classify", "commit")
  /\ UNCHANGED <<miniflux, article, outbox, files, locks, job, cycle, bounds>>

\* classify_article, the Markdown or the path computation raises.
ClassifyFails(c) ==
  /\ Goto(c, "classify", "release")
  /\ UNCHANGED <<miniflux, article, outbox, files, locks, job, cycle, bounds>>

\* Mutant of Commit: on a fresh connection, so without the URL lock.
CommitUnlocked(c) ==
  LET u == Target(c) IN
  /\ Goto(c, "commit", "select")
  /\ article' = article \cup {u}
  /\ SetRow(u, IF status[u] = "completed" THEN "completed" ELSE "pending")
  /\ markedAt' = [markedAt EXCEPT ![u] = status[u] = "completed" /\ @]
  /\ entryId' = [entryId EXCEPT ![u] = job[c]]
  /\ UNCHANGED <<miniflux, files, locks, job, cycle, bounds>>

\* commit_article_to_db and enqueue_outbox_row, one transaction on the
\* connection that holds the URL lock.
CommitTo(c, next) ==
  LET u == Target(c) IN
  /\ Goto(c, "commit", next)
  /\ HoldsLock(c)
  /\ article' = article \cup {u}
  /\ SetRow(u, IF status[u] = "completed" THEN "completed" ELSE "pending")
  /\ markedAt' = [markedAt EXCEPT ![u] = status[u] = "completed" /\ @]
  /\ entryId' = [entryId EXCEPT ![u] = job[c]]
  /\ UNCHANGED <<miniflux, files, locks, job, cycle, bounds>>

Commit(c) == CommitTo(c, "select")

SelectOutboxRow(c) ==
  /\ Goto(c, "select", IF status[Target(c)] \in {"pending", "failed"}
                       THEN "claim" ELSE "release")
  /\ HoldsLock(c)
  /\ UNCHANGED <<miniflux, article, outbox, files, locks, job, cycle, bounds>>

\* pg_advisory_unlock (or the reset of the pooled connection), task_done.
Release(c) ==
  /\ Goto(c, "release", "idle")
  /\ urlLock' = [u \in Url |-> IF urlLock[u] = c THEN None ELSE urlLock[u]]
  /\ job' = [job EXCEPT ![c] = None]
  /\ UNCHANGED <<miniflux, article, outbox, files, leader, cycle, bounds>>

-----------------------------------------------------------------------------
(* Failures and the environment *)

\* A database call raises and had no effect.  Around the last UPDATE the
\* exception is caught.
DbError(t) ==
  /\ \/ /\ t \in Consumer
        /\ pc[t] \in {"dedup", "inspect", "commit", "select", "claim", "fail",
                      "complete", "stamp"}
        /\ pc' = [pc EXCEPT ![t] = Raise(t)]
        /\ UNCHANGED cycle
     \/ /\ t \in Worker
        /\ pc[t] \in {"reset", "selectRows", "selectMarks", "reconcile", "fail",
                      "complete"}
        /\ pc[t] = "reconcile" => todoRows[t] # {}
        /\ pc' = [pc EXCEPT ![t] = Raise(t)]
        /\ todoRows' = [todoRows EXCEPT ![t] = {}]
        /\ todoMarks' = [todoMarks EXCEPT ![t] = {}]
        /\ UNCHANGED batch
     \/ /\ t \in Worker
        /\ Goto(t, "stamp", "reconcile")
        /\ UNCHANGED cycle
  /\ UNCHANGED <<miniflux, article, outbox, files, locks, job, bounds>>

\* A database call took effect and raises all the same: the connection broke,
\* or the command timed out, between the commit and its answer.  What a
\* worker has selected is overwritten before it is read again.
LateDbError(t) ==
  \/ /\ t \in Worker
     /\ ResetStaleTo(t, Raise(t)) \/ ReconcileRowTo(t, Raise(t))
  \/ /\ t \in Consumer
     /\ CommitTo(t, Raise(t)) \/ ClaimTo(t, Raise(t))
  \/ MarkFailedTo(t, Raise(t))
  \/ MarkCompletedTo(t, Raise(t))

\* SIGKILL, or SIGTERM and the orderly shutdown: the tasks are gone, their
\* sessions and so their locks too.  After a SIGTERM the threads of the
\* interrupted writes outlive their tasks and the leadership.
Stop(w) ==
  /\ pc[w] # "down"
  /\ stops < MaxStops
  /\ stops' = stops + 1
  /\ \E Z \in SUBSET {Target(t) : t \in {s \in TasksOf(w) : pc[s] = "write"}} :
       zombie' = zombie \cup Z
  /\ pc' = [t \in Task |-> IF t = w THEN "down"
                           ELSE IF t \in ConsumersOf(w) THEN "idle" ELSE pc[t]]
  /\ job' = [t \in Task |-> IF t \in TasksOf(w) THEN None ELSE job[t]]
  /\ leader' = IF leader = w THEN None ELSE leader
  /\ urlLock' = [u \in Url |-> IF urlLock[u] \in ConsumersOf(w)
                               THEN None ELSE urlLock[u]]
  /\ todoRows' = [todoRows EXCEPT ![w] = {}]
  /\ todoMarks' = [todoMarks EXCEPT ![w] = {}]
  /\ batch' = [batch EXCEPT ![w] = {}]
  /\ UNCHANGED <<miniflux, article, outbox, vault, drops>>

\* A thread left behind ends: with its write, or with an error.
ZombieWrite(u) ==
  /\ u \in zombie
  /\ zombie' = zombie \ {u}
  /\ vault' \in {vault, vault \cup {u}}
  /\ UNCHANGED <<miniflux, article, outbox, locks, pc, job, cycle, bounds>>

\* The session that holds the leadership is lost (a database restart, a
\* network partition).  Nothing in the worker looks at it again.
DropLeadership(w) ==
  /\ leader = w
  /\ drops < MaxDrops
  /\ drops' = drops + 1
  /\ leader' = None
  /\ UNCHANGED <<miniflux, article, outbox, files, urlLock, pc, job, cycle,
                 stops>>

\* The session that holds a URL lock is lost while its consumer waits for a
\* provider or for the file system.
DropUrlLock(c) ==
  /\ \E u \in Url : /\ urlLock[u] = c
                    /\ urlLock' = [urlLock EXCEPT ![u] = None]
  /\ drops < MaxDrops
  /\ drops' = drops + 1
  /\ UNCHANGED <<miniflux, article, outbox, files, leader, pc, job, cycle,
                 stops>>

Arrive(e) ==
  /\ feed[e] = "absent"
  /\ feed' = [feed EXCEPT ![e] = "unread"]
  /\ UNCHANGED <<expired, article, outbox, files, locks, pc, job, cycle, bounds>>

\* The entry leaves the 48h window of the fetch.
Expire(e) ==
  /\ feed[e] = "unread" /\ e \notin expired
  /\ expired' = expired \cup {e}
  /\ UNCHANGED <<feed, article, outbox, files, locks, pc, job, cycle, bounds>>

\* A row has been in writing for OUTBOX_STALE_WRITING_SECONDS.
GrowStale(u) ==
  /\ status[u] = "writing" /\ u \notin stale
  /\ stale' = stale \cup {u}
  /\ UNCHANGED <<miniflux, article, status, entryId, markedAt, files, locks,
                 pc, job, cycle, bounds>>

-----------------------------------------------------------------------------
(* What a task does next when nothing fails ...                           *)

MainStep(w) ==
  \/ Boot(w) \/ Elect(w) \/ ResetStale(w) \/ SelectRows(w) \/ SelectMarks(w)
  \/ ReconcileRow(w) \/ RetryMark(w) \/ Reconciled(w)
  \/ Fetch(w) \/ FetchEmpty(w) \/ Join(w) \/ Wake(w)

OutboxStep(t) ==
  \/ WriteVault(t) \/ MarkFailed(t) \/ MarkCompleted(t) \/ MarkRead(t)
  \/ Stamp(t)

EntryStep(c) ==
  \/ Take(c) \/ LockUrl(c) \/ Dedup(c) \/ Inspect(c) \/ DupMarkRead(c)
  \/ Classify(c) \/ Commit(c) \/ SelectOutboxRow(c) \/ Claim(c) \/ Release(c)

Step(t) == \/ t \in Worker /\ MainStep(t)
           \/ t \in Consumer /\ EntryStep(t)
           \/ OutboxStep(t)

(* ... and what it does when a call fails.                                 *)
Failure(t) ==
  \/ t \in Worker /\ (FetchCut(t) \/ FetchFails(t))
  \/ t \in Consumer /\ (LockFails(t) \/ ClassifyFails(t) \/ DupMarkReadFails(t))
  \/ WriteFails(t) \/ MarkReadSwallowed(t) \/ MarkReadRaises(t) \/ DbError(t)
  \/ LateDbError(t)

Environment ==
  \/ \E w \in Worker : Stop(w) \/ DropLeadership(w)
  \/ \E c \in Consumer : DropUrlLock(c)
  \/ \E e \in Entry : Arrive(e) \/ Expire(e)
  \/ \E u \in Url : ZombieWrite(u) \/ GrowStale(u)

Next == \/ \E t \in Task : Step(t) \/ Failure(t)
        \/ Environment

Spec == Init /\ [][Next]_vars

-----------------------------------------------------------------------------
(* Fairness.  A started process keeps taking its steps: Compose restarts   *)
(* it, the event loop runs every ready task, the retry loops have no end.  *)
(* Calls do not fail for ever (Calm): from some time on every step of a    *)
(* task is one of those that succeed.  How often they fail before that has *)
(* no bound.                                                               *)

Calm == <>[][\A t \in Task : Failure(t) => Step(t)]_vars

Progress == /\ \A t \in Task : WF_vars(Step(t))
            /\ \A u \in Url : WF_vars(GrowStale(u))

FairSpec == Spec /\ Progress /\ Calm

-----------------------------------------------------------------------------
(* Properties *)

\* The ingest marks an entry read on Miniflux only when the file of its
\* article is in the Vault, through the outbox, the retry of the reconcile
\* and the duplicate path alike (worker.py: "mai mark-read cieco").
ReadIsDurable == \A e \in Entry : feed[e] = "read" => UrlOf[e] \in vault

\* A row says completed only when the article is stored and its file is in
\* the Vault, whatever crashed between the claim, the write and the UPDATE.
CompletedIsDurable ==
  \A u \in Url : status[u] = "completed" => u \in article \cap vault

\* Two consumers, of one worker or of two, never pay for the classification
\* of one article at the same time: the URL lock covers the duplicate check,
\* the classification and the commit.  As long as no session is lost.
SingleFlight ==
  \A c, d \in Consumer :
    /\ pc[c] \in {"classify", "commit"}
    /\ pc[d] \in {"classify", "commit"}
    /\ Target(c) = Target(d)
    => c = d

\* What a consumer classifies and commits under its lock is not stored yet:
\* no second LLM call for a stored article, and the ON CONFLICT branches of
\* the commit never rewrite the row of another attempt.
ClassifiedIsNew ==
  \A c \in Consumer :
    pc[c] \in {"classify", "commit"} /\ HoldsLock(c) => Target(c) \notin article

\* A worker that runs the pipeline holds the leadership lock (heartbeat.py:
\* only the process that holds the advisory lock acts as leader).
LeaderActs == \A w \in Worker : pc[w] \notin {"down", "elect"} => leader = w

\* No two tasks are inside process_outbox_row, or its mark-read retry, for
\* the same article: _mark_completed and _mark_failed have no guard on the
\* status and rely on it.
OneProjector ==
  \A s, t \in Task :
    pc[s] \in OutboxPC /\ pc[t] \in OutboxPC /\ Target(s) = Target(t) => s = t

\* A completed row is never reopened and a recorded mark-read never erased.
CompletionIsFinal ==
  [][\A u \in Url : status[u] = "completed" =>
       /\ status'[u] = "completed"
       /\ markedAt[u] => markedAt'[u]]_vars

\* outbox.py: a failed mark-read leaves miniflux_marked_at NULL for a retry.
MarkedIsRead ==
  \A u \in Url : markedAt[u] => feed[entryId[u]] = "read"

\* Articles of old versions without a row and without a file are skipped for
\* ever (worker.py: legacy duplicate, file missing).
Orphan(u) == u \in article /\ status[u] = "none" /\ u \notin vault

\* Every entry Miniflux offers is acknowledged in the end unless it leaves
\* the window of the fetch first, across restarts, failed writes, provider
\* errors and swallowed mark-reads.
EventuallyRead ==
  \A e \in Entry :
    feed[e] = "unread" /\ ~Orphan(UrlOf[e])
      ~> feed[e] = "read" \/ e \in expired

\* A committed article reaches the Vault even when its entry is gone.
EventuallyProjected ==
  \A u \in Url : status[u] # "none" ~> status[u] = "completed" /\ u \in vault

-----------------------------------------------------------------------------
(* What makes ReadIsDurable, CompletedIsDurable and ClassifiedIsNew          *)
(* inductive: what a task knows of the shared state at each of its awaits.   *)

\* A task that works for an entry knows it.
Busy(t) == \/ pc[t] \in OutboxPC
           \/ t \in Consumer /\ pc[t] # "idle"

JobInv == \A t \in Task : Busy(t) => job[t] \in Entry

\* A row belongs to a stored article and names an entry of it; what a task
\* selected, claimed or committed has a row.
RowInv ==
  /\ \A u \in Url : status[u] # "none" =>
       /\ u \in article
       /\ entryId[u] \in Entry
       /\ UrlOf[entryId[u]] = u
  /\ \A t \in Task : pc[t] \in OutboxPC \cup {"select", "claim"}
                        => status[Target(t)] # "none"
  /\ \A w \in Worker : \A u \in todoRows[w] \cup todoMarks[w] :
       status[u] # "none"

\* The Vault holds articles only, now and after the writes still running.
FileInv == vault \cup zombie \subseteq article

\* After the write, and on every way to a mark-read, the file is there.
DurableInv ==
  /\ \A t \in Task : pc[t] \in {"complete", "mark", "stamp", "dupmark"}
                        => Target(t) \in vault
  /\ \A w \in Worker : todoMarks[w] \subseteq vault

IInv == /\ TypeOK /\ JobInv /\ RowInv /\ FileInv /\ DurableInv
        /\ ClassifiedIsNew /\ CompletedIsDurable /\ ReadIsDurable

\* What makes LeaderActs, SingleFlight, OneProjector and CompletionIsFinal
\* inductive while no session is lost: the locks are held where the code
\* relies on them, consumers run within the consume phase of their worker,
\* and what is being projected is not completed.
Exclusive ==
  /\ drops = 0
  /\ LeaderActs
  /\ \A c \in Consumer : pc[c] \notin {"idle", "lock"} => HoldsLock(c)
  /\ \A c \in Consumer : pc[c] # "idle" => pc[Owner[c]] = "consume"
  /\ \A t \in Task : pc[t] \in {"write", "fail", "complete"}
                       => status[Target(t)] # "completed"

-----------------------------------------------------------------------------
(* The pipeline implements Delivery.  An article is being worked on while a  *)
(* consumer that still holds its lock classifies or commits it.             *)

Working == {Target(c) : c \in {d \in Consumer : /\ pc[d] \in {"classify", "commit"}
                                                /\ HoldsLock(d)}}

Promise == INSTANCE Delivery WITH
             working <- Working,
             stored  <- article,
             durable <- vault,
             read    <- {e \in Entry : feed[e] = "read"}

Delivers == Promise!Spec
=============================================================================
