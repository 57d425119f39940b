# Radar Informativo Globale: TLA+ models and proofs

The program reads news entries from a Miniflux RSS server, has each of them
classified by an LLM, stores the resulting article in PostgreSQL, projects it
as a Markdown file into an Obsidian Vault, and shows the articles on a map.
This directory models the part of it that has concurrency, crashes, locks and
retries, checks the models with TLC and proves the most important properties
with TLAPS.

Paths below are relative to `src/radar/backend/app/` unless they start with
`src/`.

## 1. Inventory

Five services run under Compose: `radar-worker` (ingest), `radar-backend`
(HTTP API, no ingest), `radar-db` (PostgreSQL), `radar-miniflux`, and
`radar-frontend` (Angular behind Nginx).

| Component | State | Operations | Interacts with |
|---|---|---|---|
| Worker pipeline, `worker.py` | leadership lock, queue, consumer tasks, URL locks | elect, run a cycle, hand entries to consumers, process an entry, shut down | everything below |
| Outbox, `commit/outbox.py` | table `article_outbox` | enqueue, claim, complete, fail, stamp, reset stale rows, reconcile | Vault, Miniflux |
| Commit, `commit/db_commit.py` | tables `articles`, `companies`, `tags` and their junctions | one transaction per article | outbox |
| Vault, `commit/lock.py`, `router.py`, `factory.py` | Markdown files | atomic write under a file lock | outbox |
| Miniflux client, `extraction/` | none; the read status of the entries is in Miniflux | fetch unread, mark read, validate | Miniflux |
| Classification router, `classification/client.py` | none of its own | chain of models, attempts, fallback article | quota, cooldown, providers |
| Quota ledger, `classification/quota.py` | table `llm_request_ledger` | reserve, complete, release, fail | router, soft trim of the cycle |
| Cooldown, `classification/cooldown.py` | table `llm_model_cooldown` | set, query | router |
| Heartbeat, `core/heartbeat.py` | one row | upsert by the leader, readiness of the API | worker, API |
| Migrations, `core/migrations.py` | `schema_migrations` | run at the start of API and worker | database |
| API, `main.py`, `api/articles_query.py` | `is_read`, `is_saved` of articles | page, summaries, toggles | frontend |
| Requeue script, `scripts/requeue_articles.py` | none | delete articles, files and cooldowns, reset entries to unread | worker |
| Frontend state, `src/radar/frontend/src/app/` | signals, mutation versions | fetch, optimistic toggles | API |

What is hard in it, and what makes each part correct:

* **Pipeline and outbox.** Several consumer coroutines per worker, a second
  worker process that takes over, and a reconcile loop all work on the same
  rows. Duplicate check, classification (minutes) and commit are separate
  awaits protected by an advisory lock of a URL; claim, file write, completion
  and mark-read are four separate effects in three systems, with a crash
  possible between any two. Correct when: an entry is acknowledged only when
  its file exists; a completed row is true and final; an article is classified
  once; nothing that was offered is forgotten.
* **Leadership.** A session-level advisory lock that is taken once. Correct
  when only its holder acts, which needs the session to live.
* **Quota ledger.** Counting and inserting under one advisory lock by many
  coroutines, over windows of time, while settlements change the counted rows
  without that lock. Correct when no window holds more than its limit and
  every reservation is settled once.
* **Router and cooldown.** Attempts, corrections, residual models and an
  escalation are nested loops with a dozen ways out, each of which has to
  settle its reservation; eligibility is read before waits and used after
  them. Correct when every call has a reservation of its own that is settled
  once, the number of calls is bounded, a model that cools down is not
  called, and every article ends with a result or, as the last resort, the
  fallback.
* **Migrations.** API and worker run them at the same time without a lock, on
  databases of several ages. Correct when whoever gets up finds all of them
  executed, a row means its file was executed, a changed file stops the start,
  and both get up in the end.
* **API and page.** The two flags of an article are toggled by requests whose
  answers, failures and rollbacks come in any order, over a list that is
  reloaded meanwhile, page by page. Correct when the flags stay coupled, the
  pages are complete, what an answer or a page has confirmed is what the table
  holds until it is written again, the page agrees with the table once nothing
  is in flight after a history without the races named in section 3, and a late
  answer does not open what was left.
* **Requeue.** Deletes what the worker may be writing.

`PROJECT.json` lists every component with its status and every hazard with
the line where it bites.

## 2. Plan

The modules fall into four groups that share no state but the database, and
meet only at the interfaces named here:

1. `Delivery`, `Ingest`, `IngestProofs`, `ExclusionProofs`: the pipeline, the
   outbox, the leadership and the URL locks in one module, because their
   properties relate all of them. Classification is one action of it.
2. `QuotaLedger`, `QuotaProofs`; `Reservation`, `Router`, `RouterProofs`: what
   that one action does inside. `Reservation` is the protocol between the two:
   `Router` is shown to implement it, and `QuotaLedger` to keep its limits for
   callers that use it in any way whatever.
3. `Startup`, `StartupProofs`: bootstrap, migrations, heartbeat row and
   readiness, before the others run.
4. `Reader`, `ReaderHistory`, `ReaderProofs`, `SettledProofs`: API and page,
   after the others stored something.

`FiniteSetLemmas` holds the facts about finite sets and sums that the proofs of
the second and the fourth group share.

What is left to do, in this order: the connection pool with the semaphores of
the worker, and the row locks of the junction inserts (two questions about
deadlock); the requeue script beside the steps of `Ingest` for one article;
the order and the limits of the fetch and of the reconcile.

## 3. Modules

### Delivery

The promise, without workers, locks or crashes: an article is worked on by one
consumer at a time, never again once stored; only a stored article is
projected; an entry is acknowledged only when its article is durable. Attempts
may be abandoned.

### Ingest

One action per await. The variables and what they stand for:

| Variable | In the code |
|---|---|
| `feed`, `expired` | Miniflux: status of an entry, and whether `published_after` still admits it |
| `article` | `articles.source_url` |
| `status`, `entryId`, `markedAt` | columns of `article_outbox`; `stale` is "updated_at older than OUTBOX_STALE_WRITING_SECONDS" |
| `vault` | the file of the article exists |
| `zombie` | writes that `asyncio.to_thread` left running after their task was cancelled |
| `leader`, `urlLock` | sessions that hold the advisory locks |
| `pc`, `job` | the await a coroutine is at, and its entry |
| `todoRows`, `todoMarks` | the two result lists of `reconcile_outbox` |
| `batch` | entries in the queue or still to be put into it |
| `stops`, `drops` | count what `MaxStops`, `MaxDrops` bound |

A *task* is the main coroutine of a worker or one of its consumers. Both run
`process_outbox_row`, whose steps (`Claim`/`ReconcileRow`, `WriteVault`,
`WriteFails`, `MarkFailed`, `MarkCompleted`, `MarkRead*`, `Stamp`) therefore
take the task as parameter. The main coroutine adds
`Boot, Elect, ResetStale, SelectRows, SelectMarks, RetryMark, Reconciled,
Fetch*, Join, Wake`, a consumer `Take, LockUrl, Dedup, Inspect, DupMarkRead,
Classify, Commit, SelectOutboxRow, Release`. `Step` collects what a task does
when calls succeed, `Failure` what it does when one fails, `Environment`
crashes, lost sessions, Miniflux and time.

Choices a reader should know:

* The connection that took the URL lock is the one used for the duplicate
  check, the duplicate's row, the commit and the select of the outbox row;
  these steps need `HoldsLock`. A lost session makes them raise (`DbError`).
  The steps of `process_outbox_row` use other connections and do not need it.
* `Stop` is SIGKILL or the whole orderly shutdown: the consumers release their
  URL locks before the leadership is released, and a thread in a file write
  may survive both.
* A failed database call has no effect (`DbError`), or takes effect and raises
  all the same (`LateDbError`: a `command_timeout`, a connection that breaks
  before the answer). The writes are therefore operators with the next await
  as a parameter (`CommitTo`, `ClaimTo`, ...): the call that returns and the
  call that raises late differ in it only. A mark-read that raises may have
  taken effect too.
* The URL lock is taken by a 32-bit hash; two URLs with one hash only wait for
  each other, so the model gives each URL its own lock.
* The file name contains the date, a slug and a hash of the URL; the target
  path is stored in the outbox row, so "the file of the article" is a
  function of the URL.
* The fetch returns all, some or none of the unread entries in the window: this
  covers MINIFLUX_LIMIT, entries that do not validate, the soft trim and the
  hibernation of the cycle.
* The definitions marked "Mutant of" in comments are single bugs; each is used
  to show that a property fails when that bug is put in, none is part of the
  specification.

### QuotaLedger

`reserve` of `classification/quota.py` with one action per statement: `Begin`
(which fixes `NOW()`, hence `created_at`), `Lock` (`pg_advisory_xact_lock`,
then the clock of the checks), `CheckBudget`, `CheckRpm`, `CheckTpm`,
`CheckRpd`, `Insert`; a check that fails ends the transaction and waits or
raises. `Complete`, `Fail` and `Release` are single UPDATEs outside of the
lock, which may take effect and still raise (then the caller settles again).
`InsertLost`, `Abandon` and `Restart` leave rows that nobody settles. `Tick`
lets time pass, but no transaction lasts longer than `MaxTx`. `decided` is a
history field: the instant a row's checks were made for.

### Reservation and Router

`Reservation` is the abstract protocol: reserve, call at most once, settle at
most once, complete only what was answered, give back only what was not sent.

`Router` has one action per await of `classify_article` and
`_run_model_attempts`. `job` holds their local variables, `row` and `sent` the
task's latest reservation, `hist` what the properties need to remember. Models
are records `[model, lane, effort]`, chains are sequences built as the code
builds them (`SimpleChain`, `ComplexChain`), the eligibility filter is one
step per model. `config` ranges over every setting of complexity routing,
shadow mode and escalation. The other consumers appear as `CoolByOthers`.

Seen while reading, not contradicted by any comment or test: `release` is never reached from
`_run_model_attempts` once the call is announced, because `provider_started`
is set before the wait for the semaphore, so a cancellation there counts as a
failed call; a database error in `complete` loses a paid answer and pays for
another; an authentication error ends the cascade although the other lane has
a key of its own, but the same error in an escalation is ignored; a model that
is put on cooldown after the filter is still called (`RespectsCooldown` is
therefore about cooldowns that began before the article).

### Startup

API and worker, each through `init_pool`, `_ensure_tracking_table`,
`run_migrations`, one action per statement outside of a transaction and one
per migration. The database is reduced to what the migrations depend on: the
form of `schema_migrations` and its rows, the form of the ledger, the number
of times each file took effect, the heartbeat. `Fault` stands for a kill, a lost connection
and the errors of two concurrent CREATEs, `DbDown` for an outage.

A current tracking table is found together with a ledger that has the old columns: a database
created by these very files cannot get past 006 (finding `startup_fresh`).
While one process drops the old tracking table, an API that is already up
reports `migration_004_missing` until the rows are written again. 004 seeds
the heartbeat row, so that readiness may be reported before any worker leads.

### Reader

The table, the PATCH requests and GETs in flight, and the page: article
objects by load (`obj`), the load in the list (`detail`) and in the sidebar
(`cluster`), the generation (`current`), the counters. An object is shared by
list and sidebar exactly when both show the same load, as the references of
the code are. `Update` and `Select` are the two statements of the PATCH
handlers, `Optimistic`, `Answered` and `Rollback` the three ways the page
changes an object, `GetPage` one keyset page.

`Today` are the articles of the date selected in the toolbar. The list of a
country (`saved = FALSE`) is that of this date, the vault (`saved = TRUE`)
spans all dates; map-summary counts the former, saved-summary the latter
(`Summary`). `Show` changes the counters as `patchSummaryReadCount` and
`patchSavedSummaryCount` do: by country, whatever the date of the article. A
toggle of the read flag of another day's article in the vault therefore moves
the read counter of the selected day, in the model as in the code.

`clean` remembers whether one of the events occurred after which page and
table may really differ: a toggle during a load or during another toggle of
the same article, a toggle of an article that the list no longer holds or, if
it changes the read flag, of another date, a failure after the server took the
request or after the list was closed, rows inserted or deleted. They are listed
with `SettledPageAgrees`, and each of them does make the code drift.

### ReaderHistory

`Reader` with history variables, for the histories that `clean` leaves out.
`writer` is the request that wrote a row last, `seen` what a load has read of
rows that were not written since, `base` the waiting toggles whose rollback
would restore such flags, and `confirmed` the listed articles whose flags were
taken after the last write of their row. `ConfirmedIsStored` says that those
flags are the row's, whatever overlaps: toggles of both flags of one article,
loads, closes, failures and rollbacks in any order. What it does not say is
when an article is confirmed: the answer to the request that did not write
last confirms nothing, because it does not (section 8).

### MC modules

`MCIngest`, `MCQuota`, `MCRouter`, `MCReader` and `MCStartup` give the
constants their values for TLC.

### Proof modules

See section 6.

## 4. Runs

| Run | Instance | Checks | Shows |
|---|---|---|---|
| `safety` | 2 workers with 2 and 1 consumers, 2 entries of 1 URL, `MaxStops = 2`, `MaxDrops = 0` | `TypeOK`, `ReadIsDurable`, `CompletedIsDurable`, `ClassifiedIsNew`, `SingleFlight`, `LeaderActs`, `OneProjector`, `CompletionIsFinal`, `Delivers` | safety with every call free to fail and two crashes or takeovers |
| `two_urls` | 1 active worker with 2 consumers, a standby, 2 URLs, `MaxStops = 1` | `ReadIsDurable`, `CompletionIsFinal` | the lists of the reconcile with several rows, articles at different stages |
| `drops` | 2 workers with 2 and 1 consumers, 2 entries of 1 URL, `MaxStops = 0`, `MaxDrops = 1` | `ReadIsDurable`, `CompletedIsDurable`, `Delivers` | what survives a split brain, or a lost URL lock whose article another consumer commits first |
| `live` | 2 workers with 1 consumer each, `MaxStops = 1` | `EventuallyRead`, `EventuallyProjected` | progress, under `FairSpec` |
| `split_brain` | as `safety`, `MaxDrops = 1` | `LeaderActs` violated | finding |
| `marked` | as `safety` | `MarkedIsRead` violated | finding |
| `quota` | 2 callers, 1 lane, all four limits on, 3 rows, clock up to 4, a day of 3, `MaxTx = 1` | `TypeOK`, `WindowLimit`, `RateLimit`, `TokenLimit`, `DayLimit`, `SettlementIsFinal` | the limits, under waits for the lock across ticks and midnight, lost rows and double settlements |
| `router` | 1 task, a Gemini and an HTTP model, 2 lanes, 3 attempts and 2 in an escalation | `TypeOK`, `NothingLeftOpen`, `CallsBounded`, `RespectsCooldown`, `UsesReservations`, `FallbackIsLast`, `Ends` | every routing mode, error class and way out of an attempt |
| `reader` | 3 articles of 1 country, 2 of them of the selected date, pages of 1, any 3 of 2 loads and 2 toggles, 1 deletion | `TypeOK`, `Coupling`, `SettledPageAgrees`, `ConfirmedIsStored`, `PagesComplete`, `LateAnswerKeepsSidebar` | requests handled and answered in any order, for the day and for the vault |
| `reader_overlap` | 2 countries, 3 articles | `SidebarIsInList` violated | finding |
| `startup` | 4 files, 3 forms of the database, 1 fault, 1 outage | `TypeOK`, `UpIsMigrated`, `RecordedIsExecuted`, `ExecutedAtMostTwice`, `ComesUp` | two processes migrate at once |
| `startup_fresh` | as `startup`, an empty database, no faults | `ComesUp` violated | finding |

The bounds and why they suffice:

* `Ingest`: interference needs two consumers on one URL (two entries of one
  URL), a second worker that takes over, and a row that one task has claimed
  while another finds it: all in the `safety` instance. Two stops reach the
  case in which the successor crashes too, in the middle of the repair. One
  lost session suffices for two simultaneous leaders, and with two consumers of
  one worker, as in `drops`, for a second consumer that overtakes the one whose
  URL lock was lost. Entries of one URL, and consumers of one worker, are
  interchangeable there: `SYMMETRY Twins` permutes only these, and neither
  `UrlOf`, `Owner` nor a property tells them apart. The cycles themselves
  are not bounded. `MaxStops` and `MaxDrops` are the only bounds.
* `QuotaLedger`: `MaxRows` and `MaxClock` bound the table and the time. Three
  rows are one more than every limit admits at once; a clock up to 4 passes
  two windows and a midnight; `MaxTx = 1` lets a transaction wait over a tick,
  so that both callers may insert a row late, into the day before.
  The two callers are symmetric, and no property tells them apart.
* `Router`: nothing is bounded but what the code bounds. One task suffices
  because tasks share the cooldowns only, and `CoolByOthers` and `Expire`
  change those at any time; the proofs are for any number of tasks.
* `Reader`: `MaxLoads`, `MaxToggles`, `MaxRequests` and `MaxDeletes`. Two
  toggles of one article and a load, or two loads and a toggle, are what it
  takes for an answer to be late. Three articles give a list of the day with
  two pages, and a vault of up to three with one of another date. One deletion
  reaches the article that goes away under a page, a load or a request; the
  theorems are for any number.
* `Startup`: `MaxFaults` and `MaxOutages`. Four files stand for ten: 003, 004
  and 006, whose effects depend on each other, and a last one; a half migrated
  database is one of the initial states.

`CHECK_DEADLOCK FALSE` is set only in the runs of `Ingest`, where the system
really stops: the entries are read or out of their window and the bounds are
used up. The other runs check deadlock. In `quota`, `router` and the two runs
of `Reader` it says little, because one step is always possible (a restart, a
cooldown set by the other process, closing the sidebar); that a router's task
does come to an end is `Ends`, that a start comes up is `ComesUp`.

## 5. Fairness

`Ingest`: `Progress` is weak fairness of every task's `Step` (Compose restarts
a stopped container, the event loop runs ready coroutines, the retry loops of
the election and of the cycle have no end) and of the passing of time for stale
rows. `Calm` says that calls do not fail for ever: from some time on a task's
steps are steps that succeed. Before that, any number of calls may fail.
Without `Calm` a Vault that is never writable would refute every liveness
property, and rightly so. Crashes are bounded by `MaxStops`. Expiry is not
fair and not prevented: `EventuallyRead` therefore allows an entry to expire,
and `EventuallyProjected` holds even then. Articles of old versions that have
neither row nor file (`Orphan`) are skipped for ever by the code and excluded.

`Router`: weak fairness of each task's `Step`. Provider calls have a timeout,
database calls have `command_timeout`, and `reserve` waits only for windows
that pass. That needs an estimate below the lane's TPM: above it, `reserve`
waits for ever (listed as a hazard). Nothing is assumed about outcomes: every
call may fail for ever, and a classification still ends.

`Startup`: weak fairness of each process's `Step` (`restart: unless-stopped`,
statements end) and of `DbReady`. Faults and outages are bounded in number,
which is the usual form of "they stop some time"; a process that is refused by
the other one's transaction is not a fault and not bounded.

`QuotaLedger` and `Reader` have safety properties only: waits for a window
have no end the code could promise, and nothing ever forces a user to act.

## 6. What is proved

For every value of the constants, from the one named assumption of each module
on their types (`IngestAssumption`, `QuotaAssumption`, `RouterAssumption`,
`ReaderAssumption`, `StartupAssumption`), which TLC evaluates in the runs. They
say that limits and bounds are naturals, that callers and articles are finitely
many, that a chain is a non-empty list of
configured models, and that `Null` (Python's `None`, a `null` of the page) is
none of the values it stands in for. Every safety property of a passing run is
the statement of a theorem; one more, `MismatchStops`, is proved and in no run.

### Ingest (IngestProofs, ExclusionProofs)

* `Invariance`: `Spec => []IInv`. `IInv` adds to the four state properties
  what a task knows at each await: its job is an entry (`JobInv`); a row
  belongs to a stored article, names an entry of that article, and exists for
  whatever was selected, claimed or committed (`RowInv`); the Vault holds
  articles only, including the writes still running in abandoned threads
  (`FileInv`); after the write, and on every way to a mark-read, the file
  exists (`DurableInv`). Without these, `CompletedIsDurable` is not inductive:
  a task at `complete` must be known to have written its file, and
  `MarkCompleted` checks nothing.
* `TypeCorrect`, `NoBlindAcknowledge` (`ReadIsDurable`), `CompletionIsTrue`
  (`CompletedIsDurable`), `NoSecondClassification` (`ClassifiedIsNew`) follow.
  They need no lock of the leadership: they hold in a split brain.
* `ImplementsDelivery`: `Spec => Delivers`. The refinement mapping counts an
  article as worked on while a consumer that still holds its lock classifies
  or commits it. Each step is shown to be a `Begin`, `Store`, `Project`,
  `Acknowledge` or `Abandon`, or to change nothing.

Under the further assumption `MaxDrops = 0` (no session is lost in use), which
run `split_brain` shows to be necessary:

* `Exclusion`: `Spec => []Exclusive`, with `Exclusive` saying where the locks
  are held, that consumers act only within the consume phase of their worker,
  and that what is being projected is not completed.
* `SingleLeader`, `SingleClassification`, `SingleProjection`,
  `CompletionStands`: `LeaderActs`, `SingleFlight`, `OneProjector` and
  `CompletionIsFinal`. That no two tasks project one article follows from the
  leadership (main coroutines of two workers), from the join of the cycle
  (main coroutine and its consumers) and from the URL lock (two consumers);
  the proof has one case for each.

### QuotaLedger (QuotaProofs)

No limit is inductive: that the INSERT keeps it depends on a COUNT or a SUM made
some steps before. `Granted` says that what the budget, RPM, TPM and RPD
checks found still holds for a caller that has passed them. It does because the
caller holds the lock ever since (`Locked`), because time only moves rows out
of the window (`Timed`), and because a settlement, the one write outside of the
lock, never makes a row count that did not, and never raises the sure charge of
one: that is the estimate until the row is billed, which happens once
(`Unbilled`), and the lesser of estimate and bill from then on.

* `WindowLimitHolds`, `TokenLimitHolds`, `DayLimitHolds`: `WindowLimit`,
  `TokenLimit`, `DayLimit`. The two latter are about sums over sets of rows,
  which SQL's `SUM` is and a fold models. That a row more adds what is charged
  for it, and that a sum of smaller values is no larger, are lemmas of
  `FiniteSetLemmas`.
* The third part of `DayLimit` is about midnight. A transaction that waits for
  the lock until the next day is checked against that day and stored, by its
  `created_at`, in the one before, which may be full: `DayRows` does not count
  it, `Late` does. `LateBounded` adds up the late rows of a day and the
  transactions it has left open (`Open`): together they are at most one per
  caller, because a day opens transactions only while it lasts, when it has no
  late row yet (`NoneYet`), and each late row ends one of them. So a lane holds
  in a day up to RPD rows and one per caller, and the code may exceed RPD by
  that much.
* `RateLimitHolds` follows from `WindowLimit` and `Prompt`: a row was decided
  on within one transaction of its `created_at`.
* `SettlementFinal`: `SettlementIsFinal`.

### Finite sets and sums (FiniteSetLemmas)

`SumFunctionOnSet` is defined by recursion over the powerset, with the next
element of each set picked by CHOOSE. Induction over data is out of reach, so
the lemmas argue by a least counterexample, by its cardinality (`NatLeast`):
there is a function that satisfies the recursion (`SumExists`), any two agree
(`SumSome`), and the sum does not depend on which element is added last
(`SumAny`). `SumMonotone`, `SumAtMost` and `SumOneMore` are what the proofs
about the ledger cite. `NatMin` and `Greatest`, the least and the greatest
element of a set of naturals, are for the keyset pages of `Reader`.

### Router (RouterProofs)

The steps of a task are first reduced to twelve kinds (`Does`, lemma
`StepDoes`), each described by what it does to the reservation, the place in
the chain and the history; then each part of the invariant is shown for each
kind. `Tidy` relates the reservation to the await that was reached: from it
follow `NothingLeftOpen` and, since every kind of step is a step of the
protocol or leaves the row alone, `RefinesReservation`
(`Spec => R!Spec`). `Placed` bounds position and attempt; with it `Paid` bounds
the calls by the models passed, the attempts at the present one and one
escalation, which gives `CallsBounded` for every length of the chain. `Tried`
says that every model before the present position was tried, hence
`FallbackIsLast`. `Cold` says that what cools down since the start is neither in the chain nor
escalated to, hence `RespectsCooldown`. `TypeCorrect` (`TypeOK`) needs that the
chains consist of configured models: `DistinctTyped` shows by a least
counterexample that a list without its duplicates is a list of those models.

### Reader (ReaderProofs, SettledProofs)

* `CouplingHolds`: `Coupling` depends on everything a flag may be copied
  through: the items of a page, the flags captured for a rollback, the answer
  of the server. `Sound` says which answers a request can get (an answer to
  "unread" never carries "saved", one to "save" always carries "read"), so
  that `Answered` cannot part what `Optimistic` joined.
* `TypeCorrect` (`TypeOK`): what is not by shape is that the counters of a
  country stay naturals with no more read than all (`Counted`), although the
  page only adds and subtracts.
* `PagesCompleteHolds`: a load that still has to fetch pages does not yet hold
  what `PagesComplete` promises. `Covers` says what it holds: every page is
  older than the one before, none goes below the cursor, and what was in the
  selection all the time is on a page or below the cursor. A page of
  `PAGE_LIMIT` rows keeps that because its last row is the least (`PageSplits`).
* `LateAnswerKeepsSidebarHolds`: `Newest` says that loads are opened in order
  and the current one is the last.
* `ConfirmedIsStoredHolds`: `ConfirmedIsStored` for `HSpec`, with no condition on what
  overlaps. It needs that flags on their way to the list are the row's as long
  as the row is not written: the items a load has read, the flags of a request
  in `base`, and the answer of the request that wrote last, whose SELECT, though a
  statement of its own, then reads what its UPDATE wrote. `WatchedIsReader`
  (`HSpec => Spec`): what is watched are behaviours of `Reader`, so every theorem
  about `Spec` holds of them.
* `SettledPageAgreesHolds`: `SettledPageAgrees`, which is about the histories
  `clean` admits and no others, speaks of moments when nothing
  is in flight, and says nothing of the steps between. `Pictures` does: there
  is a view of the articles which list and counters show, and which differs
  from the table only for an article whose request waits, where it is the flags
  that were shown optimistically. Each step keeps it: the UPDATE brings the row to
  the view (`UpdatedAsShown`), an answer changes nothing of what is shown
  (`AnsweredAsShown`), a rollback finds a row that was not changed (`Carried`)
  and takes back exactly what the toggle counted, and a load brings pages
  with the flags of the table (`Fresh`). That nothing else
  interferes is what `clean` guarantees: a request is alone for its article (`Alone`), does
  not overlap a load (`Apart`), and leaves nothing behind (`Ended`).

### Startup (StartupProofs)

A process works from a snapshot that may be stale. `Snapshot` and `Progress`
survive because executions are never undone, even when the rows that record
them are dropped; they give `UpIsMigrated` and `RecordedIsExecuted`. `Drops`
counts who can still drop the table, hence `ExecutedAtMostTwice`. `Untouched`
says that with a row of another file nothing is dropped and no snapshot is
stale up to it, hence `MismatchStops` (`MismatchStopsHolds`).

### Only model-checked

Liveness under fairness is out of the prover's reach: `EventuallyRead`,
`EventuallyProjected`, `Ends` and `ComesUp` are checked by the runs `live`,
`router` and `startup`, on their instances. So are, by their nature, the four
findings.

## 7. Findings

* `marked`: `mark_as_read` swallows HTTP errors (`extraction/client.py:307`),
  so a failed mark-read is stamped as done, although `commit/outbox.py:4` and a
  test say it leaves the stamp NULL for a retry. The entry is still
  acknowledged if a later fetch returns it (the duplicate path), which is why
  `EventuallyRead` holds; once it left the 48h window it stays unread.
* `split_brain`: a worker that lost the session of its leadership lock goes on
  as leader (`worker.py:625`), against `core/heartbeat.py:4`. What the split
  brain cannot break is what `drops` and the first group of theorems show.
* `reader_overlap`: `loadCountryArticles` puts every answer into the list,
  also that of an obsolete load (`state.service.ts:191`); the generation of
  `app.ts` guards the sidebar only. Two quick clicks whose answers come in the
  other order leave the sidebar with one country and the list with the other,
  and toggles no longer reach what the sidebar shows, against the comments
  `app.ts:43` and `state.service.ts:13`.
* `startup_fresh`: on an empty database 003 creates the ledger without the
  columns that 006 alters, so 006 fails, both processes exit and are started
  again for ever, against the "plug-and-play" of `docker-compose.yml:3`.

## 8. Not modelled

* The connection pool and the semaphores of the worker, the row locks of the
  junction inserts: the deadlocks they make possible are listed as hazards,
  the commit is one action.
* `LIMIT 50` and the order of the fetch, `LIMIT 200` of the reconcile,
  contention for the file lock. The batches of `Ingest` are arbitrary.
* The requeue script beside the worker. Its deletions are in `Reader`, its
  emptied cooldowns in `Router`.
* `QuotaLedger`: the clocks of application and database are one, as on one
  host; `command_timeout` bounds a statement and not a transaction, `MaxTx`
  stands for the bound of both; spacing and sleeps are an arbitrary delay;
  prices are folded into the budget.
* `Startup`: the statements inside a migration; readiness reported on the
  seeded heartbeat before a worker leads ("awaiting leader") is possible in
  the model as in the code, and no property states the contrary; the degraded
  mode without an API key.
* `Reader`: filters (a change of them is a `Close`; the selected date stays), the read
  count inside the saved summary, spinner, banner (an obsolete load that fails
  also shows it), sidebar mode, several browsers, `/api/countries`. The
  summaries are loaded once.
* Prompts, schema normalisation of answers, HTML stripping, Markdown: pure
  functions of one text. Configuration, logging, map, toolbar and rendering,
  backup and restore scripts: read once, drawn, or sequential I/O.

Seen while reading `Reader`'s sources, modelled, and excluded by `clean` or by
`confirmed` because the code behaves so and no doc, comment or test denies it:

* `patchSummaryReadCount` (`state.service.ts:416`) changes the row of the
  selected day by country and category. An unread of another day's article in
  the vault, one request and no failure, leaves the read counter of the day one
  too low until map-summary is loaded again.
* The answers to a read and a save of one article each pass the check of their
  own version counter. When they arrive in the opposite order of their UPDATEs
  the list shows the older state until it is loaded again.
* Of two toggles of one article that overlap and both fail, the second rolls
  back to what the first had shown optimistically.
* A load that overlaps a toggle may show the flags from before its UPDATE, or
  from before its rollback.
