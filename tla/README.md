# Verification of the agent server

TLA+ models, TLC runs and TLAPS proofs for the FastAPI server in `src/`: a user
owns *works*, uploads documents into them, a background worker cuts the documents
into chunks and stores their embeddings in PGVector, and an agent answers
questions about a work by searching those vectors.  Paths below are relative to
the repository's root.

## 1. Inventory

| Component | Code | State it keeps | Operations | Talks to |
|---|---|---|---|---|
| Document handlers | `src/rag/service.py`, `src/rag/router.py` | rows `documents` | `upload_document`, `delete_document`, `list_documents` | PostgreSQL, PGVector, disk, Redis list |
| Works | `src/rag/service.py` | rows `works` | `create_work`, `list_works`, `get_work`, `update_work_title`, `delete_work` (cascade) | PostgreSQL, PGVector |
| Database connections | `src/db/postgres.py` | a pool of connections | `get_session` | PostgreSQL |
| Ingest queue | `src/rag/queue.py`, `src/db/redis.py` | a Redis list | `enqueue_ingest` (LPUSH), `dequeue_ingest` (BRPOP) | Redis |
| Ingest worker | `src/rag/worker.py`, `src/rag/ingest_pipeline.py` | tasks, a semaphore, threads | `run_ingest_worker`, `process_ingest_job`, `_mark_document_done`, `_mark_document_failed` | all stores, the embedding API |
| Upload storage | `src/rag/storage.py` | one file per pending document | save, read, unlink | disk |
| Vector collection | `src/rag/vectorstore.py` | vectors by `(document, chunk index)` | add (upsert), delete by ids, search | PGVector |
| Lifespan | `src/main.py`, `recover_pending_ingest_jobs` | whether the process serves | startup, recovery, shutdown | all of the above |
| Rate limiter | `src/core/middleware.py` | Redis key per client, or a dictionary | `dispatch` | Redis |
| Accounts | `src/account/*`, `src/core/security.py` | rows `users`, refresh tokens in Redis | register, login, refresh, logout, `verify_token` | PostgreSQL, Redis |
| Agent stream | `src/agent/*` | one generator per request | `/agent/chat/stream` as server-sent events, with timeout and cancellation | LLM, retrieval |
| Embedding client, error mapping | `src/rag/embeddings.py`, `src/rag/errors.py` | none | pure | embedding API |
| Hello page cache | `src/main.py` | one payload and a lock | first request waits | - |
| Settings, logging, routers, prompts | `src/core/settings.py`, `src/core/logging_config.py`, `src/api/*`, `src/agent/prompt.py` | none at run time | - | - |

What makes each correct, and what makes that hard:

* **Ingestion** (handlers, queue, worker, storage, vectors, lifespan).  One
  document lives in four stores without a transaction over them.  A document
  that was accepted must get one verdict; `done` must mean that all of it can be
  searched; the uploaded file, the only copy of the text, must not go before the
  verdict is durable; a deletion must leave no vectors.  Every `await` lets the
  worker and the other requests in, the process can die between any two of them,
  LPUSH is retried, BRPOP loses the job when its reply is lost, and
  `asyncio.wait_for` abandons a thread it cannot stop.
* **Rate limiter**.  Two accepted requests of a client are at least the interval
  apart; the dictionary stays bounded.  Hard: the timestamp is the application's,
  taken before the wait for Redis, and compared with Redis' own clock; eviction
  forgets clients that are still active.
* **Refresh tokens**.  An exchanged token does not come back, and its exchange loses
  no session.  Hard: rotation is three Redis commands, other requests, a failure
  or the end of the process may come between any two, and the token may have been
  read by somebody else.
* **Registration, works**.  Names are unique, a row is changed by its owner only,
  and an answer is true when it is given.  Hard: check and insert, SELECT and
  UPDATE, commit and refresh are separate statements, each in need of a connection
  that other requests hold.
* **Agent stream**.  Every stream ends, and tells the client whether it has the
  whole answer.  Hard: the timeout and the client's disconnection reach the
  generator at an `await` or at a `yield`, with different consequences; the stream
  keeps the connection of a SELECT done before it began.
* **Error mapping, JWT**.  A caller's 401 must come of the caller's own token.  Hard:
  a dozen tests whose classes and codes overlap.
* **Chunking, batches**.  Pure functions with boundaries.

`PROJECT.json` lists each hazard at its line with the properties aimed at it.

## 2. Modules

| Module | Models |
|---|---|
| `RagState` | the stores, the client library's UPDATE and LPUSH, failures, `TypeOK` |
| `DocumentService` | `upload_document`, `delete_document`, `delete_work` |
| `IngestWorker` | `run_ingest_worker`, `process_ingest_job`, the two mark functions, abandoned threads |
| `RagIngest` | composes the two with the lifespan, recovery and crashes; `Spec`, fairness, properties |
| `DocumentLifecycle` | abstract: what the API promises about a document |
| `RateLimit` | time, requests and answers of the rate limiter, shared by its two modes |
| `RedisRateLimit` | `dispatch` with `app.state.redis`: the Lua script, delays, skew, lost replies |
| `LocalRateLimit` | `dispatch` without it: the dictionary and `_evict_if_needed` |
| `Accounts` | registration, login, refresh, logout: users in PostgreSQL, tokens in Redis, time, failures, restarts |
| `AccessToken` | `create_token` and `verify_token` as operators |
| `EmbeddingErrors` | `map_embedding_error` as an operator |
| `ApiState` | what requests share: the rows of works and the pool of connections |
| `WorksHandlers` | create, list, read, rename, delete |
| `ChatStream` | `chat_stream` and `_agent_sse` |
| `HelloPage` | the page `/` and its lock |
| `Api` | composes the last five with authentication; `Spec`, fairness, properties |
| `MCRagIngest`, `MCRedisRateLimit`, `MCLocalRateLimit`, `MCAccounts`, `MCApi` | the instances |
| `RagIngest_proofs`, `RagLifecycle_proofs`, `RagSerial_proofs` | the theorems about `RagIngest`: any failures; one job per document; one permit and crashes |
| `RedisRateLimit_proofs`, `LocalRateLimit_proofs`, `Accounts_proofs`, `Api_proofs` | the theorems about the other components |

`DocumentService` and `IngestWorker` both extend `RagState` and never mention each
other: they meet only through the stores, as in the code.  `WorksHandlers`, `ChatStream` and
`HelloPage` extend `ApiState` in the same way and meet in the table of works and the
pool.

### State and steps

A variable of `RagState` is either durable (`workExists`, `status`, `chunkCount`:
PostgreSQL; `vectors`: PGVector; `file`: disk; `queue`: Redis) or local to the
process, in which case `Crash` resets it.

* **An action is the code between two awaits**, named after its function:
  `UploadInsert` is `session.add`, `commit`; `UploadSave` the refresh and
  `save_upload_bytes`; `MarkDoneGet` and `MarkDoneCommit` the two round trips of
  `_mark_document_done`.  The event loop runs nothing else in between.
* **`asyncio.to_thread` is a commit of its own**: `AddCommits` is the thread's
  commit and `BatchDone` the coroutine's resumption; `BatchTimeout` may fall
  before either.  A thread abandoned by `wait_for` is counted in `late` and
  `LateEnds` lets it commit, or not, at any later time.
* **Sessions.**  `expire_on_commit=False` and SQLAlchemy's unit of work: a session
  writes the columns that differ from what it read (`UpdateRow`), and the UPDATE
  of a row deleted meanwhile raises `StaleDataError`, which sends
  `process_ingest_job` to its `except` branch and kills the task when raised by
  `_mark_document_failed`.
* **Redis.**  redis-py retries once on a connection error, so a push can be
  executed twice, and can be reported as failed after zero, one or two
  executions (`EnqueueIngest`, `EnqueueIngestRaises`).
* **Upload files.**  `delete_upload_file` catches what `unlink` and `rmdir` raise, but
  not what listing the directory in between raises (`DeleteUploadFileRaises`, where one
  budgeted failure may hit both the unlink and the listing).  It is
  called inside the `try` of `process_ingest_job` once the row is done (`unlink`), where
  the error fails the job, outside it once the row is failed (`failUnlink`), where it ends
  the task, and in `upload_document` before the row is marked failed, which it then
  is not.
* **Failures** are the kinds of `FaultKinds`, enabled per run by `Faults` and
  budgeted by `MaxFaults`; each is an alternative of the action it hits, with the
  `except` branch the code takes.  A statement that raises had no effect (`db`, `vector`,
  `embed`); a commit of rows or of vectors that had, and whose acknowledgement is lost,
  raises too (`ack`), wherever the code goes on differently from one that was heard:
  `done` is then turned into `failed`, and a batch that was added is not counted.
* A graceful shutdown cancels the worker's loop and awaits none of the tasks it
  created.  What it leaves in the stores is what `Crash` at the same point
  leaves, so it has no action of its own.

The rate limiter counts time in ticks.  With Redis, `Arrive` is the reading of
`time.time()`, `Decide` the atomic script and the answer, with Redis' `TIME` as the
model's `now`; between the two a request waits up to `MaxDelay` (`db/redis.py` sets
no read timeout, so in reality without limit) and every request may meet a clock
that is `MaxSkew` off.  `LoseReply` is an execution whose reply is lost, after which
the client sends the script again; `RedisRaises` is `except RedisError`, which lets
the request through unchecked.  `storedAt` is a history variable.  Without Redis
`Dispatch` is one step, since nothing awaits under the lock; the dictionary is a
function from the clients in it to the time and the number of the insertion, since
eviction takes the first inserted and an assignment to a key that is there leaves it in
its place.  How a client's key is derived from a
request is left to the constant `ClientOf`.

In `Accounts` a slot is a request under way, and its `pc` the await it stands at:
`RegisterSelect` runs to the commit (hashing does not await), `RegisterCommit` is the
commit, where the unique constraint decides; `RefreshGet`, `RefreshDelete` and `Issue`
are the three commands of a refresh, and `Issue` alone ends a login.  A command that
raises has been executed or not (`RefreshDeleteRaises`, `IssueRaises`), and so has the
commit of a registration; the three commands are idempotent, so the client library's
own retry adds nothing.  `Restart` forgets the
requests and keeps PostgreSQL and Redis.  A request that ends in a 401, 409, 500 or
503 with nothing done is no step.  `known`, `parent`, `spent`, `closed` and `welcomed` are
history: what clients were answered, and what every token came from and became.

In `Api` a request asks one thing, chosen when it arrives, and its `pc` is again an
await or, for a stream, where the generator is suspended.  A connection belongs to a
request from its first statement to its commit; one that only reads keeps it until
the session is closed, which FastAPI does after the response, so a chat keeps its
connection through the whole stream (`Holding`).  Without a free connection a
statement waits, and `PoolTimeout` is SQLAlchemy's error after the pool's timeout,
answered 500.  Any other statement may raise (`StatementRaises`: a lost connection, an id
out of range, a NUL in a title), and a commit may after it took effect (`Unheard`); the
handlers catch `IntegrityError` alone, so `unhandled_exception_handler` answers 500 with
the type of the exception (`Unhandled`; in the source only with `DEBUG` set).  The state of a stream is `await` (for the model), `send` (an event is
with the client), `error` and `done` (the error event and `[DONE]`).  `StreamTimeout` in
`await` becomes the generator's `TimeoutError`; in `send` the cancellation hits the
task that sends, not the generator, and the response ends without `[DONE]`.  Several
data events in a row count as one.  An exception of the retrieval is a record of its
class, its status code and whether its message holds one of the words looked for, and
`Branches` lists the tests of `map_embedding_error` in their order.  An access token is
its claims and whether the server signed them; requests are made at one time, `Now`,
with tokens of every age.

Mutant operators (marked "Mutant:") stand before the definition they vary; no
specification uses them.

## 3. Runs

Two documents are enough for what the code shares between documents: the semaphore
queue, `delete_work`'s snapshot and the recovery loop.  `d1` has three chunks in
batches of two, so that a job can fail before, between and after batches and its
last batch is short; `d2` has one chunk or, in `jobs`, none.  Document ids are
never reissued, as autoincrement keys are not.  Each budgeted failure may be any
kind of the run's `Faults`.  `CHECK_DEADLOCK FALSE` throughout: with every document
uploaded and no request left, a server really idles.

| Run | Instance | Checks |
|---|---|---|
| `all_faults` | d1, all eleven kinds, 3 failures | `TypeOK`, `DurableOrder`, `InputKept` |
| `jobs` | d1, blank d2, 2 permits, 1 failure, not `redis_pop`, `db`, `ack` | `NoJobLost`, `RejectedUploadNotPending` |
| `lifecycle` | d1, d2, 2 permits, 2 of `no_redis`, `redis_pop`, `db`, `disk`, `embed` | `KeepsLifecycle`, `RowCoversVectors` |
| `liveness` | d1, 1 permit, 5 of `crash`, `vector`, `listing`, `embed`, `timeout`, fair | `SavedIsSettled`, `SearchableWhenDone` |
| `duplicate_job` | violation, 1 crash | `DoneStaysDone` |
| `delete_during_ingest` | violation | `DeleteRemovesVectors` |
| `crash_before_save` | violation | `PendingIsSettled` |
| `redis_limit` | 1 client, 3 requests, 8 ticks, delay and skew 1 | `TypeOK`, `Spaced`, `DeniedForCause`, `RetryAfterSuffices` |
| `redis_delay` | violation, delay 1, skew 0 | `IntervalKept` |
| `local_limit` | 4 clients, 6 requests, dictionary for 2 | `TypeOK`, `Bounded`, `SpacedUnlessCrowded` |
| `sessions` | 2 requests at a time, 1 name, 2 passwords, 4 tokens, TTL 2, 4 times | `TypeOK`, `RegistrationHolds`, `SpentStaysSpent`, `Succession`, `ForksBounded` |
| `api` | 3 requests, 2 connections, 2 users, fair | `TypeOK`, `StreamTellsItsEnd`, `HelloSleepsOnce`, `EveryRequestEnds`, `OwnTokenDecides`, `OnlyOwnersChangeWorks`, `AnswerIsStored`, `ServerErrorHasCause`, `NetworkTroubleIsTold` |

What the passing runs show: the order row, file, job, verdict, unlink survives any
three failures; a job is never only in memory; with the failures named, one final
verdict, given only when the document is wholly searchable, and always given; the
limiter keeps its interval up to delay and skew, and its answers are honest; an
exchanged token's key is never set again though two requests had read it, and no exchange
loses a session silently; requests end, and their answers are true, with the pool full
of chats whose model never ends.

The limiter's instances: an interval of four ticks (a quarter of a second each)
with keys that live for six, so that requests fall before, at and after both within
eight ticks, Retry-After is 1 or 2, and a third request meets what the first two
left.  Keys of different clients never meet, hence one client with Redis; requests
of one client are alike, hence the symmetry.  Locally, four
clients push the first entry out of a dictionary for two while its client is active
and comes again, and a cleanup falls due every three operations.

`sessions`: two requests suffice for every order of two refreshes, a refresh and a
logout, or two registrations; the fourth token lets one token fork twice and a fork
be exchanged again.  One name, since rows of different names never meet; two
passwords tell who owns it.  The clock outlives a token by a tick.  Tokens and slots
are alike, hence the symmetry.

`api`: r1 and r2 can fill the two connections with chats while r3 deletes, renames or
creates; r2 renames or creates the title r3 does, for the same user and for another;
all three may meet at the page `/`.  Every age of a token from 0 to 3 with a lifetime of 2
puts requests before, at and after `exp`; two more tokens are unsigned and without a
user.  `AllFailures` has an exception for every branch of the mapping and for every way
through none.  Four rows can ever be inserted (`MaxWorks`), more than three requests
insert.  The split of the questions over the three requests (`WhoAsksWhat`) only leaves
out mixes that differ by who asks.

Why a run leaves failures out: the property is false with them, for a reason the
code accepts or a finding names.

* `NoJobLost` without `redis_pop` and `db`: BRPOP has removed the job when its
  reply is lost, and `_mark_document_failed` that raises kills the task.  Both
  wait for the recovery of the next start.  It also fails when a push, the unlink after it
  and the listing after that all raise, which is more than the run's one failure: the
  upload is over with the row pending, the file kept and no job.
* `RejectedUploadNotPending` without `db` for the same reason: the commit that
  should mark the row failed is itself what fails.  Without `ack`: the row whose insertion
  was reported as failed is there, pending.  And with one failure: a push and the listing
  of the directory that both fail leave the row pending.
* `SearchableWhenDone` without `disk`, `ack` and, for the sake of `SavedIsSettled`,
  `redis_push`, `redis_pop`, `db` and `no_redis`.  For one permit it is proved without
  the first two (`PublishedAfterCrashes`), for any number of all others.  A file that outlives
  the verdict breaks it: with `listing`, three failures do.  A restart duplicates the job;
  after `done` both the unlink and the listing fail while a deletion has read the row as
  done; the `except` branch removes the vectors and marks the row failed, and its unlink
  fails, too; the second job adds the vectors again, the deletion removes them, and `done`
  is published without them.  Without `listing` it takes five (`crash`, `disk`, `embed`): two
  restarts, an unlink that fails, a second job that fails and whose unlink fails, and a third.
  With `ack` it takes five as well (`crash`, `ack`, `embed`): the `done` whose
  acknowledgement was lost leaves the file where a second job finds it.  With two permits it
  fails outright: when two jobs of one document run at once and one fails, its rollback
  deletes vectors that the other then publishes as `done` (`MaxParallel = 2` and
  `redis_push` among the failures show it; the repository's `README.md:90` advises one
  permit).
* `RowCoversVectors` without `timeout` (the abandoned thread commits after the
  rollback), `vector` (the rollback is best effort), `ack` (a batch was added that the
  job has not counted), `crash` and `redis_push` (two jobs for one document).
* `SavedIsSettled` without `redis_push` (the failed push unlinks the file, and a
  crash before the row is marked leaves it pending), `redis_pop`, `db` and
  `no_redis` (nothing runs the worker until the next start, which need not come).  It needs
  neither `disk` nor `ack` left out, and holds with three failures of the run's kinds and
  these two.
* `KeepsLifecycle` without `crash` and `redis_push`: a duplicated job turns `done`
  into `failed`, which is the finding `duplicate_job`.  Without `listing` and `ack`: the one
  job does so itself (see the first finding).  With all the other kinds it is
  proved (`ImplementsLifecycle`); the run leaves `vector` and `timeout` out for the sake
  of `RowCoversVectors`.

**Fairness** (`Fairness`, used by `liveness` and `crash_before_save`).  Weak fairness
of the server's own steps: the supervisor starts a process that is down, the event
loop runs every ready coroutine, the semaphore is FIFO, requests to the stores
return or raise.  It is weak fairness of the whole step of a coroutine, failing
alternatives included, so nothing forces a call to succeed.  Requests, failures,
crashes and abandoned threads are not fair: they need not come.  Crashes are
finite because `MaxFaults` is; a server that crashes for ever settles nothing.

In `Api`, weak fairness of each request's server steps (`Serve`: the event loop runs what
is ready, the pool hands over a connection or times out, the retrieval has its own
timeout) and of the end of a stream: `AGENT_SSE_TIMEOUT_SECONDS` passes, a client that
left is noticed, and a client takes the error event and `[DONE]`, or leaves.  The last is
an assumption about clients, not a promise of the code: those two events are sent outside
the timeout, and a client that never takes them holds its connection without limit.
Nothing is assumed of the model, of the client during the stream, or of arrivals.

### Findings

Four runs show where the code departs from what the repository's `README.md` or
a docstring says; `PROJECT.json` quotes the lines.

1. `duplicate_job`: recovery pushes a job that is still in Redis; the second job
   finds no file and turns `done` into `failed`, `chunk_count` 0, vectors kept.
   A single job does the same with the vectors removed when `iterdir` in
   `delete_upload_file` raises after `done` was committed (worker.py:133), or when that
   commit's acknowledgement is lost: no run of their own, but `Faults = {"listing"}` or
   `{"ack"}` and `MaxFaults = 1` in `DuplicateJob.cfg` show them.
2. `delete_during_ingest`: a document or work deleted while it is ingested leaves
   vectors behind, since the deletion uses the `chunk_count` it read.
3. `crash_before_save`: a crash between the commit of the row and the save of the
   file leaves a document pending for ever.
4. `redis_delay`: the script stores the application's time and compares it with
   Redis' own, so the time a request waits for Redis is taken off the next interval.

## 4. Proofs

`RagIngest_proofs`, for every set of documents, chunk counts, batch size, number
of permits and set and number of failures, from `ConstantsAssumption` only:

* `TypeCorrect`: `Spec => []TypeOK`.
* `DurableOrderHolds`: `Spec => []DurableOrder`.  With `TypeOK` this is the
  inductive invariant.  `Admitted` says that no file, job or later stage of an
  upload exists for an id whose row was never inserted, and that a file exists
  only after `UploadSave`; `SettledFirst` that a job at `unlink` has a row that is
  not pending.  Two clauses are there for induction: an upload still at `checked`
  has no row (else its insert would make a settled row pending again under a job
  about to unlink), and a session that read a settled row finds it settled when
  it commits (its UPDATE may be empty, yet the job goes on to unlink).
* `InputIsKept`: `Spec => InputKept`, from the same invariant.
* `NoJobIsLost`: without `db` and `redis_pop` among the failures, and without one of
  `redis_push`, `disk` and `listing`, `Spec => []NoJobLost`: neither Redis nor the in-memory semaphore queue is the
  only record of a pending document's job.
* `RejectedIsSettled`: without `db` and `ack`, and without one of `redis_push` and
  `listing`, `Spec => []RejectedUploadNotPending`, whatever the push that was reported as
  failed has enqueued.

`RagLifecycle_proofs`, for the same constants without `crash` and `redis_push` among the
failures; either of them gives a document a second job, and then all of the following is
false, for some number of permits or failures (the table of runs and the notes
under it show how):

* `OneJobPerDocument`: `Spec => []OneJobInv`.  `OneJob` says that a document stands at one
  place, in Redis, in the line for the semaphore or in one slot, and `PushedOnce` that the
  push of its upload brought it there.  `RowAgrees` and `JobAgrees` say that what a
  deletion or a job has read agrees with the row: a job that has not settled its row finds
  it pending or deleted, and all the chunks it has added (`Added`) are in the collection
  while it is pending, since a deletion that has read a pending row removes nothing.
* `PublishedIsSearchable`: `Spec => SearchableWhenDone`, for any number of permits.
* `VerdictIsFinal`: also without `ack` and `listing`, `Spec => DoneStaysDone`, the property
  that a second job violates in the finding `duplicate_job`.
* `RollbackIsComplete`: also without `timeout`, `vector` and `ack`,
  `Spec => []RowCoversVectors`.
  `CoverInv` adds that a pending row without a running job has no vectors, and one with a
  job only those that the job's rollback removes.
* `ImplementsLifecycle`: also without `ack` and `listing`, `Spec => KeepsLifecycle`, the refinement of `DocumentLifecycle` step
  by step.  `UploadInsert` is the abstract acceptance; `AddCommits`, or a thread abandoned
  earlier (`LateEnds`), makes a document searchable; `MarkDoneCommit` publishes;
  `MarkFailedCommit` and `UploadMarkFailed` reject; the first round trip of a deletion
  requests it, its removal of vectors and a job's rollback retract the document from the
  search, and its commit deletes the row, the work's those of all its documents at once; a
  deletion that fails, or finds nothing, gives up.  Every other step stutters.
  `WorkIsNoDocument`, that the work's deletion is not the deletion of a document called
  "work", is assumed: ids are integers.

`RagSerial_proofs`, for one permit, which the repository's `README.md:90` advises, any
number of crashes and of every other failure but `disk` and `ack`:

* `PublishedAfterCrashes`: `Spec => SearchableWhenDone`.  A document may have any number of jobs
  here, one of which runs at a time.  Its vectors are in danger from a deletion that has
  read the row as `done`, and `SerialInv` says that no job can then publish it again: once a
  row has a verdict that a deletion may have read, or that an upload is still to overwrite,
  its file is gone or the running job is about to unlink it (`Finished`), so no later job
  finds it.  With two permits the other job may have read the file before; with `disk` or
  `ack` the file outlives the verdict.  A listing that fails does not keep the file: the
  job then fails what it has published, and no later one finds the file.

`RedisRateLimit_proofs`, for every set of clients and requests, interval, expiry no
shorter than the interval, delay and skew:

* `LimiterTypeCorrect`: `Spec => []TypeOK`.
* `SpacingKept`: `Spec => []Spaced`.  The inductive invariant `IInv` adds that a
  request under way has a timestamp that lags by no more than delay and skew
  (`OnItsWay`), and that the key of a client is at least as recent as every request
  that was let through (`Remembered`): a later timestamp may replace an earlier one
  out of order, but never by more than that lag.
* `DenialsHaveCause`: `Spec => []DeniedForCause`, with `HasOrigin` added: a key that
  has not expired holds the timestamp some request of the client stored.
* `WaitingIsEnough`: `Spec => []RetryAfterSuffices`.  `RetryAfterIsEnough` says that the whole seconds
  of the answer are no shorter than the rest of the interval, and `WaitsLongEnough` that the
  timestamp a denied request met is that far back when it is due, unless another
  request of the client has overtaken it.

`LocalRateLimit_proofs`, for any clients and requests, interval, bound on the dictionary
and number of requests between cleanups:

* `TypeCorrect`: `Spec => []TypeOK`, with the counter below the number that brings a cleanup.
* `DictionaryBounded`: `Spec => []Bounded`: a dictionary over its bound is cut down to the bound
  before the one insertion of the request.
* `OnlyACrowdExcuses`: `Spec => []SpacedUnlessCrowded`.  `Remembered` says that the dictionary has
  every request let through within the interval, or that at some moment since then more
  clients than it has room for were let through in the time of a fresh entry.  An entry
  is evicted only with `MaxTracked` fresh ones behind it, and each of those stands for a
  client let through (`Rooted`): these and its own client are the crowd.  The sets involved are
  finite because they are at each step one larger at most (`Finite`); the clients need not be.

`Accounts_proofs`, for any slots (finitely many), names, passwords, tokens and lifetime:

* `TypeCorrect`: `Spec => []TypeOK`, which says that a session belongs to a registered
  user: ids are dense and rows are never removed.
* `OneOwner`: `Spec => []RegistrationHolds`, from the uniqueness of names and from every
  welcomed account having its row.
* `SpentForGood`: `Spec => []SpentStaysSpent`.  The strengthening says that a deleted token was
  known to a client (`KnownDeleted`), so it is not the fresh one that `Save`, the only step
  that sets a key, writes.
* `RotationLosesNone`: `Spec => []Succession`.  A request at `issue` accounts for the token it
  has deleted; whoever removes the request hands that account on, to a successor the
  client knows or to `closed`.
* `ForksFitTheSlots`: `Spec => []ForksBounded`.  `Room` counts: the successors a token has and the
  requests that have read it and are not over fit into the slots together, and before the token
  is deleted it has no successor (`NoneYet`), so the first count is 0 while the second can grow.

`Api_proofs`, for any requests and whatever they may ask, any users, titles, failures of
the retrieval, and any size of the pool, from `ApiAssumption`, `TokenAssumption`,
`ChatAssumption` and `NowAssumption` (a signed token is one the server made):

* `TypeCorrect`: `Spec => []TypeOK`, with `Owning`: a request asks what it may, acts for the
  user of its token, and the row it has loaded or is about to refresh is that user's or
  deleted.  That it stays so under the others' steps (`OthersOwn`) rests on `Shape`: rows
  are appended, renamed or deleted, and an id is never given twice.
* `OwnToken`, `OnlyOwners`, `Answered`, `ServerErrors`, `NetworkTrouble`: the action properties,
  each a fact of one step under that invariant.  `Moved` names where every action can
  lead its request, so that most actions are ruled out at once; `Told` goes through the
  branches of the mapping class by class.
* `SleepsOnce`: `Spec => []HelloSleepsOnce`, with at most one request asleep.
* `StreamTells`: `Spec => []StreamTellsItsEnd`.  `Telltale` lists, for every state of the
  generator, the few sequences of events that can have been sent.

The proofs go action by action.  Lemmas about `Append` and `Tail` carry `Elements` and
the absence of repetitions through the queues.

Model-checked only: the liveness properties `SavedIsSettled` and `EveryRequestEnds`, which are
out of TLAPS' reach with the provers used.  Every invariant and every other property of a
passing run is stated by a theorem, under the failures its bullet names; those of the
violation runs but `DoneStaysDone` have their counterexamples only.

## 5. Not modelled

* A file left half written by a crash inside `write_bytes`; files are whole or
  absent.
* More than one concurrent deletion request of one document or of the work, more
  than one server process on the same Redis list and database.
* The text: where chunks are cut, embeddings, ranking.  `NumChunks` stands for the
  outcome of splitting.
* Works with documents in `Api`: `RagIngest` has the deletion of one with documents, and
  there uploads and deletions do not wait for connections.  Nor do the account
  endpoints in `Accounts`.
* The end of the process during a request in `Api`: nothing of a request outlives it but
  the rows it has committed.
* The rate limiter in front of `Api`, except that its requests are refused before they
  arrive; `RedisRateLimit` and `LocalRateLimit` model it alone.
* Bodies that validation refuses (422), in `Api` and in `Accounts`.
* In the embedding error mapping, exceptions that none of the branches tests by class,
  such as `httpx.WriteError`: without the words looked for they are an unknown error,
  answered 500, and `NetworkTroubleIsTold` says nothing of them.
* Titles that `strip()` leaves empty, and passwords of more than 72 bytes, which make
  bcrypt raise: no state depends on them.
* `get_current_user_id_optional`, which nothing calls, and `/server-status`.
* Clocks that are set back during a run, and the choice between the limiter's two
  modes, which is made once at startup.
* Logging, settings, prompts, routing tables and response schemas: no state that a
  property could be about.

## 6. Plan

1. `RagState`, `DocumentService`, `IngestWorker`, `RagIngest`, `DocumentLifecycle`
   and their proofs (done).
2. `RateLimit`, `RedisRateLimit`, `LocalRateLimit` and their proofs (done).
3. `Accounts` and its proofs (done).
4. `Api` with `WorksHandlers`, `ChatStream`, `HelloPage`, `AccessToken`, `EmbeddingErrors`
   and their proofs (done).
5. `RagLifecycle_proofs`, `RagSerial_proofs`, `LocalRateLimit_proofs`, `RetryAfterSuffices`,
   `ForksBounded` (done).
6. `iter_chunk_batches` and the embedding client's batches as recursive functions,
   checked against reference definitions.
