# Verification of ragmux

TLA+ models of the parts of ragmux whose correctness depends on interleavings,
failures, time and the order of conversions, the TLC runs that check them on
small instances, and TLAPS proofs of the properties that matter most for every
size of the system.

Ragmux is a self-hosted AI gateway written in Go. Clients talk to it with the
OpenAI or Anthropic wire format; it authenticates them by API key, applies
limits, retrieves context from RAG stores and calls one of several upstream
providers. All durable state is in PostgreSQL; several replicas share it and
keep only caches, workers and circuit breakers in memory.

## 1. Inventory

| Component | State | Operations | What is hard about it | Correct when |
|---|---|---|---|---|
| Ingestion queue (`rag/ingest.go`, `store/documents.go`, the upload and reprocess handlers) | rows of `documents`: status, claim, lease, attempts; workers of every process | upload, reprocess, reprocess all, delete, claim, heartbeat, commit, failure, shutdown, janitor | leases expire under slow owners, processes crash between statements, a request arrives for a document that is being processed | a superseded job publishes nothing; nothing is stuck; everything settles |
| Upstream calls (`gateway/pipeline.go` invoke, `breaker.go`, `retry.go`) | one breaker per connection in memory; the walk of each request | allow, report, retry, fall back, forced call, answer | concurrent requests share a breaker; probes, late reports, panics, departing clients | the breaker opens and closes exactly when it should; no call is repeated that may have been processed; a healed upstream is used again |
| Limits (`limits/limits.go`, `store/usage.go`, `keyusage.go`, `sessions.go`) | counter rows per project, key and session | check, re-check after retrieval, record | check-then-act across replicas; compensation when a second step fails; records in a later minute | caps are never exceeded by concurrency; every request is counted once |
| Request pipeline (`gateway/gateway.go`, `pipeline.go`, `messages.go`, `embeddings.go`, `rerank.go`, `retrieve.go`, `tools.go`) | one request: its targets, side charges and log row | authenticate, decode, tool policy, route, limits, prepare, invoke, record | early returns, attempts and side calls: each call must be paid for once | every admitted request is logged once, with what it cost and what the client was told |
| Streaming (`gateway/gateway.go` stream, `messages_native.go`) | a goroutine per adapter, a channel, a timer, the client | relay, ping, give up, drain | a client that leaves, a timer and an adapter that ends at the same moment | an error leaves the client without a byte; the row tells what the client got |
| Provider streams (`provider/*.go`, ChatStream and the Messages encoder) | the adapter's place in a wire protocol | one wire event at a time | block numbers, signatures, wrapped answers, failures in the middle | what the client puts together is what Chat would have returned |
| Provider requests (`provider/*.go`, conversions) | none | translate a conversation, plan its thinking | turns merged and split, results without ids, limits of each API | nothing is lost or moved; the provider accepts the thinking it is asked for |
| RAG stores (`store/ragstores.go`, `vector.go`, `ftsrebuild.go`, `rag/retrieve.go`) | store row (connection, width, language, applied language, cursor); chunk rows | create, update, delete, ingest, copy vectors, rebuild batch, search | settings change under running jobs; rebuild batches of several replicas; searches read twice | vectors of one store come from one model; a search never uses a half-built column |
| Accounts, sessions, keys (`admin/setup.go`, `users.go`, `keys.go`, `sessions.go`, `auth`, `store/users.go`, `apikeys.go`) | users, sessions, keys, the admin lock | first-run setup, sign in and out, create, update, delete, change and reset a password, mint, edit, revoke | two setups at once; administrators demoting each other; a sign-in between a reset and the drop of the sessions | one first user; always an active administrator; no credential outlives the password it came from unless a step failed |
| Login limiter (`auth/ratelimit.go`, `store/loginattempts.go`) | rows of attempts | check, record | counted in other statements than the one that records | the excess over a cap is bounded by the attempts in progress |
| Connections, routes, projects, members, quotas (`admin/admin.go`, `routes.go`, `store/connections.go`, `routes.go`, `projects.go`, `members.go`) | rows and the lists that belong to them | create, update, delete, replace a list | a check and a write in different statements | a route's targets serve it and are those of one request |
| Vector tables (`store/vectorindex.go`, `vector.go`) | one table and index per width | ensure, bind, reindex | concurrent DDL, a lock that is tried, builds cut short | a store never lands on an exact scan; builds do not meet |
| Migrations (`store/db.go`, `readiness.go`) | applied versions, two advisory locks | start, migrate, build an index outside a transaction | replicas of two releases start together and are cut off | starts do not wait for each other for ever; a ready replica has its schema |
| Janitor and retention (`maintenance/janitor.go`, `store/retention.go`) | an advisory lock, the expiring rows | elect, delete in batches | two leaders behind a pool, rows refreshed during a batch | only idle rows go |
| Secrets (`store/instance.go`, `crypto.go`, `connections.go`, `cmd/ragmux/rotate.go`) | the canary, the sealed credentials | start, upgrade, create, update, rotate | starts with different keys, a rotation that stops half way | one key opens everything that is stored |
| Parsing, chunking, ranking, MCP, pricing, observability, configuration, dashboard | none, or nothing that is read back | conversions | - | covered by table tests in the repository |

The components call each other like this: a request passes authentication, the
limiter's check, retrieval (a search of a RAG store), the limiter's second
check, the walk over the targets, in which an adapter translates the
conversation and reads the stream, and the limiter's record. The admin API
changes accounts, connections, routes, stores and documents; the ingesters of
all replicas pick documents up from the table, embed them through a provider
and write chunks; the rebuilders of all replicas follow language changes. At
its start a replica migrates the schema and checks its key. The database rows
are the only thing replicas share.

`PROJECT.json` lists every component, the hazards with their source lines, and
for every definition the lines it models.

## 2. Modules

| Module | Models | Checked by | Proofs |
|---|---|---|---|
| `IngestQueue` | the `documents` table as a work queue | `MC_IngestQueue`, `MC_Live` | `IngestQueue_proofs` |
| `DocumentLife` | what the queue promises of a document | as a refinement of IngestQueue | `IngestQueue_proofs` |
| `Failover` | one replica's breakers and the walks of its requests | `MC_Failover` | `Failover_proofs` |
| `RagStore` | one store, its chunks, jobs, rebuilders and searches | `MC_RagStore`, `MC_Live` | `RagStore_proofs` |
| `Request` | one request from its credential to its log row | `MC_Gateway` | `Gateway_proofs` |
| `Limiter` | the counters and the limiter's three entry points | `MC_Gateway` | `Limiter_proofs` |
| `Meter` | what the limits promise of a request | as a refinement of Limiter | `Limiter_proofs` |
| `Relay` | one streamed call between adapter and client | `MC_Gateway` | `Gateway_proofs` |
| `Streams` | the adapters' streams and the Messages encoder | `MC_Gateway`, `MC_Streams` | `Gateway_proofs` |
| `Translate` | a conversation on its way to a provider | `MC_Gateway` | `Gateway_proofs` |
| `Accounts` | users, sessions and keys | `MC_Operations` | `Accounts_proofs` |
| `LoginLimiter` | the throttle of sign-in and setup | `MC_Operations` | `Accounts_proofs` |
| `Catalog` | connections, a project, its members, a route, a store's quota | `MC_Operations` | `Operations_proofs` |
| `Migrations` | replicas that start together | `MC_Operations` | `Operations_proofs` |
| `Secrets` | the canary and the sealed credentials | `MC_Operations`, `MC_Secrets` | `Secrets_proofs` |
| `VectorIndex` | the table and the index of one width | `MC_Operations` | `Operations_proofs` |
| `Retention` | the janitor's batches beside requests | `MC_Operations` | `Operations_proofs` |

Every module has one action per SQL statement or transaction of the code (what
the database makes atomic), one per critical section of a mutex or step of a
goroutine, and one per upstream call; between them everything interleaves.
Definitions named `X_Something` directly before `X` are deliberately wrong
versions of `X`, the plausible bugs each property is shown to detect; no
specification uses them.

`MC_Gateway`, `MC_Operations` and `MC_Live` each put several modules into one
instance. The parts share no variable and no step, so nothing is gained by
interleaving them: a behaviour picks one part, which moves while the others rest
in one of their initial states. The state space is the sum of the parts' and not
their product.

### IngestQueue and DocumentLife

State: `row` (status, claim, lease, attempts and the settings version of the
chunks), `job` (one per worker slot and process), `proc` (a process's life; a
restart is a new process because `newOwner` names every process afresh), `ver`
(the version of the store's settings), `enq` and `bulk` (handlers between their
status write and their Enqueue), `crew` (how many workers a process is started
with, `INGEST_WORKERS`), and histories: `want` (settings version at the last
request for a document), `passed` (jobs whose own process has claimed their
document again) and `stray` (documents such a job has made ready).

Actions follow the code: `Upload`, `Reprocess`, `ReprocessAll`, `Delete`,
`EnqueueAccepted`/`EnqueueRefused` and the bulk pair are the handlers; `Claim`,
`DropClaim`, `Begin`, `Heartbeat`, `StoreChunks`, `JobError`, `FailWrite`,
`ClearClaim`, `EndQuietly` the dispatcher and the workers; `Stop`, `Cancel`,
`Release`, `Crash` the end of a process; `LeaseExpires` time; `FailExhausted`
the janitor. A lease is live, expired or null: how long it runs does not matter,
only that it may run out under an owner that is merely slow. `DbFaults` lets the
writes fail whose errors the code ignores, and lets the answers of a claim
(`ClaimUnanswered`) and of a commit of chunks get lost.

The owner of a row is a process, not a job. When the lease of a slow job has run
out and another worker of the same process claims the document, the row names
that process again, and the checks of `ReplaceDocumentChunksFrom` let the older
job through. With the default of two workers this happens, so the properties
name it: a ready document is as new as its last request unless a `passed` job
published it.

`DocumentLife` knows nothing of claims, leases and processes: a document that is
there is asked for, and has an outcome that is at least as new as the last
request, a failure, or is removed. While a document is `redone`, taken up again
beside an older effort, that effort may be its outcome. Under the mapping `LifeState` (pending and
processing are both "queued") every step of the queue is one of these or none.
A failure may also hit a ready document, see section 5.

### Failover

State: `br` (each breaker: open, failures, the ages of its opening and its
probe, the probe's token), `req` (each request: where its walk stands), `gone`,
`spent`, `up`, and `sent` (history: targets whose call may have been processed).
Clock readings are replaced by ages capped at `OpenFor`, because the code only
compares them with it. An attempt is abstracted to how it ends: complete, cut,
transient error, fault after sending, configuration, terminal. `Verdict` is
`outcomeOf`; `CanRetry` and `FallsBack` are the two bits of `classifyAttempt`.
The failure count is capped at the threshold, which it is only compared with.

### RagStore

State: the store row (`alive`, `conn`, `dims`, `lang`, `applied`, `cursor`), the
chunk rows by id (`owner`, `fts`, `by`), the ingest jobs, the rebuilders and the
searches. A vector is the connection whose model made it; an `fts` value is the
language it was built with. `Update`, `Store` and the rebuild batch take the
store row's lock; the batch is two steps (`BatchStart`, `BatchEnd`) because
`DeleteDocument` does not take that lock and may commit while the batch's UPDATE
runs. Claims on documents are the subject of IngestQueue, so here a
job may fail at any time.

A chunk's vector and the width its store is bound to are kept apart, because the
code compares a query, and a donor of copied vectors, only with the width:
`Width` maps connections to widths, and the runs have two of equal width and one
of another. Histories name what these two weaknesses let through, exactly:
`missed` has the chunks after a full batch that lost a row to a deletion and so
passed for the last one; `lent` the documents whose job copied vectors that were
another connection's while the store was bound to it, or that had come in that
way before, and `foreign` the chunks such a job stored. The properties hold of
everything else.

### Request

State: where the handler stands (`pc`, `ep`), the client (`gone`, `answer`), the
tools before and after the project's policy, the targets and the walk (`at`,
`retries`, `attempt`), what upstreams were paid for (`billed`, history), the
side charges, the row (`row`), the prices, and the rows written. One action per
stage of the handlers: authentication, project choice, decoding with its
refusals, tool policy, route, `checkLimits`, retrieval with condensing, query
embedding and LLM rerank, the attempts of each endpoint, `failInvoke`, and the
deferred `record`. Tokens are a bag of calls, so that one counted twice, lost or
priced with the wrong connection is seen. The walk of `invoke` is reduced to
try, repeat and move on; `Failover` has its breakers.

### Limiter and Meter

State: the counter rows of one minute row per tier and of one budget window, and
the requests in progress (`call`), statement by statement: `Read`, `Decide`,
`Reserve`, `Undo`, `Retrieve`, `Recheck`, `RecordSubject` per tier. A statement
may also be committed and its answer lost: a reservation then leaves a slot
nobody holds (`ReserveUnanswered`), a release ends the check before the second
one (`UndoUnanswered`), and a record charges no later tier. `adm`, `rec` and
`lost` are history. `Leave` is a client that goes away: statements under its
context fail from then on, the rollback of a slot included.

`Meter` is the same without statements: a request is granted in one step, on all
its capped tiers or on none, while each has room (`Grant`); then every tier is
paid at most once, the project first and the others the same (`Pay`), unless a
failure ends the record before (`GiveUp`). Under the mapping `Metering`, `used` is
what was admitted, and a request is open from its admission until its last tier
is recorded (`OpenRequest`). Reading, deciding, reserving, rolling back and
failing before admission are no steps of `Meter`; nor are the retrieval and the
second token check, which refuse an answer but give no slot back.

### Relay

State: the upstream, the adapter goroutine with the chunk in its hand, the
channel, the timer of the first-byte budget, the client and the server's
knowledge of it, the handler and the row's status. The canonical path and the
native one share the actions; `path` tells them apart.

### Streams

State: the upstream's place in its wire protocol (`wire`), the adapter (`ad`),
the Messages encoder (`enc`), what the client has put together (`got`) and,
beside it, what the same adapter's Chat returns for the same content (`said`).
One action per wire event of each protocol. Text is a sequence of tokens; only
the structured answer of an Anthropic model, which is cut out of a tool's JSON
input, has tokens with a meaning.

### Translate

A conversation is built turn by turn (`Say`) as a client may build it, then sent
once (`Send`): `Chat`, `Inject`, `ToAnthropic`, `ToGemini`, `ToOllama`, `Native`
and the thinking plans are pure operators, one per conversion of the code.
`Models` has one model of every kind of the model table.

### Accounts and LoginLimiter

`Accounts` has the rows of users, sessions and keys, the advisory lock of
`adminGuardedTx`, and the requests of all replicas between their statements. A
password is a version number, a session or key remembers the version and the
deactivation count it was made under, and `raced` and `excused` record why one
may be older than its account. `Abort` lets a statement fail, or a process die,
anywhere. `LoginLimiter` has the rows of `login_attempts` that are failures and
counts them per name and address in the last minute and per pair in the lockout
window; a row leaves the minute (`Age`) and the window (`Expire`) at any time
and in any order, since clocks and windows only matter through what is counted.

### Catalog

Connections, one project with members and a route, and the documents of one
store. Lists are replaced as PostgreSQL does it at READ COMMITTED: the DELETE
works on the snapshot of its start (`SnapshotList`), waits for rows that another
transaction is deleting (`DeleteListed`), and does not see what was committed
meanwhile (`InsertListed`).

### Migrations

Replicas of this release or the one before start on a database at any version.
Both advisory locks, the transaction of a normal migration, and the steps of an
index built outside one are actions; `CutOff` ends a start anywhere. `WaitsFor`
is the wait-for graph PostgreSQL would see.

### Secrets

State: the credentials (the key that seals each and its version), the canary,
the processes. A key opens a credential or it does not; that is all there is of
cryptography. Starts (`Load`, `Precondition`, `Seal`, `Verify`, `Upgrade`),
edits of connections by serving gateways, and `rotate-key` interleave, and
`Exit` ends any process anywhere. `Up` is the operator's part: gateways are down
while a key is rotated, as `rotate.go` demands.

### VectorIndex

One width of 2001 to 4000 dimensions: first ingests of stores (`PreCheck` to
`Bind`), the reindex action and its background build, deletions of stores, and
replicas that stop. `exact` and `cut` are history.

### Retention

Two replicas that both lead (`Pooled`, session locks behind a pooler), the
batches over request logs, session totals and retired keys, and requests that
write logs and refresh totals between a batch's snapshot and its deletion.

## 3. Runs

| Run | Shows | Instance |
|---|---|---|
| `ingest_queue` | a superseded job publishes nothing unless its own process has claimed the document again, a running process holds no claim nobody works on, and the queue implements `DocumentLife` | 2 processes with 1 worker each, or 1 process with 2 workers; 1 document, 2 attempts, 2 settings versions, 2 requests, "reprocess all" |
| `live` | every queued document settles while a process runs; the cursor never passes a chunk of an old language, a language that stays set is applied | see below |
| `ingest_stuck` | a violation: "reprocess all" leaves a document pending for ever | 1 process |
| `failover_walk` | breakers open exactly at the threshold, probes do not overlap, a walk repeats no call that was sent and ends with an attempt | 2 requests, a primary and its fallback, threshold 2, 1 retry |
| `failover_live` | requests end; a healed upstream's breaker closes, with panics, departing clients and budgets | 1 request at a time |
| `store_safety` | vectors of the store's width, and of its connection but for `foreign` ones; an applied language is complete but for `missed` chunks; searches read what they were planned for | 3 connections, 2 of them of equal width, 2 languages, 2 documents, 3 chunks, 1 rebuilder, batch of 1, 1 search |
| `cut_batch` | a violation: a deletion inside a batch gets a language applied before its chunks are rebuilt | the same with 1 connection and no search |
| `gateway` | accounting and tool policy; counters are what their requests explain, caps hold, the limiter implements `Meter`; streams, conversions | see below |
| `operations` | an administrator remains, one first account, no unexplained stale credential, revoked stays revoked; login caps; routes, quotas, migrations, keys, indexes, retention | see below |
| `stream_error` | a violation: an error object in an OpenAI stream ends as a normal answer | the `openai` adapter |
| `retry_open` | a violation: a request is retried at a target that has opened during its backoff | the instance of `failover_walk`, with fairness |
| `wrong_canary` | a violation: the wrong key becomes the canary | databases of an older release whose first connection has no key |

`live`: the queue with 2 processes of 1 worker each, 1 document, 2 attempts, 2
requests, failing writes and lost answers, without "reprocess all"; and a store
with 3 languages, 2 documents, 2 chunks, 2 rebuilders and batches of 1, deletions
inside them included.

`gateway`: 2 chat connections, an embedding and a rerank connection, 1 retry, 2
tools; for the counters 2 requests at a time of 3, over 2 minutes, in two
deployments (request caps with failing and unanswered statements and departing
clients; token caps, budgets and a session
under failing statements); 3 chunks and a channel of 1 (the code's is 16, but a full and an empty
channel are what differ); streams of up to 9 Anthropic, 5 OpenAI or Azure
and 3 Gemini or Ollama events, which is two blocks or two calls; conversations
of 3 turns, 5 for Gemini, which needs two tool rounds to reuse a call id.

`operations`: 2 users, 2 account requests at a time, 3 sessions and 2 keys, over a
new database and over ones in use that begin with a management key; 2
sign-ins from 2 addresses; 2 admin requests over 2 connections, a limit of 1
document and uploads of 2 files; 2 replicas with migrations 1 to 3, of which 2 is outside a
transaction, and 2 starts each; 2 processes, 2 keys, 2 connections; 2 replicas
and 3 stores on one width; 2 janitors, batches of 1, a window of 1 day in 4.

Races between two actors are what most of the code guards against, so two of
everything that acts is the least that shows them; a third adds a repetition. A
counter runs one step past the constant it is compared with. The bounds
`MaxRequests`, `MaxVersion`, `MaxMinute`, `MaxChunks`, `MaxEvents`, `TurnBound`,
`MaxPw`, `MaxOff`, `MaxWeb`, `MaxFailures`, `MaxEdits`, `MaxStarts`, `MaxDay`,
`MaxLogs` and `MaxChunk` end otherwise infinite behaviours and stand for nothing
in the code. Runs with `CHECK_DEADLOCK FALSE` are those in which these bounds,
or the end of a request, stop the system.

Every property has a mutant in `PROJECT.json`: a wrong version of one mapped
definition under which the run finds it violated.

### Fairness

`IngestQueue`: a running process keeps claiming and its workers keep working
(goroutines the runtime schedules), a cancelled process ends, a lease that
nobody extends runs out (time passes), the janitor runs. Crashes, requests and
failures have none. `Failover`: a request in the walk goes on, an upstream call
ends one way or another (every call has a deadline), time passes; for `Recovers`
there is also traffic, and a healthy upstream that is asked again and again
answers sometime (strong fairness): a breaker closes only because somebody asks.
`RagStore`: rebuilders poll (weak), and their batches do not fail or find the
store busy for ever (strong, because other transactions switch them off
again and again).

## 4. Proofs

`tlapm` checks the theorems below, for every number of documents, processes,
requests, connections, accounts, replicas and stores, every cap and limit, every
length of a streamed answer and every capacity of its channel. Those named
`...IInvAlways`, which are not in the table, say that an inductive invariant
holds.

| Theorem | Assumes | Says |
|---|---|---|
| `IngestQueue_proofs!TypeCorrect` | - | rows, jobs and counters keep their types, whatever fails |
| `IngestQueue_proofs!PendingAlwaysClaimable` | `~BulkReprocess` | a pending document has an attempt left |
| `IngestQueue_proofs!ReadyAlwaysFresh` | - | a ready document is as new as the last request for it, unless a job whose process had claimed it again published it |
| `IngestQueue_proofs!QueueImplementsLife` | - | every step of the queue is a step of `DocumentLife` or none |
| `IngestQueue_proofs!ClaimsAlwaysWorked` | `~DbFaults` | every claim of a running process has a job that works on it, and no row is claimed past the attempts it has |
| `IngestQueue_proofs!StaleJobsAlwaysHarmless` | - | a job whose document was taken over replaces neither chunks nor claim |
| `Failover_proofs!WalksAlwaysSound` | - | a walk repeats no call that may have been processed and ends with an attempt |
| `Failover_proofs!ProbesNeverOverlap` | - | no second probe while one's call runs, unless it is overdue |
| `Failover_proofs!BreakersAlwaysSound` | no panics | a taken probe slot has a holder; open exactly at the threshold |
| `RagStore_proofs!TypeCorrect` | - | types |
| `RagStore_proofs!StoreAlwaysSound` | - | every vector has the width of the store's connection, and is of its model unless it was copied across a connection change |
| `RagStore_proofs!CursorAlwaysCovers` | - | chunks up to the cursor are in the current language |
| `RagStore_proofs!AppliedAlwaysExplained` | - | an applied language is every chunk's, but those a cut batch left behind |
| `RagStore_proofs!SearchAlwaysSound` | - | (action property) a search uses the column only with its configuration, and meets another model only where the store has moved to a connection of equal width or vectors were copied |
| `Limiter_proofs!CountersAlwaysExplained` | - | each counter is what was admitted, is being decided, or was lost |
| `Limiter_proofs!CapsAlwaysHold` | - | request caps hold; a budget is overshot by less than one longest answer per request in progress |
| `Limiter_proofs!LimiterImplementsMeter` | - | every step of the limiter is a step of `Meter` or none |
| `Gateway_proofs!ErrorsAreAlwaysClean` | - | a stream call that ends with an error has sent nothing and settled no row |
| `Gateway_proofs!RowsAlwaysTellTheTruth` | - | a streamed call's row says what the client got |
| `Gateway_proofs!ToolMeaningAlwaysKept` | - | the policy only takes tools away |
| `Gateway_proofs!AlwaysAccounted` | - | a row counts each call that served its request once, at the right price |
| `Gateway_proofs!AlwaysAnsweredAndLoggedOnce` | - | nothing is bought before admission; one answer, one row, and they agree |
| `Gateway_proofs!BlocksAlwaysNest` | - | a Messages stream begins once, has one open block at a time and ends with none |
| `Gateway_proofs!ThinkingIsTaken` | - | the thinking an adapter asks for is one its provider takes |
| `Accounts_proofs!AnAdminAlwaysRemains` | - | an installation with accounts has an active admin |
| `Accounts_proofs!OneFounder` | - | one first account |
| `Accounts_proofs!StaleCredentialsAlwaysExplained` | - | an old credential raced the change or its revocation is under way, declined or failed |
| `Accounts_proofs!RevokedKeysStayRevoked` | - | (action property) a revoked key never lives again |
| `Accounts_proofs!LoginCapsAlwaysHold` | - | a login cap is overshot by at most the other requests in progress |
| `Secrets_proofs!KeysAlwaysAgree` | `FirstSpeaks` | the canary's key and every serving gateway's key open everything |
| `Operations_proofs!RoutesStaySound` | - | a route's targets are those of one save and fit it |
| `Operations_proofs!OvershootAlwaysBounded` | - | a store's limit is passed by at most the files of all uploads but one |
| `Operations_proofs!IndexesAlwaysSound` | - | no store is bound to a table without a valid index unless a build was cut short |
| `Operations_proofs!IdleRowsOnlyGo` | - | (action property) retention keeps attributions and live session totals |
| `Operations_proofs!StartsAlwaysMeet` | - | starting replicas never wait in a circle and serve a complete schema |

The four assumptions name what the code does not guard against, and TLC violates
the property without them: `~BulkReprocess` ("reprocess all" is not used, see
`ingest_stuck`), `~DbFaults` (the writes whose errors `runJob` ignores succeed and
every claim is answered: otherwise a row stays claimed and nobody works on it
until the lease runs out), no panics (a panic in a provider call skips `report`,
and the probe's slot comes back only when `allow` finds it overdue),
`FirstSpeaks` (in a database without a canary the first connection's key opens
the others', see `wrong_canary`). Everything else the code lets through, two
workers of one process on one document, connections of equal width, a deletion
inside a batch, is inside the models, and the statements say what it costs.

The theorems rest on the named `ASSUME`s of the modules, which say of the
constants what the code fixes: caps and limits are natural numbers, sets of
actors that are counted are finite, markers such as `NoOwner`, `Nobody`,
`NoHolder` or the empty name of setup are not among the things they stand beside, and a deployment
has some request it serves at the highest price. TLC evaluates them on its
instances.

The arguments:

- Pending: `Sound`, a pending row has attempts left and an absent one is clean,
  is preserved by every statement on a row (`RowStep`), and every action is
  such a statement on each row (`RowSteps`).
- Fresh: a ready row says nothing about the job that may overwrite it, so the
  invariant adds `HolderIsFresh`, the job that may still commit works with
  settings as new as the last request unless it is `passed`, and `WantIsPast`. A
  request takes the claim away, which makes `HolderIsFresh` true again for every
  other job; a claim by the process of another job puts that one into `passed`
  (`PassedStep`), and a commit of such a job its document into `stray`
  (`StrayStep`). `QueueImplementsLife` adds `JobsPast` and goes through the
  actions: `Unseen` for the ones no user sees, `TakeUpStep` for claims, one step
  of the abstract module for the others.
- Claims: only `Claim` makes an owner (`NoNewClaim`), an idle worker works on
  nothing and a process that has not started owns nothing (`ClaimInv`), and a job
  that ends gives its claim back in the same step or is told it has none. That a
  stale job is harmless follows from `StoreChunks` alone: it commits under the
  row's lock and compares the owner there.
- Walks: `WalkOK` keeps the position within the route, says which steps have an
  error to answer with, and puts every call that may have been processed before
  the position, or at it when the step that judges it has not run.
- Probes: `TokensApart` gives a token to one request at most. A breaker whose
  slot is free although its current token is in use got it back by a failure,
  which reopened it after the probe began; so `openAge <= probeAge`
  (`LateOpening`, `FreedProbes`), and half-open again means the probe is overdue.
  `BreakersAlwaysSound` adds `ProbeSlotHeld`.
- Store: between the embedding and the store step a job remembers the connection
  and the width it started with, and that its vectors have the model of that
  connection unless it is `lent` and the width in any case (`JobsKnow`); a
  commit compares connection and width under the row lock. What is `foreign`
  follows the chunks of `lent` jobs (`LentStep`, `ForeignStep`).
- Cursor: `OneBatch` (the row lock), `BatchHasNoGap` (no chunk below the
  batch's end outside the batch that is not rebuilt) and the cursor clause are
  inductive together. For an applied language, a batch that changes fewer rows
  than the limit either selected fewer, so that it has reached the last chunk, or
  lost one, and then every chunk after it is in `missed` (`LastBatch`).
- Search: the plan is read in the snapshot that is searched, so the applied
  language's invariant speaks of the same rows; the hits are the vectors of one
  width, which by the store's invariant are the bound connection's or `foreign`
  (`AnswerStep`).
- Counters: `CallOK` says which slots a request holds at each statement: none
  before `Reserve`, those of the capped tiers passed during it, all of them
  after. With it each step changes `SlotsAccounted` by one request on one tier, be it an
  unanswered one that goes to `lost`,
  and `NoOverGrant` bounds what was admitted and what fits. For budgets the
  invariant counts the requests that saw room and have not paid (`Debtors`); one
  that pays leaves that set and adds at most `MaxCost` (`SpendingBounded`). That
  no tier is charged more than its project needs a sum over requests of what the
  record under way still owes; it is an additive function on sets of slots
  (`SumsTo`), so that no induction is needed.
- Meter: `CallsSound` gives an admitted request all its capped slots and
  `NoOverGrant` says that what was admitted and what fitted is within the cap, so
  at `Admit` every tier still has room and the grant is one atomic step although
  its slots were reserved in different ones. Before it nothing shows
  (`EarlyStep`); between admission and record nothing is paid (`NothingPaid`); a
  record at a tier has paid those before it (`UnderRecord`), with the tokens it
  carries in `est`, so each `RecordSubject` is one `Pay` and a skipped tier none.
- Stream: the verdict is read off how the reader ended, so the invariant says why
  it ended (`CauseKnown`: the upstream failed, the context was cancelled, or a
  write failed), that for a client that stays every chunk the upstream said is
  written, queued or in hand unless the timer fired (`NothingLost`), what the
  handler knows of client and timer (`HandlerKnows`), and that it ends only with
  the reader gone and the channel empty (`EndsLast`). One lemma per action.
- Blocks: an event the client hears is judged against what it has heard
  (`HearEvent`), so the invariant `NestInv` ties the encoder to the client: the
  block the encoder believes open is the one the client has open, its next number
  is the client's, and each chunk an adapter hands over is `Good` (sequences of
  thoughts and calls). One chunk keeps this by the steps of `EncChunk` in their
  order (`ChunkInStep`); a batch of chunks is a fold, which is unfolded one element
  at a time (`FoldSteps`), and what each step keeps holds after the last, since a
  least stage at which it fails would follow one at which it holds (`FoldStays`,
  used by `ChunksInStep`, `CallsInStep` and `ThoughtsInStep`). Then one
  lemma per wire event of every adapter. What an upstream may say in one event is
  enumerated in `StreamNext` (up to 3 calls in a chunk, 8 tokens of an answer, two
  parts in a Gemini frame) and is not a parameter; how many events there are is.
- Thinking: `budgetPlan`, `adaptivePlan`, `clampEffort` and the plans of Gemini and
  Ollama are arithmetic over the rows of the model table, so the proof is a lemma
  per plan (`BudgetPlanFits` to `OllamaPlanFits`) under what a row of each kind
  looks like (`ModelRows`), and what the adapter does to the plan afterwards can
  only take thinking away (`AnthropicPlanFits`, `NativeIsAccepted`). The
  conversation is arbitrary; no fold over it is opened.
- Tools: `governTools` by cases of the choice, on sets (`GovernedToolsMean`).
- Request: what was bought, what is on the row and what was told are fixed by
  stage. A row's tokens are a bag of distinct calls (`Rows`); `ChargesKnown` says
  which side calls a stage can have made, and where each is charged: inside the
  row for a search, beside it for a chat; `SettledByWalk` that a row settled with
  200 has the calls of the attempt that settled it; `Stage` that money, rows and
  answers come in this order; `Told` that the row's status is the client's, or
  499, or 502 for a stream that broke after its 200.
- Admin and founder: `TxOK`. Behind the advisory lock, what a transaction read
  of the accounts (`was`, that there is none yet, that another admin is left)
  still holds when it commits, because every other writer of these rows needs
  the lock.
- Stale credentials: `Explained` is the property with its explanations spread
  over the requests still under way, for passwords, deactivations and keys apart.
  A revocation that is due is a request at its `drop` or `revoke` step.
- Login caps: `Fits`, the failures counted together with the requests that have
  passed the check and may still add one are within `cap - 1 + |Typists|`. It
  holds after a check because the count was below the cap, and a failure moves
  one request from the second number to the first.
- Keys: without a canary the rows are as they were found and nobody is past
  sealing (`Unsealed`); with one it opens all rows (`CanaryOpens`), every gateway
  past it has its key (`GatewaysKnow`), and rotations and gateways exclude each
  other (`Apart`). `MoveKeeps`, `StopKeeps` and `RowKeeps` are the three kinds of
  step.
- Routes: `HandlerSound` says what each step of a save knows while it holds the
  route's row, `TargetsHere` that a target's connection exists. Quota: an upload
  that has counted the documents holds a token for each file it may still store
  (`Tokens`), and documents plus tokens stay within the limit plus
  `(|Handlers| - 1) * MaxFiles` (`QuotaSound`).
- Indexes: `UncutSound` (as long as no build was cut short, an ingest that makes
  no index and found no valid one leaves that to a build in progress) and what the
  holders of the two locks may rely on (`TableSound`, `BuilderSound`,
  `IngestSound`).
- Retention: `PickSound` says what cannot have changed between a batch's snapshot
  and its deletion. A session total that is still the row version that was picked
  is still idle, one that was updated is another version and stays; a picked key
  is retired, has no log, and no request in flight can log under it any more.
- Migrations: what is recorded is a prefix of the sequence (`AppliedInOrder`) and
  built (`AppliedBuilt`). An index build waits only for open transactions, an open
  transaction only for the holder of the lock, and the holder is inside its
  transaction and waits for nobody (`NodeSound`). So no set of replicas waits in
  itself.

Only model-checked: all liveness, which is out of the prover's reach, as is
ENABLED; and `StreamIsWhole`, `NothingIsLost` and `ThinkingGoesBack` (Streams,
Translate). These three equate what two computations over the same sequences
return (the streamed answer and the whole one, the conversation and its
translation, the thinking blocks before and after), through nested folds,
flattenings and selections; an inductive statement for them is as long as the
conversions themselves, and the provers have no induction over data to shorten
it.

## 5. What the models show beside the properties

Findings (violated runs; `PROJECT.json` says what each shows): `ingest_stuck`,
`stream_error`, `wrong_canary`, `cut_batch` and `retry_open`. In `cut_batch` a
full batch loses a selected row to a deletion that commits before its UPDATE
reaches the row; `rows < limit` then holds, the language is marked applied, and no
later pass looks at the chunks after the batch, which are missing from lexical
search until the language changes again. In `retry_open`, `invoke` asks `isOpen` before the
backoff sleep only, so one call per sleeping request still goes to a target that
another request has opened, although `docs/providers.md:957` says it does not.

Properties stated in a module that the code violates, kept out of the runs:

- `StaleJobKeepsStatus` (IngestQueue): with processes p1 and p2 started, `Upload`, `Claim` by p1, `Begin`,
  `JobError` (its pipeline fails), `LeaseExpires`, `Claim` by p2, `FailWrite` of
  p1: `runJob` writes `failed` on a row that another process works on, without an
  owner check. The refused Enqueue of an upload or reprocess handler does the
  same. This is why `DocumentLife!Failure` may hit a ready document.
- `ReadyIsFresh` without its exception (IngestQueue): a process with two workers
  claims a document, the lease runs out while worker 1 embeds, the settings
  change and a reprocess is asked for, worker 2 of the same process claims the
  row, and worker 1 commits: the owner check compares processes. The document is
  ready with the old chunks, although the comment at `vector.go:385-388` says "a
  worker whose lease expired mid-job rolls its own work back instead of replacing
  what the new owner wrote". The job of worker 1 is in `passed` and the document
  in `stray`; `DocumentLife` has the same exception as `redone`.
- `MembersAreOneRequests` (Catalog): two `SetProjectMembers` with overlapping
  transactions leave the union of both lists, since the second DELETE does not
  see the first one's rows. The targets of a route are safe, because the
  route's row is updated first.
- `LeftOutTurnsKept` (Catalog): `in.project(before)` copies the left-out number
  of history turns from a project that was loaded earlier, so a save overwrites
  what another one changed in between. `LeftOutPolicyKept`, whose field is
  COALESCEd in SQL, holds.
- `EstimatedMeansGuess` (Request): `fillUsage` never clears `rec.Estimated`. A
  reranking whose first target is a chat model with an unreadable reply of
  unknown size, and whose second is a rerank API that reports its tokens, is
  marked as estimated.
- `AttributionKept` (Accounts): `DeleteUser` checks for request logs that name
  the account's keys before its DELETE cascades; a call that finishes in between
  loses its attribution. Likewise a log whose key is deleted while the call is
  in flight cannot be inserted and is lost.
- `BudgetSparesStream` (Relay): when the first-byte timer fires between the
  arrival of the first chunk and `timer.Stop`, the answer begins and its
  upstream context is already cancelled.

Behaviours the models contain and no property judges:

- Connections of equal width: a search can compare a query with the vectors of
  the model the store has moved to (`ModelFits` allows exactly that), and a copy
  of vectors across a change of the connection and back mixes two models in one
  store (`foreign`).
- Two admin requests that cross, the save of a route and the update of one of its
  connections, leave a target that cannot serve its route (`crossed`): `CatalogInv`
  says there is no other way, and does not forbid this one.
- A gateway with the old key that is started, or left running, during a
  rotation seals credentials under the old key. The command's instructions
  forbid it and nothing in the code does; `Up` follows the instructions.
- Tokens of attempts before the one that answers are priced with the target that
  answered; the query embedding of a chat is on no row; a search that fails
  after its embedding leaves the tokens in the row for the next target.
- A release of a reserved slot that runs under the context of a departed client
  fails and leaves the slot taken for the minute (`lost`); so does a reservation
  that is committed and not answered.
- A tool round whose turn also has text of the user's own is a tool round for
  the native path and a new question for the canonical one, so the two plan
  thinking differently.
- The Messages encoder drops arguments that arrive for a tool block another
  block has closed; a Gemini signature in a later frame than its call is lost;
  tool results from `/messages` reach Ollama without the tool's name.
- The admin API's update of a connection's type is checked against routes, not
  against projects and stores. A new width's table can be left without an index
  when a reindex is cut short (`cut`).

## 6. Not modelled

- Parsing, chunking, ranking, condensing, policies of retrieval, pricing, the
  weighted order of targets, the network guard, language analysers: functions
  without state, whose tables of examples the repository tests; the models take
  any result of them.
- MCP beyond its search, observability, the dashboard, connection tests,
  presets, reports: no state that anything reads back, or one statement each.
- Configuration and the order of shutdown in `main.go`: wiring.
- Of the modelled components: usage and cost details of streams, images,
  documents, citations, server tools, response schemas, sampling parameters;
  bodies of requests and texts of errors; password hashing, cookies and CSRF;
  the second budget window; metadata filters, pg_search and rank fusion;
  `Snapshot` dropping a breaker whose call is older than an hour; PostgreSQL's
  recheck of a row by its TID in a batch; the wait of DROP INDEX CONCURRENTLY;
  a request in flight for longer than the
  retention of its key.

## 7. Next

- An abstract specification for one request (asked, admitted, answered, logged),
  with a refinement proof along `RequestIInv`.
- The budgets in `Meter`: how far a request that was admitted before may overshoot
  them is `OvershootBounded`, an invariant of the limiter alone so far.
- An inductive statement for one adapter of `StreamIsWhole` (`openai`), on the
  lemmas that unfold the encoder's folds.
- Composition of `Failover` and `Relay`: a stream that fails before its first
  byte is retried by the walk.
- Embeddings, rerank and error envelopes of the adapters.
