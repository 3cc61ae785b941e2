# Formal model of memory_system

TLA+ modules, TLC configurations and TLAPS proofs for the memory service under
`src/src/memory_system` (paths below are relative to that directory).

## 1. Inventory

Three processes work on five stores.

| process | what runs in it |
|---|---|
| memory-api (`api/`) | FastAPI handlers: create, write, read, close a session; admin retry of extraction; retrieval |
| extraction-worker (`entrypoints/extraction_worker.py`) | Kafka consumer that turns context archives into memories |
| consolidation-worker (`entrypoints/consolidation_worker.py`) | cron job that rescores memories |

| component | state it keeps | operations |
|---|---|---|
| working memory (Redis, `infrastructure/redis/`) | per session: meta hash (status, estimated_tokens, compressed_context, compression_version, four pending fields), list of messages, set of message ids | seven Lua scripts, each atomic: write, context read, pending write, finalize, close enter / revert / terminal |
| compression lock (`compression_lock_repository.py`) | one key with an owner token and a TTL | SET NX EX, compare-and-delete |
| compression (`domain/services/compression_*.py`) | nothing but the locals of a request | rounds: read, archive, lock, pending, publish, LLM, finalize |
| session close (`session_close_service.py`) | locals of a request | enter closing, plan, archive the rest, publish, delete, or revert |
| context archives (MongoDB) | documents with a unique archive_batch_key | create or reuse, never changed |
| events (Kafka, topic context.archive.created) | log per user, committed offset per consumer group | publish, consume, commit; manual republish |
| extraction tasks (MongoDB) | one document per archive: pending, processing, completed, failed; attempts; extraction_result; last_error | upsert, compare-and-set transitions, admin reset |
| extraction pipeline (`production_extraction_pipeline.py`) | locals | LLM, entity alignment, reconciliation, graph write, index sync, with replay after a crash |
| memory graph (Neo4j) | entities, memories with memory_version, evidence, supersedes and conflict edges | one write transaction per archive |
| retrieval index (Elasticsearch) | one document per memory | bulk upsert |
| consolidation | an in-process mutex | enumerate users, page through memories, score, write if memory_version is unchanged |
| retrieval (`retrieval_api_service.py`) | retrieval statistics | BM25 and vector search, rank fusion, authoritative reload, scoring, deadline and degradation |

How they interact: a write over the trigger runs compression in the same request;
compression and close insert archives and publish one event per archive; the extraction
worker reads the archive an event names and writes graph and index; consolidation and
retrieval statistics write the same memory nodes.

What is hard, and is listed line by line under `hazards` in `PROJECT.json`: several API
requests work on one session with nothing but scripts, versions and a lock with a TTL
between them; most reads happen before the lock is taken; a request can die between any two
awaits; insertions and publications fail with or without having happened; events are
delivered again after a rebalance; graph and index are written from what was read earlier.

What makes each part correct:

* working memory, compression, close: no accepted message is lost between list, summary,
  archive and deletion; the token estimate is exact; pending fields are dropped only with
  their messages; one lock owner; a closing session does not change; requests answer.
* extraction: every event's task reaches an end or stays visible as unfinished; a completed
  task has its memories written and indexed; replay writes nothing twice.
* graph and index: a candidate supports one memory however often its archive is replayed,
  relations and statuses agree, a document is behind its node only while a task that will
  write it again is unfinished.
* consolidation: one run at a time, no memory that was due is passed over, a score is written
  only to the memory it fits.
* retrieval: every request is answered, with memories that were asked for and statistics that
  agree; what had to be left out is told.

## 2. Plan

All five steps are done; in brackets what could still be added.

1. **CompressionSession**: working memory, lock, compression, close, archives, publications;
   **SessionLog**, the abstract log it implements; proofs.
2. **ExtractionTask**: the partition of a user and its offset, the workers of the group, the task
   document, the pipeline as stages with outcomes, admin retry and rebuild; proofs of everything
   but liveness.
3. **MemoryStore**, the abstract specification of a Memory node; **ReconciliationPlan**, from
   decisions to the plan of a transaction; **MemoryGraph**, which uses both and adds entities,
   replay and the index; implements MemoryStore; proofs. [OBJECT relations.]
4. **Consolidation**: scheduler, mutex, paging cursor, conditional write beside graph writes;
   implements MemoryStore; proofs.
5. **RetrievalRanking**, the pure part, and **Retrieval**: channels, deadline, warnings,
   statistics; proofs. [OBJECT relations in the expansion, confidence in the score.]

## 3. Modules

| module | what it is |
|---|---|
| `CompressionSession.tla` | one session and the requests on it |
| `SessionLog.tla` | what the session promises: an append-only log whose front is folded into a summary |
| `MCCompressionSession.tla` | instances for TLC: symmetry of requests, two message sizes |
| `CompressionSession_proofs.tla` | theorems and their proofs |
| `ExtractionTask.tla` | the events of one user, the workers that consume them, tasks, pipeline, admin requests |
| `MCExtractionTask.tla` | instances for TLC: symmetry of archives, workers and results |
| `ExtractionTask_proofs.tla` | theorems that hold with all faults, and their proofs |
| `ExtractionSafety_proofs.tla` | theorems for a partition that is not taken from a live worker, and their proofs |
| `ExtractionEvents_proofs.tla` | theorems about events, commits and stored results, and their proofs |
| `MemoryStore.tla` | Memory nodes, and what every writer of one promises: the abstract specification of modules 3 and 4 |
| `ReconciliationPlan.tla` | the plan of an archive as operators on the decisions of the LLM |
| `MemoryGraph.tla` | alignment, reconciliation, graph transaction, replay and index of the archives of one user |
| `MCMemoryGraph.tla` | instances for TLC: candidates, the entities they name, another user's memory |
| `MemoryGraph_proofs.tla` | theorems and their proofs |
| `Consolidation.tla` | the scheduled job beside other writers |
| `MCConsolidation.tla` | instance for TLC: initial memories, decay tables |
| `Consolidation_proofs.tla` | theorems and their proofs |
| `RetrievalRanking.tla` | fusion, expansion, scoring as operators |
| `Retrieval.tla` | requests over a graph and an index that change |
| `MCRetrieval.tla` | instance for TLC: three related memories, a document that is behind, five queries |
| `Retrieval_proofs.tla` | theorems and their proofs |
| `DataFacts.tla` | lemmas about largest and smallest numbers that the proofs of Consolidation, MemoryGraph and Retrieval share |

MemoryStore is where the long-term modules meet. A graph transaction is one of its steps
(`graph_safety` checks `StoreSpec`), a consolidation batch is one (checked and proved), and
Consolidation lets the other writers do what MemoryStore allows. ExtractionTask has the task
documents and the offsets with a result in one piece; MemoryGraph starts where the result is
stored and tells its candidates apart.

### CompressionSession

Messages are numbered in the order of acceptance. The Redis list is always a suffix of that
order, so it is `head+1 .. tail`; a batch of consecutive messages is a pair `[first, last]`, and
because the batch key names the first and last message id and is unique, a batch stands for
its key and for its archive id. `Cum[i]` is the token count of messages `1..i`.

| variable | code |
|---|---|
| `live`, `status` | the meta hash exists; its status field |
| `head`, `tail` | the messages list |
| `estimated`, `version`, `summary`, `pending` | estimated_tokens, compression_version, compressed_context (its tokens and the messages it tells of), the four pending fields |
| `lock` | owner of the compression lock |
| `archives` | documents of context_archive: batch, base_compression_version, and who made it |
| `events`, `missed` | archives an event was published for; publications that failed and were only logged |
| `req[p]` | where request `p` stands and the locals it still uses |

Every action is one atomic step of the code: a Lua script, a Redis command, a MongoDB or Kafka
call. The reads before the lock are actions of their own (`ReadMeta`, `ReadContext`), so whatever
the other requests do in between is explored. Steps that are merged, each because no other
request can tell the difference:

* the read that ends a round and the read at the head of the next (`CheckTrigger`,
  `BelowTrigger`) are the same test; a write's re-read of the estimate likewise;
* an archive looked up by key is read together with the context (archives never change);
* the LLM's answer and the finalize script (the answer touches nothing shared);
* duplicate or refused first writes and a close turned away by the lock change nothing and
  are no steps; Redis errors in mid-close are covered by `Crash`;
* locals are reset once no later step reads them.

`MaxMessages` bounds the messages of a session; it is in the guard `Writable` and is the
model's, as is the set `Faults`, which names what may go wrong in a run: `crash` (a request dies
between two awaits), `llm`, `kafka`, `mongo`, `mongoAck` (an insertion raises, stored or not) and
`lease` (the TTL runs out under a live owner; without it the TTL outlasts its owner, which is
what `settings/validators.py` 63-73 asks for).

### SessionLog

`open`, `written`, `folded`, `told`, `kept`: append a message, keep (archive) a run of messages,
fold a kept run from the front into what the summary tells, close. No locks, no versions, no
requests. `CompressionSession` implements it under the refinement `Log`.

### ExtractionTask

The topic is keyed by user, so the events of a user are one partition: `log`, a sequence of
archive ids. Working memory appears only as `Publish`: archives come, some of them twice.

| variable | code |
|---|---|
| `log`, `committed`, `owner` | the partition, the group's committed offset, the worker the group has assigned it to |
| `task[a]` | the document of archive `a`: status, extraction_result, last_error |
| `copies[a][r]`, `indexed[a]` | how often the graph transaction created the memories of result `r`; results whose memories were sent to the index |
| `wk[w]` | where worker `w` stands, its position in the partition, the record in progress, and the locals of `ProductionExtractionPipeline.run` that later stages use |
| `adm[x]` | an admin request between its steps |

A result stands for its memories together with their evidence ids, which the code computes
from archive and candidate; so "the evidence is processed" is `copies[a][r] > 0`, and two
calls of the LLM that give different results give different evidence. Every stage of the
pipeline loads the task again and so does the consumer before its terminal write; each of
these reads is a step of its own (`Align`, `Reconcile`, `PrepareWrite`, `Sync`, `CheckEnd`), because
with two workers, or an admin, the document changes between them. Steps that are merged:

* upsert and the read after it: a document is never deleted, and what changes it in between
  is as good as a change before;
* preprocessing, the LLM's answer and `set_extraction_result`: only the last touches shared state;
* the reads of the graph within reconciliation, and the second evidence lookup with the
  building of the write plan;
* in the index sync, the reads of the graph and the bulk request.

Left out of this module: `attempt_count`, which nothing reads; archives without messages, which
the compression never makes; results with entities but no memories, which leave nothing to
reconcile and are completed by the sync; malformed records and foreign keys, which stop the
worker before anything is touched.

`MaxEvents` bounds the events published; the guard `RoomForEvent` keeps a place for the event an
admin request in progress will publish. `Faults` names what may go wrong: `crash`, `rebalance` (the
group takes the partition from a live worker: an LLM chain may exceed `max_poll_interval_ms`),
`abort` (a stage gives up without an outcome), `ack` (the graph transaction or the completed mark
raises although it took effect), `kafka`, `adminCrash`, `skip` (reconciliation discards every
candidate). Failing stages are always possible.

### MemoryStore and ReconciliationPlan

A node has user, status, `memory_version`, subject, the relation it was created with, the
evidence that supports it, latest source time, creation time, importance and time of its last
consolidation. Content, type and confidence are what its version stands for. `StoreStep` says what
a step may make of a node: create it (version 1, with evidence), rewrite it (version plus one,
no evidence taken away, no return from superseded, importance untouched), or score it
(importance and consolidation time only).

`Plan(d, subject)` is `build_reconciliation_plan`: groups of decisions by target and by
aligned key, conflicts between them, updates, creations, and the evidence each is given.

### MemoryGraph

| variable | code |
|---|---|
| `memory`, `entity` | Memory and Entity nodes |
| `doc` | documents of the retrieval index: status, version and aliases they were built from |
| `task` | status of each archive's task |
| `run[w]` | stage, archive, alignment, plan, seeds and rows of a worker's run |

Alignment reads the entities and draws ids for new ones; reconciliation finds processed evidence,
recalls, decides; the evidence of the plan is looked up once more before the transaction; replay
sets are repaired; rows are read and written to the index without versions. A run that fails,
aborts or dies starts again. That a stage loads the task and finds it processing belongs to
ExtractionTask: here one worker runs at a time unless `Faults` has `rebalance`, which no
run of this module enables. A memory about an entity is identified with the key of the entity;
ids are taken in any order (the code draws UUIDs). A name that several entities know as an alias
is aligned to the one with the smallest id (`FirstMatch`); `IdRank` is that order.

### Consolidation

`heard` is the context variable of the scheduler: the listener that sets it is called after the
task was created, so a run evaluates at the time of the fire before and the first fire of a
process raises (CON-004 ET-2 expects the time of this fire; `Fire` follows the code). `held` is
the process-local mutex, `job` the instances of the job; `job[s].due` is a history of what was
due when the run listed the users. The formula works in hundredths with tables for the
logarithm and the decay (`EvidenceScore`, `Recency`). Users are visited in any order. Telemetry
and counters are left out.

### RetrievalRanking and Retrieval

Fusion, per-seed ranking, aggregation and scoring are operators over integers in hundredths.
`Retrieval` has a request's steps: the two channels side by side with the attempts of the model
clients, fusion, readback, rerank, one-hop expansion, scoring, statistics, and `late`, the
deadline, which may pass at any point and bites where the code looks at it or wraps an await in
it. Documents may be behind their nodes. Left out: confidence, OBJECT relations (tier 1 of the
expansion), memory types, the mapping of the response and the order of warnings. The
two queries of the expansion are taken as one read, and `invalid_request` stands for all refused
inputs. Worth knowing, though nothing promises otherwise: with fewer than all candidates
reranked (`rerank_top_n` smaller than their number) every request is answered with
`rerank_failed`.

## 4. Runs

| run | question | instance |
|---|---|---|
| `session_safety` | accounting, summary, archives, events, pending, soundness of reads, refinement | 2 requests, 3 messages, all faults but `kafka` |
| `session_exclusion` | exclusive lock, frozen closing session, nothing deleted unarchived; requests answer, the lock comes free | 2 requests, 4 messages of sizes 1 and 2, `crash`, `llm`, `kafka` |
| `session_message_loss` | finding: a close deletes messages no archive holds | 2 requests, 4 messages, no faults |
| `session_close_revert` | finding: a resumed close makes the session active again | 2 requests, 4 messages, `crash`, `mongo` |
| `ext_safety` | completed means written and indexed, no offset passes a task in progress as long as no attempt is given up, nothing written twice, results kept | 2 workers, 2 archives, 3 events, 1 admin; `crash`, `ack`, `kafka`, `adminCrash` |
| `ext_rebalance` | what holds even with two live workers on one event | 2 workers, 1 archive, 2 results, 2 events, 1 admin; `rebalance`, `abort`, `skip` |
| `ext_liveness` | a task with an event to come ends | 2 workers, 2 archives, 3 events, 1 admin, no symmetry |
| `graph_safety` | no stale document that nobody will repair, evidence used once, relations agree with statuses, aliases kept, MemoryStore implemented | 2 archives, 4 candidates about 3 names, a memory of another user; `crash`, `fail`, `ack` |
| `graph_partial_replay` | finding: documents stay stale after a replay that plans something new | 2 archives, 3 candidates; `crash`, `skip` |
| `graph_source_time` | finding: latest_source_time goes back | 2 archives; `ack` |
| `consolidation` | one run at a time, complete scans, current scores, MemoryStore implemented, the mutex comes free | 2 job instances, 3 memories of 2 users, batches of 1 |
| `retrieval` | answers, statistics, warnings, no answer without a channel or after the deadline, fusion; every request is answered | 1 request, 3 memories, 5 queries, all faults |

Bounds. Two requests are enough for every hazard on the list: each is about one request that
read something and one that changed it. Three messages let a round archive, trim and start
over; with four the working memory fills (`MaxWorkingMemory = 3`), a second write meets
capacity_exceeded and the stale pending batch of the finding can be built (`session_exclusion`
was also run with `MaxWorkingMemory = 4`: 1.2 million states, nothing new). An archive holds
two messages, so a close of three needs two archives and can fail between them. Two rounds
per request reach the loop's second iteration and its end. Requests are symmetric in the
safety runs; the liveness runs use no symmetry.

For extraction, two workers are the one that is slow or dead and the one that takes over; a
second archive is what lets a later record of the partition be committed; the third event lets
an admin reopen a task while another event of the partition is still to come. Two results
exist only where two LLM calls can both be stored. These runs do not check for deadlock: the
log is bounded, and when it is consumed and the admin is out of room nothing is left to do.

For the graph, four candidates let one archive create and update, merge and dispute, in one plan;
two of them meet in an entity one knows by an alias of the other. Five ids are one more than a
run can use up; `RecallLimit = 2` cuts the recall. Decisions are all the validator admits, over
two texts.

For consolidation, batches of one make every batch a full one and every user's scan end with an
empty one; the third memory is created meanwhile and the first changed meanwhile
(`Touched`, `SourceTimes` and `MaxVersion` bound the other writers). Time ends at 2, which is two
fires that run.

For retrieval, three memories with a supersedes relation and a common subject give direct and
expanded candidates of every status; the document of one is behind from the start and one memory
changes once (`Touched`, `MaxVersion`). `TopN = TopK = 2` cut both lists. `MaxAttempts` is 2 where
the clients have 3: a first attempt, and one that may be the last. One request is enough
because requests share nothing but the statistics, which each only adds to.

Fairness. `FairSpec` asks that a request in progress takes its next step (asyncio resumes
every ready coroutine; each await of the code has an answer or an error) and that Redis
expires the lock key. Nothing forces a new request, a fault or a failing call.
In ExtractionTask it asks that a worker takes its next step, that the group assigns an
unowned partition to some live worker, that a stopped worker is started again and that an admin
request goes on. The third is not the program's own doing: `main` ends with the exception and
`compose.yaml` sets no restart policy, so `TaskEnds` holds for a deployment that restarts its
workers. `ext_liveness` has no faults: with `kafka`, every republication may be delivered and
yet reported failed at the one moment that ends the worker, for ever; with `abort` or `skip` a task
may be stranded (section 5). `ConsolidationFair` and `RetrievalFair` ask that a run, or a
request, takes its next step: each query has a timeout (`neo4j_timeout_seconds`, those of the
HTTP clients), so that it ends one way or the other. A fire, a new request, a fault or the
deadline are never forced; in particular `RequestIsAnswered` does not lean on the deadline.

Every property has a mutant: a definition of the model changed as a plausible bug would change
the code (listed in `PROJECT.json`, written next to what they mutate).

## 5. Findings

* **A close can delete messages that are in no archive** (`ClosedIsArchived`,
  `session_message_loss`). A round reads meta hash and context, another round of the session
  finalizes, the first goes on and writes pending fields for messages that have left the
  list: `pending_archive_write.lua` compares neither version nor list head. Its finalize is
  refused by the version, so the pending fields stay, and the close counts the first live
  messages as covered by them. `DeletedIsPublished` is what does hold: if the pending batch
  really is the head of the list, nothing is deleted unarchived.
* **A resumed close can make the session active again** (`ActiveHasNoCloseArchive`,
  `session_close_revert`) although an earlier attempt has persisted an archive: the progress
  record is local to the attempt.
* **A replay can leave memories out of the index** (`StaleIsUnfinished`, `graph_partial_replay`).
  A candidate the LLM discarded has no evidence, so a replay decides on it again; if it now plans
  something, the set to be indexed is not empty and is not repaired. What the first
  transaction had written before the worker died is not indexed, and the task completes.
* **latest_source_time can go back** (`LatestIsMaxOfEvidence`, `graph_source_time`). An update
  stores the newest source time of its own candidates, not of all the memory's evidence.

Known from the model, with no run of their own (each is one change of `Faults` or of an instance
away):

* the record of an aborted run is committed over (`ProcessingIsDelivered` fails with `skip` or
  `abort`, and is stated, run and proved without them): the consumer does not commit it, but does
  not seek back either (`archive_created_consumer.py:301-305`), and the commit of the next record
  passes it; the task stays `processing`. The task plan EXT-001 rules this out: no offset may be
  committed while the status is still `processing` (the general invariant of C5, line 304), and
  delivery is at least once (C9);
* a task can be completed whose stored memories were never written (`CompletedIsIndexed` fails with
  `rebalance`): two workers ask the LLM, and the one with the empty answer completes the task;
* a rebuild can clear the result of a task that only needs a retry (`ResultKept` fails with two
  admins, with no faults): both read a task that failed with an error that asks for a rebuild,
  one resets and publishes, the task runs again, stores a result and fails with an error that
  asks for a retry; the reset of the other, which looks at the status only, clears the result;
* an alias two entities share can leave documents stale (`StaleIsUnfinished` fails in an instance
  where candidates of different names have an alias in common): an archive writes to the entity
  that knows the alias, another creates a second entity with the same alias and a smaller
  id, and the replay of the first is aligned to that one, so it no longer repairs the
  documents about the entity it had written to.

Not counted as findings: that a round keeps the lock to its TTL after a failed LLM call and
releases it between rounds (the task plan STM-009 describes both); that an API process that dies
between reset and publication leaves a task pending (EXT-008 says so); that two live workers may
write the same memories twice (`OneMemoryPerCandidate` fails with `rebalance`; the documents promise
idempotence under replay).

## 6. Proofs

`CompressionSession_proofs` holds for every set of requests, every number and size of messages,
all settings the validator admits and every set of faults, unless stated.

* `Invariance`: `IInv`, the conjunction of `TypeOK`, `TokenAccounting`, `SummaryComplete`,
  `TrimmedIsPublished`, `EventHasArchive` and `ReadsStaySound`, is inductive. The last part is
  what makes it so: finalize computes from values a request read several steps, and
  maybe another request's round, ago. `ReadsStaySound` says that a read context either has an
  older version than the meta hash (then finalize refuses it) or still is the current summary,
  and that planned and pending batches are accepted, archived messages. The lemma
  `FinalizeMeansCurrent` draws the conclusion: a finalize that is allowed trims exactly the
  messages `head+1 .. plan.last` under the current summary. The lock is not needed for it,
  so the theorems hold with `lease` in `Faults`.
* `TypeCorrect`, `TokensAccounted`, `SummaryAlwaysComplete`, `TrimmedAlwaysPublished`,
  `EventsHaveArchives`, `ReadsAlwaysSound` are its parts; `PendingNeverDropped` and `Refinement`
  are proved from it, action by action.
* `MutualExclusion` and `ClosingFreezes` assume `"lease" \notin Faults` and rest on a second
  invariant, `Owned`: a request inside the locked part owns the lock, and one that has written its
  pending fields finds the session active until it has finalized or given up.
* `DeletedArePublished` assumes the same. Its invariant `PlansHold` says what a close may still
  believe of its reads: from the entering script to the delete the session is closing and, with
  `ClosingFreezes`, list, version and pending fields stand still; the pending batch is published
  or among the ones still to publish; the rest it archives ends where the list ends, and every
  message before the rest is told of or stands for a pending one. It holds through failed
  insertions and publications, and through attempts that died and were taken up by another
  request.

`ExtractionTask_proofs` holds for every set of archives, workers, admin requests and results,
every bound on events and every set of faults.

* `TypeCorrect`: `TypeOK` is inductive because it also says what an action reads without asking:
  a worker beyond the poll is at a record of the log, whose task exists (records and documents are
  never removed, lemmas `WorkerMoves` and `WorkersStay`), and the worker that owns the
  partition has a position (a worker that has been started again has none before it is
  assigned the partition).
* `CompletedFinal`: each write of a task document starts from a status that is not completed.
  Nothing is assumed of the group: two workers may hold the same event.

`ExtractionSafety_proofs` adds the assumption `WorkersAlone`: neither `rebalance` nor `skip` is in
`Faults`; with either, the properties fail (section 5). Workers still crash, answers of
transactions are lost, runs abort, admins retry and rebuild.

* `SafetyInvariant`: `SafetyInv` is inductive together with `TypeOK`. `Alone` says that only the
  owner of the partition has a record in progress, right before its position and beyond the
  offset; from this follows that nobody else's steps touch its task, except admin requests,
  which only touch tasks that are pending or failed. `Knows` says for each stage what the worker
  may rely on: up to the terminal write the task is processing, from the plan on the result is
  either planned and not written or not planned and written, before the mark it is
  indexed. `Comes`, for runs that are not given up, says that the owner will still come to every task
  that is processing. The lemmas `GoesOn`, `GivesUp` and `Stops` say what a worker's step
  comes to, and each action is an instance of one of them.
* `CompletedAreIndexed` and `MemoriesCreatedOnce` are parts of it; `ProcessingRedelivered` assumes
  `"abort" \notin Faults` besides.
* `WritesOnlyWhileProcessing`, an action property no run states: what the graph and the index hold
  of an archive changes only in a step that finds its task processing. Neither write looks at
  the task in the same transaction, so this rests on `Alone` and `Knows`: no redelivery and
  no admin reset comes between the stage's last look and its write. With `rebalance` in `Faults` it
  is false: a worker that lost the partition still writes for a task another one has ended.

`Consolidation_proofs` holds for every finite set of memories and evidence, any number of job
instances, every batch size, every bound on time and every decay table, under
`ConsolidationAssumption` (weights and bounds of the settings are natural numbers, minima not
above the maximum; memories at the start are as a transaction creates them).

* `ImportanceInBounds`: clamping makes a number between the bounds of whatever the formula gives.
* `TypeCorrect`, `MutualExclusion`: by induction on their own; an instance gives the mutex back
  only if it is the one that runs.
* `Inductive`: for each run, a row read is the memory's score as long as the version is the one
  read (`RowsCurrent`), and what was due when the run started is consolidated, changed, still
  ahead of the cursor or among users to come, or in the rows (`Progress`, `DueKept`). The step that
  needs work is the read: a batch that is not full has reached everything behind the cursor, a
  full one everything up to its largest id (`BatchIsPrefix`, from a least-number principle the
  library's well-foundedness of the natural numbers gives).
* `ScanIsComplete`, `WritesCurrentImportance` and `ImplementsStore` follow: equal versions mean
  equal inputs because every other writer keeps to MemoryStore.

`ExtractionEvents_proofs` is about what is still to be delivered. `AdminsAnswer` says that no admin
request dies between its reset of a task and its event (`"adminCrash" \notin Faults`; if one does,
the task stays pending, as EXT-008 says).

* `EventsInvariant`: every position, the committed offset, the position of each worker and the
  record it has in progress, is `Reached`: each record before it has a task, and a pending task
  has an event after it, is being reopened, or is the one the worker is about to take. The log
  only grows, so positions stay reached (`LogGrows`); a worker moves on only when the record's task
  is no longer pending.
* `PendingAnnounced` follows, with every other fault, several live workers included.
* `CommitsAreEnded` assumes that publications are answered (`"kafka" \notin Faults`). If one fails
  after a reset, a second live worker may have taken the reopened task from its old event; the admin
  then leaves it in progress, no later event comes, and the first worker commits the old record.
  `CommitsAreEndedAlone` allows failed publications under `WorkersAlone`, from `SafetyInv`.
* `ResultsAreKept`: `ResultKept`, under `WorkersAlone` and for one admin (section 5 has the run of
  events of two). The invariant `ReadsHold` says that what the admin has read of a failed task is
  true until its reset.

`MemoryGraph_proofs` holds for every finite set of memories, every set of entities, archives,
candidates and aliases, every bound on time and every way the LLM may decide, under
`GraphAssumption` and `InitialAssumption` (other users' memories are as a transaction creates them).
`OneAtATime` says that no second worker takes over from a live one (plans are made from reads that
nothing checks again in the transaction); `NothingSkipped` that no candidate is discarded
(`graph_partial_replay` shows why).

* `GraphTypes`: with all faults. What keeps it inductive is that a plan is made of well-typed
  updates and creations about memories that exist and candidates the alignment covers (`PlanTyped`,
  proved of `Plan` in `PlannedBy` and the lemmas before it).
* `GraphInvariant`: `Knows` says for each stage what a run knows: up to the transaction the
  alignment is the one it would compute now, and the plan fits the graph (`PlanFits`: targets are
  live memories of the user, each is updated once, each replacing update has the memory that
  replaces, the planned evidence is not used); after it the seeds cover what the archive supports,
  and the rows are the nodes. The nodes alone satisfy `EvidenceFits`, `RelationsFit`, `EntitiesFit`.
  The step that needs work is the transaction, which may rewrite, supersede, dispute and create at
  once; the lemmas of the section "One worker at a time: the transaction" say what it makes of each
  memory.
* `EvidenceSupportsOneMemory`, `RelationsAreKept`, `AliasesAreKept`, `GraphImplementsStore` follow,
  the first under `NothingSkipped` too.
* `StaleDocumentsAreRepaired`: a document that is behind is in `Reach` of an archive that is not
  completed. Every step that changes a node, or an entity whose aliases documents carry, puts the
  documents in the reach of the archive that writes; before a run completes, its rows are everything
  in its reach. This needs `Unambiguous`, that no alias leads to two entities; it is a hypothesis of
  this theorem (`[]Unambiguous`), and section 5 tells what happens without it. `NamesAreUnambiguous`
  proves it from `OwnAliases`: candidates of different names have no alias in common.
  `StaleDocumentsAreRepairedOfOwnAliases` puts the two together.

`Retrieval_proofs` holds for every finite set of requests and every set of memories and queries,
with all faults, under `RetrievalAssumption`, `RankingAssumption` (weights of the fusion are
positive and do not grow with the rank, the decay is a percentage) and `InitialAssumption` (every
memory has evidence).

* `RetrievalInvariant`: requests are typed, on their way (`OnItsWay`: what each stage has of
  channels, warnings, edges and memories), and hold what was asked (`HoldsWhatWasAsked`: candidates
  were read of nodes of the user in an allowed status, answers have sources that are evidence of
  their nodes). The last part survives the other writers because no writer takes evidence away from
  a node or gives it to another user. `StatisticsMatchAnswers` is part of it: the request that ends
  is the one that counts.
* `RetrievalTypes`, `AnswersAreWhatWasAsked` and `StatisticsAreOfAnswers` follow.
* `MissingChannelsAreTold` is about steps. What an answer says of the channels (`Told`) is in
  `OnItsWay` from the fusion on, so it holds after every step. That no memories are chosen after the
  deadline (`ChosenInTime`) is shown for each step of a request: only `Score` chooses them, and only
  in time.
* `FusionIsFair`: fusion adds the weights of the ranks and keeps the first `FusedTopN`, ties broken
  by the best rank and then by id. If both channels rank m higher than n, m has at least the sum of
  n and the better best rank, so it comes first whatever the ids are, and everything that comes
  before m comes before n.

Only model-checked: liveness (`RequestsAnswer`, `LockComesFree`, `TaskEnds`, `MutexComesFree`,
`RequestIsAnswered`), which is beyond the prover, and the violations. Every invariant and every action
property of a passing run is stated by a theorem, some under the hypotheses named above: no
lease runs out under its owner, one live worker, no discarded candidate, no admin request that
dies, no failed republication while two workers live, one admin, no
alias shared between names. What goes wrong without one is told where it is introduced or in section 5. The assumptions of the theorems are `SettingsAssumption` (the inequalities
the validators enforce), `MessagesAssumption` (token counts are natural numbers, no message
exceeds an archive or the working memory), `ExtractionAssumption` (the markers for nobody, no
result and an empty result are different from real ones), `StoreAssumption`,
`ConsolidationAssumption`, and those named above, all of which TLC evaluates in the runs.

## 7. Not modelled

Content of messages, prompts, summaries and memories; parsing and mapping of HTTP requests;
malformed Redis values (the scripts' `invalid_session_state` branches are unreachable from the
states the code writes); timestamps of the session; logging and metrics; loading of settings;
schema migrations and preflight. The checks of an extraction answer
(`extraction_llm_service.py`: lengths, counts, merging of duplicates) are one step with its
outcomes: what passes them is the result. Archives without messages, which the pipeline
completes without storing a result, do not occur: compression and close never make one.
OBJECT relations, confidence, and in a recall the match on type and predicate are abstracted.
A superseded memory that a second live worker disputes at the same moment would be conflicted
again; MemoryStore speaks of one live worker per user. `hybrid_retrieval_service.py` is an older
variant that nothing calls.

The evaluation scripts (`scripts/locomo_eval`) are sequential measurements of answer quality
around the HTTP API and keep no state of the system.
