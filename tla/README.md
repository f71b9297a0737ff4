# Formal models of the feedback intelligence agent

TLA+ models of the Python package `src/src/feedback_intelligence_agent` (below:
*the package*; `X.py` is a file of it), the TLC configurations that check them on
small instances, and TLAPS proofs for every value of their constants.

```
tlc -workers 2 -config json_index_workers.cfg MCJsonIndex     # one run
tlapm JsonIndexProofs.tla                                     # one proof module
```

`PROJECT.json` lists the runs, the source lines each definition models, the
mutated definitions that each property detects, the hazards and the theorems.

## 1. The system

A FastAPI service (`api.py`, several worker processes, request handlers on
threads) and a CLI (`cli.py`, one process per command) answer questions about
customer feedback. They share files, an optional Qdrant server and an LLM
provider; there is no database and no coordinator.

| Part | State | Operations | Shared with / hard behaviour |
|---|---|---|---|
| JSON index and API snapshots (`agent_snapshots`, `index_persistence`, `index_updates`, `record_ingestion`, `factory`, `vector_store`) | the index file; a file lock; per worker one (agent, file version) | load or build, incremental update, full rebuild, per-request snapshot, ingest and publish | all workers and the CLI; check-then-act, lock-free fast path, crashes with the lock held, failure after the save |
| Qdrant snapshots (`qdrant_ingestion`, `qdrant_coordination`, `qdrant_store`) | the remote collection; a generation marker; per worker snapshot, generation, age | seed, refresh or reuse, replace sources, external writes | remote calls that fail half-way, retries, damaged markers |
| LLM resilience and providers (`resilience`, `llm`) | one circuit breaker per provider | generate with attempts, timeout and backoff, over six providers | all request threads of a process, no lock; failures of every API's own kind |
| Ingestion jobs (`jobs`) | one JSON file per job; the index | submit, run in the background, poll | readers without the lock, truncating writes, restarts |
| Access (`auth`, `api`) | keys, roles and bindings of a configuration | authorize a request, scope it to a tenant | one key with several roles, bindings with holes |
| Conversations (`memory`, `agent.chat`, `api`, `auth`, `cli`) | one JSON file per conversation and caller; key bindings | chat, get | load-answer-save without a lock, keys rebound at restarts |
| Rate limiter (`rate_limit`, the middleware of `api`) | one fixed window per caller | check | window boundaries, rounding |
| Stream ingestion (`streaming_ingestion`) | consumer position and committed offsets; dead letters | poll, validate, ack | acks before results are stored, poll errors |
| Review workflow (`active_learning`, `human_feedback`) | one JSON file per record | judge, patch, get, list, rank a queue | read-patch-write without a lock, two stores read one after the other |
| Reports and e-mail (`reports`, `email_summaries`) | one JSON file per report | save, list, link, send | torn files, a server that refuses |
| Batch commands (`cli`, `ingestion`, `streaming_ingestion`, `synthetic_data`, `lakehouse`) | CSV, dead letters, the index, partition files and metadata | generate, ingest a stream, index, update, export | files written in turn by processes that may die; repeated exports |
| Evaluation, experiments, benchmarks (`evaluation`, `experiments`, `benchmarking`) | report files | measure and write a report | an index that changes in between; rounding, duplicates, percentiles |
| Answer pipeline (`agent`, `tools`, `retrieval`, `lexical_search`, `reranking`, `metadata_filters`, `citations`, `guardrails`, `hallucination`, `output_parser`) | none kept; reads the snapshot of the agent and the live collection | answer a question | limits against filters, fusion of two cut rankings, a paged scan while others write |
| Identities, contracts (`source_ids`, `chunking`, `data_contracts`, `privacy`) | none | encode ids, cut texts, validate batches | collisions, boundaries |
| Telemetry (`telemetry`) | the open spans of a sink | spans | every way an answer may end |

What makes each part correct, in one line each:

- **JSON index**: the whole index behaves as one atomic register (no lost update,
  no build over committed data, no stale answer), and the lock is always released.
- **Qdrant snapshots**: a snapshot under the current generation is the collection;
  a source never disappears; a retried batch converges.
- **Resilience and providers**: the breaker's fields agree, calls end, the circuit closes
  again, and every failure a provider can show is retried and counted.
- **Access**: a request is handled only if the policy of its route allows its key and
  its tenant, whatever the configuration.
- **Jobs**: what clients were told is true and final; submitted jobs finish.
- **Conversations**: turns never cross tenants and are not dropped.
- **Rate limiter**: bursts stay bounded and headers tell the truth.
- **Stream ingestion**: commits skip nothing, nothing is returned twice, nothing is
  waited for in vain.
- **Review, reports**: answers joined from two stores stay in a tenant, a patch is lost
  only to an overlapping one, a refused digest was not sent, and the cut of a queue
  leaves out the least urgent.
- **Answer pipeline**: what the filters exclude displaces nothing and reaches neither
  prompt, tool nor citation; ranking respects what all signals agree on; markers,
  citations and confidence match the evidence.
- **Identities, contracts**: the index is the redacted text of the merged records, no
  record displaces another's chunks; what one command writes the next one accepts.
- **Lakehouse**: a reader sees each exported row once.
- **Evaluation**: the measures of a report agree with each other and with what was measured.
- **Telemetry**: each span of an answer ends once and says how it ended.

## 2. Plan

In order of what breaks worst for users; done unless it says otherwise.

1. `IndexRegister`, `JsonIndex`: the shared index (proved).
2. `QdrantSnapshots`: the same promise over a remote store (proved).
3. `LlmResilience`, then `LlmCalls` (the providers behind it) and `AgentCalls` (an answer
   around them, with its telemetry); each extends the one before (safety of all proved).
4. `IngestionJobs`, `Conversations`: stores with a file per record (safety proved).
5. `RateLimiter`, then `ApiGate`, which puts it in front of keys, roles and tenants;
   `StreamIngestion` (safety of all three proved).
6. `AnswerPipeline`: from the input gate to the citations (safety proved).
7. `ReviewRecords`: judgements, queue, workflow states, reports and digests (safety proved).
8. `PythonLists`, `RecordContract`, `LakehouseTable`, `EvaluationMetrics`: pure algorithms,
   composed by `BatchCommands` (commands over one directory) and `OfflineCommands` (the
   commands that measure, over the same directory) (safety of both proved).
9. Left: requests to Qdrant that take effect after the client gave up; the Kinesis
   stream; sinks of telemetry that fail.

## 3. Modules and how they correspond to the code

In every module a thread, task or request has a program counter `pc`; one action is
one handler or the part of it between two points where others can interfere (a lock,
a file operation, a remote call, a clock reading). A process crash resets what lives
in its memory and keeps files and remote state. Histories (marked so at their
declaration) record what callers were told; no action's guard reads them.

### IndexRegister and JsonIndex

`IndexRegister` is the abstract promise: one register holding the whole index; each
call starts, takes effect at one moment (`TakeEffect`) and ends, or ends without effect.

`JsonIndex` is the code. Contents map each source to the write that produced its
chunks: merging, dropping and reading look at nothing else.

| Variable | Code |
|---|---|
| `file` | the index file with its inode and timestamps (`_file_version`) |
| `lock` | `index_write_lock`, an OS lock, reentrant within a thread |
| `state`, `up` | `AgentSnapshots._state` of each running worker |
| `local` | the store a call has in hand |

| Actions | Code |
|---|---|
| `StartQuery`, `Stat`, `ReloadNotNeeded`, `Reload`, `Publish` | `AgentSnapshots.get` |
| `StartBoot`, `Open`, `RecheckFound`, `RecheckMissing` | `AgentSnapshots.__init__`, `load_or_build_index` |
| `StartUpdate`, `Merge`, `WriteTemporary`, `Replace`, `Publish` | `AgentSnapshots.ingest`, `update_json_index`, `write_index_json` |
| `StartRebuild`, `WriteTemporary`, `Replace` | `build_index` |
| `Acquire`, `TimeOut` | the lock and its timeout |
| `Fail`, `CrashWorker`, `CrashCli` | any exception under the lock; the end of a process |

`CoarseClock` says whether two saves may get equal timestamps (see section 6).

### QdrantSnapshots

`remote` is the collection by point (source, chunk number), `marker` the generation
file, and per worker `cache`, `gen` and `loaded` are the snapshot, the generation it was
loaded under and whether it is to be reloaded. `Plan`, `Mark`, `Scan`, `UpsertPoints`,
`DeleteObsolete`, `Publish` are one ingestion (`QdrantAgentSnapshots.ingest`,
`qdrant_write_lock`, `upsert_sources`); `UseCache` and `Refresh` are `get`;
`SeedCollection` and `LoadFirst` the start of a worker. `Fail` ends a call at any
point, after any part of the points of its request was changed. Clients retry failed
batches (`StartRetry`). The lifetime of a snapshot is not counted: it may be over at any
`Refresh`, and need not be at any `UseCache`.

### LlmResilience

`circuit`, `failures`, `opened` are the fields of `CircuitBreaker`; each of its methods
is one step. A thread reads the clock in an earlier step than the method that uses
the value, so a value may be `MaxDelay` old. Time is kept as ages. `healthy` is the
provider: it answers, or every attempt fails, times out or raises something else.

### LlmCalls and AgentCalls

`LlmCalls` extends `LlmResilience`: `Build` is `build_llm` for any settings (name, key,
SDK, resilience on or off), `Attempt` is one call of a provider. A reply of the service is
a failure of the transport, or a body of which only the parts a provider looks at are
kept; one operator per provider says whether the reply becomes a text, an
`LLMProviderError` (`error`) or an exception of another class (`escapes`). The retry loop
and the breaker of `LlmResilience` get that outcome. `Direct` is a call without resilience.

`AgentCalls` extends `LlmCalls`: `answer` as the language model sees it. `BuildAgent` adds to
the settings whether a judge is enabled (`judged`, `hallucination_judge_enabled`). `Ask`,
`Refuse`, `RetrievalFails` and `Retrieve` (which includes the tool) come before the model.
`Returns` is what follows the model's text: the span of parsing, the opening of that of
the check and, with a judge, the stage in which `LLMHallucinationJudge` asks the same provider
once more (`StartJudge`: another retry loop through the same circuit). `ModelAttempt`,
`ModelGoesOn` and `ModelDirectly` are the calls of the layers below in both stages; `Fails` ends
the span the call was made in (`Asking`: `llm_call` or `hallucination_check`) and the run.
`Checked` ends a good answer, whose reply is what `ParseLlmOutput` may find in the kept `text`.
`trace` is the sequence of telemetry events of a call, `ended` the trace and the reply of the
call the last step ended. `blank` is a text of which stripping leaves nothing: `Fallback`
replaces it, and returns any other text as it is, also the word `None`.

### IngestionJobs

`disk[j]` is the job's file: missing, truncated but not yet written (`write_text` opens
before it writes) or a status. `Create`, `Submitted` are the endpoint; `BeginRun` to
`Record` are `run_ingestion_job`; `Poll` is the client, `seen[j]` what it was told.

### Conversations

A conversation is kept per caller (`file[p][c]`): missing, torn or whole with its
tenant and turns; a turn records the scope it was answered from. `Access` is the check
of the endpoint on the memory it reads, `Load` the agent's own reading of the same
file, `Answer`, `Truncate`, `Write` the rest of `FeedbackAgent.chat` and
`JsonConversationStore.save`. `Restart` starts the API with any other bindings of keys
to tenants and ends its requests. `Keys` are the callers that present a key; the others
share one directory: the API without authentication and the `chat` command of the CLI
(`StartFromCli`), a process that a restart of the API does not end.

### RateLimiter

`check` is one step, `Allow` or `Refuse` (the middleware calls it on the event loop, so
checks never overlap). `ApiGate` is the middleware and the access control around it. Time is an integer; `_reset_after` is computed exactly as the
code rounds it. `admitted` and `promised` are histories.

### ApiGate

Extends `RateLimiter`. `settings` are any of a set of configurations (keys of three roles
with white space around them, bindings, limiter on or off) and stay for the life of a
process; `PolicyIsValid` is `_configured_tenants` and `_configured_keys`. `Routes` are the
routes of `api.py` with the role each one demands and how it treats the tenant. `Pass`,
`Let` and `TurnAway` are a request through the middleware; `Refusal` lists the reasons of a
401, 403, 400 or 500 in the order the code finds them, `Handled` is the reply. What
a handler does then is the subject of the other modules.

### StreamIngestion

One Kafka partition of `TopicSize` messages, each valid with an id, failing the contract
or garbled. `StartConsume` to `Return` are one call of `consume_feedback_stream`;
`ConsumerError`, `AckFails`, `WriteFails` and `FetchGarbled` are where it raises, and a
failing commit may or may not have reached the broker. `position` belongs to the
consumer, `committed` to the group: `Restart` and `Assign` continue at the commit.
`AssignedInPoll` says whether a partition may be taken away and given back in the
middle of a poll.

### AnswerPipeline

One call of `FeedbackInsightAgent.answer`; `stage` is the point it has reached. Texts
are abstracted to what a question makes of a chunk (`signals`: similarity, BM25 score,
reranking bonus, suspicious or not), chosen freely per chunk, so that rewriting, routing,
query expansion and embedding are choices of signals. Metadata keep the defaults of the
code: a missing tenant is the default tenant, a missing rating passes filters as a 5 and
is left out of sentiment counts, a missing day passes no date filter. `customer_segment`
and `channel` are compared like the tenant, without a default, and are left out.

The agent's lists are sequences. Where the code leaves their order open (equal
similarities after `argpartition`) the model takes any order: `Arrangements` is the set
of orders a sort may produce, a single one when ties are broken. `ReadPage` is one round
of the loop of `QdrantVectorStore.search`; between two rounds `RemoteWrite` may replace
chunks of a record. Qdrant is assumed exact and to keep one order of equal scores. The
snapshot that lexical search and the tools read was taken when the agent was built.
Weights 0.6 and 0.4 and scores are fixed-point numbers with 1.0 = 10; the instance's
scores make every division exact. What a model writes is free except for
`DeterministicLLM`, whose markers are modelled; how well it overlaps with the evidence
and what a judge says of it are choices, overlap failing without evidence; a judge whose call
of the provider raises ends the answer (`JudgeFails`, the calls themselves are in `AgentCalls`).

### ReviewRecords

`reports`, `feedback` and `states` are the three directories: per record a file that is
missing, torn or whole. `calls[p]` is the handler or CLI command process p works on. A
handler that reads two stores reads them in two steps (`RankQueue` and `OverlayStates`,
`ListStates` and `KeepVisible`, `CheckLink` and `Create`); an update is `ReadState`,
`TruncateState`, `FillState`. Digests are `PickLatest` or `Resolve` (one report each) and
`Deliver`, whose `Outcomes` are those of `deliver_email_summary` with a server that may
refuse. CLI commands have no principal. `Crash` ends a process between truncating a file
and filling it. `ledger` and `raced` are histories. A call is one record with the same fields
from `Idle` to its reply. The queue and a digest are sets of candidates: `Ahead` is the sort
key of `build_label_queue`, unique because it ends with the record's id, so that a limit
keeps the candidates with fewer than that many ahead of them (`Queue`, `Newest`).

### PythonLists, RecordContract, LakehouseTable and BatchCommands

`PythonLists` has the list operations of Python the others are written with: `At` selects
positions of a list, `Listed` puts a set in an order, `Sorted` is `sorted`, which keeps the
order of elements of which none is less (`SortSeq` of the module `TLC` serves total orders
only), and `LexLess` is the order of `str` and `tuple`.

`RecordContract` has the pure operators on records: `IsSound` (the contract of a CSV),
`Accepts` (that of a stream), `Redact`, `SourceId` and the migration of version-1 ids,
`Chunks` and `Upsert`. Identifiers are sequences of character codes because colons and
percent signs decide whether two of them collide; a text is a sequence of words, and a
telephone number two words that redaction finds only side by side. A row is `plain` if its
text came as a string, which a valid one did: `CleanPayload`, through which rejected messages
go to the dead letters, redacts strings and leaves a list, an object or a number as it is. `Rows` and
`StoredChunks` are the shapes of records and of the chunks of an index.

`LakehouseTable` turns an export into the sequence of its file writes, paths included
(`TableWrites`).
`BatchCommands` keeps the `disk` (every file but the index), the `index` and the `command` at
work with the writes it has left: `StreamIngest`, `UpdateIndex`, `BuildIndex`, `GenerateData`
and `Export` start a command, `Write` does its next write, `Finish` the rest (for `stream-ingest`
with `--update-index`, the merge). `Put` changes one file. `Crash` ends the command between
two writes or in the middle of one, which leaves a file that does not load (`Torn`) or, of a
CSV, any of its first rows, the last whole or cut short (`TornCsv`, `CutShort`): such a file
may load. `Polled` is the JSONL stream under `max-messages`.

### EvaluationMetrics and OfflineCommands

`EvaluationMetrics` has the measures of a case and a report and the statistics of a
benchmark, in ten-thousandths because the code rounds to four digits. `OfflineCommands`
adds the commands that use them to the directory of `BatchCommands`: `EvaluateLoad` and
`EvaluateRun` are one `evaluate`, which loads the index twice and may meet two indexes;
`Experiment` writes three files in turn; `StartBenchmark`, `TimePhase` and `WriteBenchmark` are
one `benchmark`, each repetition of which takes any duration.

## 4. What the runs check

| Run | Instance | Shows |
|---|---|---|
| `json_index_workers` | 2 threads of one worker, 1 CLI process, 2 sources (1 in the CSV), 3 writes, 1 crash, 2 inodes; symmetric | `NoLostUpdate`, `NoStalePublication`, `CachedVersionIsCurrent`; the refinement of `IndexRegister` (`ImplementsRegister`) |
| `json_index_processes` | 2 workers and a CLI process with a thread each, 2 writes, 1 crash; fair threads, no symmetry | `LockIsReleased`, `CallsEnd` |
| `qdrant_workers` | 2 workers, 1 external writer, 1 source of 2 chunks, 3 writes, 3 generations, 1 damage, 1 crash | `ValidCacheIsRemote`, `SuccessReplacesSources`, `PublishedAgentIsRemote` |
| `circuit` | 2 threads, 4 providers and the local one in any configuration, `ollama` and the local one also with a judge, 2 attempts, threshold 2, recovery 1, delay 1, 1 outage, a tool that fails | `BreakerConsistent`, `SpansTellTheTruth`, `FailuresAreRetried`, `AnswersEnd`, `CircuitRecovers` |
| `jobs` | 2 jobs, 2 workers, 2 crashes, 1 failing write | `ReportedOutcomeIsTrue`, `StatusMovesForward`, `JobsFinishOrDie` |
| `conversations_keys` | 2 threads, 1 key and the caller without one, 2 conversations, 2 tenants, 3 turns, 1 restart | `TurnsShareTenant`, `BoundKeysStayInTenant` |
| `conversations_lost_turn` | 2 threads, 1 key, 1 conversation | `TurnsAreKept` is **violated**: see section 6 |
| `rate_limiter` | 10 configurations; with the limiter on 2 callers, 2 requests per window of 3 ticks, 2 ticks a second, 6 ticks; with it off every route with 5 keys, 3 tenants and paths that leave the directory or not | `AtMostTwiceTheBudget`, `RetryAfterIsHonest`, `RemainingIsHonest`, `HandledWithinPolicy` |
| `answers` | 3 chunks of 2 records (one without metadata), 4 profiles per chunk, 4 filters, `top_k` 1 to 3, 5 deployments, 1 remote write | `FiltersComeBeforeLimits`, `BetterChunksComeFirst`, `EvidenceIsPermitted`, `AnswerMatchesEvidence` |
| `stream` | every topic of 4 messages over 2 ids, invalid, garbled; batches of 3; 2 failures | `NothingIsSkipped`, `DeliveredOnce`, `EverythingIsConsumed` |
| `review` | an API thread and a CLI process, 2 tenants, 2 judgements, 2 reports, 2 calls, a queue of 1, digests of up to 2; symmetric in the tenants | `TenantsStayApart`, `LinksStayInTenant`, `PatchIsKept`, `RefusedDigestIsNotSent`, `QueueKeepsTheMostUrgent` |
| `commands` | 3 commands in a row, 2 streams of 4 and 5 messages whose ids collide in every way, one of them rejected with its text in a list, `max-messages` 1 and 5, 3 CSV files and 4 indexes to begin with, 2 layouts, both formats; 1 command that measures | `WrittenCsvLoads`, `IndexIsTheMergedText`, `ExportIsReadable`, `NothingPersistedRaw`, `ReportsAreHonest` |

The runs check no type invariants: `TypeOK` of `JsonIndex`, `LlmResilience`, `IngestionJobs`,
`Conversations`, `RateLimiter` and `ReviewRecords` is part of a proved inductive invariant, as are
the shapes in `AgentInv` of the modules composed; that of `QdrantSnapshots`,
`StreamIngestion`, `AnswerPipeline` and `BatchCommands` holds when it is added to the cfg. So do
`CheckpointsAreCommits` (in `stream`) and the inductive invariants, those of the `commands`
instance (`BatchInv`, `MergedInv`, `ExportInv`, `ReportsInv`) among them. `InitialBuildNeverOverwrites` and `SourceNeverVanishes` are proved.

**Why the bounds are enough.** Each hazard needs two actors that interfere in one call
and a third that acts between their steps. Two threads of one worker share a cached
snapshot, a CLI process shares only the file; three writes are two that conflict and
one that is built on the result. One crash is enough to find a lock held, a file torn or
an update half-applied, because nothing remembers a crash. Two inodes are the fewest the
file system can reuse. A Qdrant source of two chunks is the shortest that can shrink
without vanishing. A threshold of two distinguishes counting from flagging, two attempts a retry
from a last one. A recovery of one tick is no longer than a clock reading may be late, so
calls are admitted and refused by stale readings too; a second outage would only repeat the first, since a success resets the breaker.
`openai` makes of a reply what `ollama` does and is left out of the instance. One remote
provider has a judge (`Judging`): its calls multiply the states, and what they do to spans
and circuit is decided by how an attempt ends, not by the API behind it. Three
turns are a conflict of two and one before. Six ticks after the first moment are two windows and the
first moment of a third. In `ApiGate`
every key and tenant meets every route under each configuration with the limiter off,
where requests do not depend on each other; two clients suffice for the limiter. Four messages with batches of three contain two batches, so a
duplicate within a batch and across batches. With candidates twice `top_k`, a pool no
larger and pages of at least one
chunk (the code: 4, 2 and 64), a question for one result over three chunks meets a cut
candidate list, a fusion larger than its limit and a scan of two pages; a question for
three shows a record cited once for two chunks. Two
overlapping calls are what a review record can suffer: an update reads and writes one
file, and everything a handler reads it reads once or twice. Three commands are a file
that is written, one that is merged or exported after it and one that is interrupted or
meets the leftovers; the streams hold two pairs of records that the stream's key, the raw
source id or the directory of a partition cannot tell apart, and texts longer than a
window with the number where two windows meet. Commands that measure only read the
directory, so a behaviour either begins with one of them and goes on with updates
(`measuring`, `MaxMeasured`) or runs the other commands. Where a property is proved, the
bounds matter for the other properties only.

`CHECK_DEADLOCK FALSE` is set where the system really stops within the bounds: all jobs
done or dead; no turn and no restart left; an answer returned or refused; no call or
command left. The other runs check for deadlock.

**Fairness.** `WF(Steps(t))` of threads: request threads are scheduled by the
operating system, and each step of a call either proceeds or, at the lock, times out. The
lock itself is not fair; `CallsEnd` holds because waiting is bounded. `AgentCalls`
adds a clock that ticks and, for `CircuitRecovers`, one thread that is asked allowed
questions for which the store answers again and again (`WF` of `Ask`, `SF` of `Retrieve`):
without calls of the provider a circuit stays open. Background tasks run (`jobs`). The stream's caller calls
again and again (`WF(Step)`), and since a poll may end before a message arrives, `SF` of
the two fetches says that messages that are there do arrive in some poll. Failures,
crashes, clients and providers are never fair.

## 5. What is proved

All for arbitrary values of the constants, from the named assumptions of each module.

| Module | Theorems | Inductive invariant |
|---|---|---|
| `JsonIndexProofs` | `TypeCorrect`, `CacheIsCurrent`*, `UpdatesAreNotLost`, `InitialBuildIsSafe`, `PublicationIsMonotonic`, `IndexIsARegister`* | `IndexInv` |
| `AgentCallsProofs` | `TypeCorrect`, `BreakerIsConsistent` for one provider (`LlmResilience`); `SpansAreTrue`, `BreakerIsConsistentForAgent`, `RetriesHappen` for the agent | `ResilienceInv`, `AgentInv` |
| `ConversationsProofs` | `TurnsStayInTenant`, `BoundKeysAreConfined` | `ConversationInv` |
| `ApiProofs` | `BudgetIsKept`, `WaitIsHonest`, `RemainderIsHonest` for the limiter alone; `HandlersRunWithinPolicy`, `GateKeepsTheLimits` for the middleware; `JobTypeCorrect`, `OutcomesAreTrue`, `StatusIsMonotonic` for ingestion jobs | `RateInv`, `GateInv`, `IngestionInv` |
| `AnswerPipelineProofs` | `EvidenceIsAlwaysPermitted`, `AnswerAlwaysMatchesEvidence`, `FiltersAlwaysComeBeforeLimits`, `BetterChunksAlwaysComeFirst` | `Evidence`, `Consistent`, `Searched` |
| `RemoteProofs` | `ValidCaches`‡, `ReplacementsComplete`, `PublishedAgents`, `SourcesStay` for Qdrant snapshots; `CommitsSkipNothing`, `RecordsAreReturnedOnce`† for the stream | `QdrantInv`, `PrefixInv`, `OnceInv` |
| `BatchProofs` | `BatchInvariant`, `WrittenCsvIsAccepted`, `NothingIsPersistedRaw`, `SourceIdsTell`, `IndexHoldsTheMergedText`, `ExportsAreReadable`, `EveryReportIsHonest` | `BatchInv`, `MergedInv`, `ExportInv`, `ReportsInv` |
| `ReviewRecordsProofs` | `TypeCorrect`, `KeysSeeTheirTenant`, `LinksAreOwn`, `PatchesAreKept`, `DigestsAreHonest`, `QueueIsUrgent` | `ReviewInv` |

\* assumes `CoarseClock = FALSE`; † assumes `~AssignedInPoll`; ‡ says so
while the marker was damaged at most once or is not missing. `WaitIsHonest` rests on
`Second \in 1..1000`: a tick of a millisecond or more, because `_reset_after` adds 0.999.

The arguments:

- *Index.* `NoLostUpdate` is not inductive: it needs that the draft in hand is still the
  merge of the batch into the **present** file (`DraftInv`), which needs that nobody else
  saves meanwhile (`LockInv`: the lock is owned by exactly the thread that is inside the
  block), which needs which kinds of call reach which step (`StepInv`). The fast path
  needs `VersionInv`: no snapshot is newer than the file, and equal timestamps mean
  equal files. The refinement maps a call to "done" once its effect has happened: the
  rename for writers, the version check or load for readers; every other step
  stutters.
- *Qdrant.* Generations only ever grow, so the marker is the last one, is missing or is malformed
  (`MarkerInv`), and a snapshot of the last generation is the collection unless a writer is at
  work: the writer replaced the marker before it touched the collection (`GenerationInv`).
  `None` is the one generation that comes back: a snapshot loaded while the marker was missing
  is as good as any until a writer makes a new marker, and afterwards only another loss could
  make it look valid (`LossInv`), hence the hypothesis `damage <= 1 \/ marker # NoMarker` of
  `ValidCaches`; without it TLC finds the counterexample of section 6. `Replacing` says how far a
  replacement has come (what is listed as obsolete is all that is still there of the old
  chunks), `Prepared` that the agent prepared beforehand is the collection it will find. Both hold
  because only the owner of the lock writes, and a failed call leaves the replacement to its
  owner's next attempt.
- *Breaker.* The state and the opening time are functions of the failure count, and
  each method restores that whatever the others did.
- *Agent.* A call runs while its attempts are few enough (`CallInv`, the invariant of
  `LlmResilience` plus what `RetryStep` leaves of a failing attempt); which spans are open is
  a function of where the call is (`AskedTrace`, and `CheckingTrace` while the judge asks),
  whatever a tool did before (`SpanAdds`). A failure is in the innermost open span whichever of
  the two was asking (`RaisingTells`), and an answer leaves after parsing and check went
  well (`CheckedTells`). The providers are
  met by what any of them can make of a reply: a text, an `LLMProviderError` or another class.
- *Jobs.* `JobInv` says for each step of the task what the file, the index and the client
  can be; crashes and failing writes may leave only states a client reads as "not
  finished".
- *Conversations.* The memory a thread works on agrees with its request and with the
  present binding of its key; a restart ends all requests, so a new binding never meets
  an old request.
- *Rate limiter.* Windows of the log do not overlap and hold at most the budget each, so
  2n+1 requests in a row fall into three windows at least; a whole window lies between
  the first and the last of them.
- *Gate.* The middleware names a caller before it counts it and calls `check` at most once a
  request, so every step of the gate is one of `RateLimiter` or none (`GateKeepsTheLimits`).
  `Handled` is the only way to a handler: the roles a key has are those the settings give it,
  and the tenant a handler works with is the bound one or one the policy permits
  (`HandlersRunWithinPolicy`, for any settings, also ones with several roles per key).
- *Review.* What a call may show is settled when it reads, not when it answers: `InTenant`
  says so of the records in hand after every read, in particular of the second store, which
  may have changed since the first was read. `LinkIsChecked` holds until the judgement is
  written because a report never changes its tenant. `RacesAreKnown` follows an update from its
  read to its write: of two that are both in between, both are in `raced`; one that is not in
  `raced` writes its patch on top of everything the ledger promises (`Over`). The queue:
  the sort key orders the judgements totally (`RankingIsAnOrder`), so the rank of a judgement
  grows with every judgement ahead of it (`RanksGrow`), what the cut leaves out has all the kept
  ones ahead, and a pigeonhole argument says that a queue with something left out is full
  (`CutIsFull`). The last theorem says it of any set of judgements, of any size.
- *Answers.* Every list on the way (hits, candidates, results, prompt, citations) holds
  chunks that match, and `Selections` and `UpTo` only pick from a list: the lemmas
  `UpToKeeps`, `SelectionKeeps` and `ListingIsSequence` say so without knowing the order.
  `RemoteWrite` changes what the next page returns, not what was kept. After the gate
  the results are clean, and nothing adds to them.
- *Citations.* Prompt, answer text and citations number the records of the same results in
  three computations, each of which picks a selection of a list. There is only one: an
  increasing list of positions is determined by their set (`IncreasingIsUnique`, hence
  `SelectionIsUnique`, `FirstsAreUnique`, `CitationsAreUnique`). `Consistent` therefore says
  of the prompt and the markers that they fit **every** list of citations of the results
  before `Finish` makes one, and that the results are in order, which makes the first result
  of a record its best.
- *Searches.* `Searched` says, as long as no other process has written, what each list
  holds when its search is over: all of its chunks, unless it reaches the limit, and with a chunk every one
  that beats it (`DenseFound`, `LexicalFound`). For a scan of pages it says so of the points read so
  far (`Scanned`), which are an initial segment of one order: `offset` points that come before all
  others are always the same points, so pages cut from two rankings fit together
  (`RankingIsOrder`, `SegmentLeads`, `PageExtends`). A cut of such a list is again one (`TopOfRanking`).
- *Agreement.* If a chunk beats another in every signal, the hit of the other has that of
  the first before it with a score at least as high (`Leads`). Normalising keeps the order of two
  scores (`NormalizedOrder`), a fused score is the sum of the contributions of the lists that hold the
  chunk (`ContributionIsSum`, `FusionAgrees`), reranking adds the larger bonus to the larger score and
  breaks ties by position (`RerankKeeps`). Each step first shows that the chunk ahead is still there: had
  a limit cut it off, the other would have been cut off with it. The fused list contains no chunk twice,
  hence its length is the number of chunks found (`FusedCandidates`), of which the gate moves some to
  `dropped`. All scores are integers of any size, and a division rounds down as in the model.
- *Stream.* What calls have seen is a prefix of the topic that reaches to the position
  and to the commit. The offsets of a batch increase and those not yet handled lie at or
  beyond the commit, hence nothing committed is fetched and returned again.

- *Files.* `BatchInv` says of the files at rest (`FilesInv`), of what a command has still to
  write or merge (`PendingInv`) and of the index (`IndexInv`) what the next command finds. A
  CSV the tool finished is accepted strictly because equal keys of the contract make equal
  keys of the stream (`KeysTellMore`): the stream refuses more than the contract. Redaction
  hides a number whose two words stand side by side and leaves none in a text with whole
  numbers (`RedactedTexts`); of the dead letters that is said of strings only (`StringsClean`,
  `CleanedPayloads`); since records are redacted before they are cut, no window ends
  inside one (`ChunksAreClean`). The commands that measure are `Quiet`: they write reports,
  which are no other command's files, or build the index as `index` does (`MeasuringSteps`).
- *Identities.* Quoting writes a character as one or three, so that the first character of a
  quoted string tells how it goes on (`QuoteSteps`, `QuotesTell`), and leaves no colon; the
  colon that joins tenant and id is therefore the only one (`ColonTells`). Hence encoded
  source ids differ where tenants or ids do (`SourceIdsTell`).
- *Index.* Windows begin every `size - overlap` words and stop with the first that
  reaches the end (`WindowsCutWell`), which is all that `HoldsText` asks of a record's chunks
  (`ChunksHoldText`). A merge replaces the chunks of the sources it brings and no others
  (`UpsertHolds`, from `SourceIdsTell`); a migration keeps texts and positions. `MergedInv`
  adds the shapes of the records and chunks, which that needs.
- *Exports.* The orders of `str` and `tuple` are orders (`StringsAreOrdered`,
  `TuplesAreOrdered`), so `Listed` goes through a set once (`RankedGoesThrough`) and `Sorted`
  permutes a list: the parts of a table together hold every row once (`GatherAll`,
  `PartsHoldAll`). The number in its name keeps a part apart from the others even where two
  values look alike in a path (`TableFilesApart`). `ExportInv` says which files of an export are on the
  disk, all but the pending ones; once none is pending, the lists lead to all the rows
  (`TablesRead`), and other commands write no file of a table (`OffTable`).
- *Reports.* Rounding keeps the order of two shares (`RatiosGrow`), so averages do
  (`MeansGrow`, by induction over positions), and no measure of a case is more than whether it
  was hit (`MeasuresAreShares`). A search returns at most `k` results (`SearchesAreShort`), and
  `Deduped` has each document once (`DedupedHasEachOnce`), so cutting after collapsing cuts
  nothing off and precision, recall and rank count the same documents (`MeasuresOfFewAgree`).
  The ranks of the statistics are in order and within the samples (`RanksOfStatistics`,
  `OrderedIsInOrder`). `ReportsInv` follows a report from what it is made of to the disk, and
  says that every index is finite, without which nothing could be counted.

The composed modules extend the proved ones without changing their steps: `ApiGate` calls
`Allow`, `Refuse` and `Tick` of `RateLimiter`, and `LlmCalls` the actions of `LlmResilience`
with an outcome that its reply decides. Their theorems (`GateKeepsTheLimits`,
`BreakerIsConsistentForAgent`) say that the promise of the part survives the composition.

The assumptions on constants are what the code's types and settings give: positive limits
(`MaxItems`, `MaxDigest`, `MaxRequests`: the code refuses values below one), names that are
no markers (`None`, `Missing`, `NoTenant` are not tenants), judgements and patches with the fields of their schemas (`JudgementsAssumption`,
`PatchesAssumption`), bindings without an empty tenant (`SettingsAssumption`). Those of the
batch commands: rows, streams and files have the shape of `Rows`, a valid row has text
(`RowsAssumption`); the words of a telephone number stand side by side in what is read from
outside (`NumbersAssumption`), as redaction recognises no other; chunks overlap by less than
their size (`OptionsAssumption`, which `chunk_text` enforces); an index that is there at
first holds its records in finitely many chunks (`IndexesAssumption`); the cases of an
evaluation have finitely many relevant documents (`CasesAssumption`); a benchmark repeats at
least once (`RepetitionsAssumption`).

**Only model-checked**: all liveness properties (`LockIsReleased`, `CallsEnd`, `AnswersEnd`,
`CircuitRecovers`, `JobsFinishOrDie`, `EverythingIsConsumed`), which are out of the prover's
reach. Every invariant and every action property that a passing run checks is stated by a
theorem. The installed
provers cannot instantiate the induction theorems that take an operator; induction over
naturals goes by least elements instead (`WFMin` of `WellFoundedInduction` takes a set).

## 6. Where the code and its documents disagree

One run is expected to be violated: `conversations_lost_turn` / `TurnsAreKept`. Of two
overlapping chats of one conversation the later save drops the other's turn, whose answer
was already returned (`agent.py:316`).

The same cause, seen from the tenant: two overlapping first messages of callers without a
key may choose one conversation id and two tenants, and the later save wins.
`InitialTenantIsKept` holds when all callers present keys (`Keys = Principals`) and fails in
the instance of `conversations_keys`, although src/README.md says that each conversation
persists its initial tenant.

src/README.md:267 says that the redaction of feedback text is applied to dead-letter payloads
too, "so local artifacts do not retain raw contact details or pasted credentials".
`_clean_payload` (`streaming_ingestion.py:445`) applies it to values that are strings; a number
inside a list or an object, or one that came as a JSON number, is appended raw, and such a value
is often why the message was rejected. `DeadLettersAreRedacted` therefore fails in the instance
of `commands`, whose second stream has such a message; `NothingPersistedRaw` claims what holds:
no telephone number in a string of the dead letters, nor in a CSV the tool wrote, a chunk or a
table. The model keeps one field of a payload, the text: the other strings are redacted alike,
and the error of a duplicate names its ids as they came.

Limits of the code that no document denies, and which the constants make explicit:

- With `CoarseClock = TRUE` (two saves within the resolution of the file's timestamps
  and a reused inode) `CachedVersionIsCurrent` fails.
- Several callers may pass a half-open circuit at once.
- A poll that reads a truncated job file is answered with an error.
- A missing generation marker is generation `None`. A snapshot refreshed while it is missing
  is cached under `None`; after a write and a second loss of the marker, `None` equals `None`
  and the old snapshot is served until its lifetime ends (`MaxDamage = 2`; with one loss
  `ValidCacheIsRemote` holds).
- Nothing resumes or fails the job of a process that died: clients poll `pending` or
  `running` for ever (`JobsFinish` does not hold, `JobsFinishOrDie` does).
- One torn file of a directory fails every list of it, and with it the queue; a torn
  workflow state cannot be updated any more.
- Two overlapping updates of one workflow state: the later drops the other's fields
  (`PatchIsKept` excepts them).
- An exception that is no `LLMProviderError` (a reply of a wrong shape) is neither retried
  nor counted by the breaker. A `content` that is null becomes the text `None`
  (`ContentAsText`), which is also the answer, as nothing else can be parsed out of it.
- With a judge, an answer that was generated and parsed is lost when the judge's own call of
  the provider fails or finds the circuit open: `answer` raises (`SpansTellTheTruth` says that
  the failure is then in the span of the check).
- A reply with several JSON objects is parsed as the first of them.
- `evaluate` loads the index twice; its retriever and its agent may see different ones.
- `stream-ingest` of a file starts at its beginning each time; `max-messages` never reaches
  what lies behind them.
- A CSV that was cut off after a whole row loads, and nothing tells that rows are missing.
- An average of a report over many cases may round to zero although a case was hit;
  `ReportsAreHonest` claims no more than that averages do not exceed the rate of hits.
- A seed of an empty Qdrant collection that fails half-way is never completed.
- Attempts that timed out keep their threads.
- A poll that raises, or a failing commit or dead-letter write, discards the batch:
  those messages are in `lost`, and later commits pass them. `NothingIsSkipped` allows
  exactly this.
- With `AssignedInPoll = TRUE`, `DeliveredOnce` and `CheckpointsAreCommits` fail;
  `NothingIsSkipped` is proved for both.
- The limiter never forgets a key.
- A scan during which another process writes can list a chunk twice or miss one
  (`FiltersComeBeforeLimits` assumes `changes = 0`); fusion counts a chunk listed twice
  twice. Citations stay distinct (`AnswerMatchesEvidence`).
- Chunks the context gate drops are not replaced by the next best.
- `sentiment_summary` leaves out matching records without a rating, where
  src/README.md:665 says aggregates "count each matching source document once".

## 7. What is not modelled

Left for later: requests that a Qdrant server applies after the client gave up, the Kinesis
stream, sinks of telemetry that raise, `InMemoryJobStore`, the listing of jobs.

Left out for good: embeddings, BM25 and reranking formulas (numeric; `AnswerPipeline` takes
any scores), the text of prompts and answers and the rewriting of follow-up questions, the
patterns of guardrails and redaction, the wording of HTTP errors, the prompt registry (files
read at the start), the export of telemetry, the logging of experiments to MLflow, the React
frontend (keeps no shared state), deployment files, and the generators of the documentation
under `src/docs/tools` (single-pass text programs that the running system never calls).
