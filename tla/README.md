# Verification of the estimator

A TLA+ development of `estimator/`, a FastAPI service that turns the transcript of a
client meeting into a cited estimate, and of `estimator-web/`, the Rails front that
drives it. The modules are model-checked with TLC on small instances; the theorems
are proved with TLAPS for every value of the constants.

1. [The system](#1-the-system): components, state, operations, hazards
2. [Modules](#2-modules): which models what, and how it corresponds to the code
3. [Runs](#3-runs): what each shows, its bounds, why they are enough
4. [Fairness and deadlock](#4-fairness-and-deadlock)
5. [Proofs](#5-proofs)
6. [Where the code and its documentation disagree](#6-where-the-code-and-its-documentation-disagree)
7. [Other behaviour met while modelling](#7-other-behaviour-met-while-modelling)
8. [What is not modelled](#8-what-is-not-modelled)
9. [Plan](#9-plan)

Paths below are relative to `estimator/app/` or, for Ruby and JavaScript, to
`estimator-web/app/`.

## 1. The system

```
 browser tabs ──> Rails (estimator-web) ──HTTP──> FastAPI service (estimator)
                  chat_sessions                    sessions (in-memory)
                  estimation_runs                  Redis: idempotency store, exact and
                  index_runs                         semantic cache, runtime config
                  (PostgreSQL)                     PostgreSQL: ingestion_jobs, documents,
                                                     chunks, entity mappings
                                                   OpenAI / LiteLLM: models, embeddings
```

The service is one process. A handler declared `async def` runs on the event loop
and hands it over at each `await`; a handler declared `def` runs on a thread of a
pool; background tasks are started with `BackgroundTasks` or `asyncio`. All three
matter: they decide where other requests may come in between, hence what one action
of a module is.

### Components that keep state or coordinate

| Component | State | Operations | Interacts with | What makes it correct |
|---|---|---|---|---|
| Grounded estimate pipeline (`generation/rag/estimator.py`, `validation.py`, `quality/`) | per request: the context it kept, the estimate so far, the generations paid | retrieve, generate, verify citations and retry once, downgrade, hallucination gate, coherence check and repair | idempotency store, runtime config, LLM, retrieval | no incoherent estimate, no invented citation or contradicted number sold as confident, at most three generations |
| Idempotency store (`generation/rag/idempotency.py`) | key → estimate, with a TTL, in Redis or a dict | get (drops an unreadable entry), set | pipeline | a replay is what the key produced; a retry is free |
| Corpus ingest and expansion (`generation/rag/ingest_service.py`, `index_service.py`, `api/routers/corpus_index.py`) | `documents` rows, one job row per run | ingest of a document (check, embed, persist, commit), loop over a batch with progress | job rows, embeddings, Rails index runs | what a job reports is in the corpus, once; every job ends |
| Job rows (`foundation/persistence/repositories/jobs.py`) | `ingestion_jobs.status`, `processed` | create, mark_running, progress, mark_completed, mark_failed | expansion and ingestion tasks, pollers | pending, running, then one outcome |
| Rails index runs (`controllers/rag/index_runs_controller.rb`, poller) | `index_runs` row with stats before and after | create around the POST, overlapping polls | corpus, job rows | a finished run shows its job's outcome and its growth |
| Rails estimation wizard (`controllers/rag/estimation_runs_controller.rb`) | `estimation_runs` row: one artifact per stage, `current_step` | reformulate, generate, estimate_hours, verify, show | staged endpoints | an artifact matches what it was built from; the current screen has its artifact |
| Transactional estimate and its caches (`domain/estimation_service.py`, `generation/cag/`) | exact and semantic cache | lookup, generate, store | runtime config, moderation, LLM | an answer fits its question and its model |
| Runtime configuration (`foundation/llm/runtime_config.py`) | overrides in Redis over the defaults of `.env` | read at each use, PUT | all of the above | a change in mid-request breaks nothing |
| Model settings (`api/config.py`, `controllers/ai_settings_controller.rb`, `helpers/ai_settings_helper.rb`) | the same hash, the forms rendered from it, the badge in Rails' cache | render, save, badge, PUT of an API client, model call | runtime configuration, LLM wrapper, chunkers | a save changes what its user chose; an override is reachable; the badge catches up |
| Retrieval toggles (`api/config.py`, `api/routers/retrieval_advanced.py`) | one hash of stage overrides | PUT key by key, read key by key | retrieval | a request runs with stages that were configured together |
| Agent profiles (`models/agents/profile.rb`) | `agent_profiles` rows, one of them the default | create, update, destroy in a transaction | the wizard | one default, and no deadlock among ordinary saves |
| Input guardrails (`foundation/guardrails/input.py`) | none (calls moderation, fails open) | check | transactional estimate, sessions | nothing flagged is answered, not even from a cache |
| Conversation sessions (`api/sessions.py`, `generation/conversation/`) | per session: window, anchors, summary, metadata, tier | turn, read | Boss, LLM, Rails chat | memory is exactly what was answered; commitments and regulation are not lost |
| Boss and critic (`generation/agentic/boss.py`, `critic.py`) | rounds of one turn | critic, decide, retry, synthesise | sessions | the loop ends; its drafts leave nothing behind |
| Rails chat (`controllers/chat_sessions_controller.rb`) | `chat_sessions` snapshot, `estimations` rows | new, create turn, show, destroy | sessions | shows what the session keeps; a stale panel has a cause |
| Recovery agent and task hours (`generation/agentic/agent_loop.py`, `domain/agent_estimation.py`) | rows of hours, derivations, trace | search per task, agent turn, tool call, merge, seed | LLM, retrieval, wizard | hours are accounted for by search or trace |
| Staged endpoints (`api/routers/estimate_stages.py`, `estimate_agent.py`) | none; the client holds the outputs | reformulate, retrieve, assemble, structure, generate, verify | pipeline functions, the wizard | the context is the best of the ranking, what passes is supported by the corpus |
| Retrieval (`generation/rag/retrieval/`, `retriever.py`) | per request: plan, hits, pool | five endpoints over one pipeline: route, transform, search, fuse, rerank, decay | toggles, store, LLM | consensus or coverage is kept, filters hold, recall is deep enough |
| Catalog ingestion jobs (`ingestion/orchestrator.py`, `api/ingestion.py`) | job rows, raw documents | create, run in background | job rows | every job gets its outcome |
| Budget cleaning (`ingestion/cleaning/`) | a batch of records | deduplicate, validate, route | | every record ends in one partition or gives way to a later one of its id |
| Chunking lab (`generation/rag/chunking/`, `analysis/comparison.py`) | per request: chunks per strategy | build chunkers, chunk with each, answer | embeddings, LLM | a strategy loses nothing it owes |
| Streamlit page and the sessions it was written for (`streamlit_app.py`, `previous/app/`) | `st.session_state`; sessions in memory, two caches | reruns, turn, reset; estimate with and without a session | previous API | the page shows its conversation; an answer is given in its own context |
| Pseudonymisation (`ingestion/pii/`, `repositories/mappings.py`) | mapping original → fake | get or create, forget | ingestion | one fake per original, under concurrency |

### Components without state worth a transition system

PII detection, prompts and attachments, the HTTP edge (API keys, rate limiting,
wiring), the Rails one-shot estimations and view models, the free-text calls of the
LLM wrapper, and the evaluations, scripts and exercises. Section 8 says why each is
left out.

### The hard behaviours

`PROJECT.json` lists them at their lines. In short:

- **Interleaving at awaits and between threads**: two requests with one idempotency
  key; two transactions that both find a path missing; a model changed between the
  cache key and the call; polls that overlap; tabs that submit together.
- **Stale snapshots**: ActiveRecord writes the columns that differ from a row loaded
  before a call of minutes; forms carry a page rendered earlier.
- **Partial failure**: each call may fail after the one before it was kept; a commit
  may land without its acknowledgement; Rails may give up on an answer that the
  service still produces.
- **Restart**: sessions, background tasks and the dict store are in memory, rows and
  Redis are not; API keys may be others afterwards.
- **A hash written and read key by key**: a PUT of several overrides beside a
  request that reads several, with Redis away for some of the reads.
- **Transactions under READ COMMITTED**: an UPDATE does not see the rows another one
  has not committed; an insert that lost finds the winner's row, or none.
- **Lost answers and retries**: Rails and Streamlit give up while the service goes
  on, and the same turn is sent again.
- **Chains of checks over a text that is replaced between them** (pipeline), and
  loops driven by what a model writes (Boss, recovery agent).
- **Nested orders and boundaries**: three fusions in one search, a recall that is
  cut before the last sort, windows as long as the text, texts whose offsets move
  while they are spliced.

## 2. Modules

A module covers one component; `MC*` modules only give constants for TLC, and
`*Proofs` modules hold theorems. Definitions keep the names of the code where they
can. In each module, operators named `X_Something`, marked "Mutant" in their
comment, are wrong versions of `X`: not part of the specification, they show that a
property notices a plausible mistake in that code. Variables and constants marked
"history" or "bound" are not in the code; the first only record what happened, for
properties to speak of.

| Module | Models | EXTENDS / INSTANCE |
|---|---|---|
| `RagEstimate` | grounded pipeline with its idempotency store | |
| `JobLifecycle` | what a job row promises its pollers (abstract) | |
| `CorpusIndex` | ingest and expansion over one corpus | instantiates `JobLifecycle` |
| `IndexRuns` | Rails index runs over that corpus | extends `CorpusIndex` |
| `EstimationWizard` | one run of the Rails wizard | |
| `EstimateCache` | transactional estimate with both caches | |
| `Conversation` | sessions, Boss and critic, compression, metadata | |
| `ChatSessions` | Rails chats over those sessions | extends `Conversation` |
| `TaskHours` | hours of tasks: searches, recovery agent, merge, breakdown | |
| `OrderedLists` | sums of lists, a set put in order, the elements at some places of a list | |
| `EstimateStages` | the grounded pipeline one stage at a time, line by line | extends `OrderedLists` |
| `StreamlitSessions` | the Streamlit page over the previous service's sessions and caches | |
| `Settings` | the overrides of the models and everything that reads or writes them | |
| `AgentProfiles` | the default profile, down to row locks | |
| `StageToggles` | the stage overrides: a PUT and a request, key by key | |
| `Retrieval` | a retrieval request, from the plan to the answer | extends `OrderedLists` |
| `IngestionJobs` | catalog ingestion | |
| `Pseudonyms` | pseudonyms of detected values over one table | |
| `BudgetCleaning` | deduplication and routing of raw budgets | |
| `Chunking` | the eight strategies and their comparison | |

Components that share no state are checked in one run: `MCConsole`, `MCIntake`,
`MCRetrieval` and `MCTaskHours` hold several machines, of which a behaviour moves
the one it starts with while the others keep one initial state. Nothing is gained
from interleaving them, and nothing lost.

### RagEstimate

`POST /v1/estimate/from-transcript`. Requests are coroutines, so each action is one
awaited call that returned and all the synchronous code up to the next `await`;
`pc[r]` names the call a request waits for: `lookup`, `evict`, `reformulate`,
`embed`, `retrieve`, `generate`, `retry`, `judge`, `repair`, `store`, `reply`. Other
requests come in between and nowhere else.

An estimate is what the checks can tell apart: its confidence, the ids its lines and
its global sources cite, whether a grounded line claims more days than its chunks
record, and whether it is bare (no totals, no modules, an explanation). `by`,
`stage`, `said` and `gated` are history. What the LLM writes is any element of
`Drafts`; what retrieval keeps is any set of ids, the empty one included, which is
both nothing retrieved (`SoftFail`) and a first chunk that overflows the token
budget (`Retrieve` with `{}`).

Failures: a `RagError` becomes a 502 (`PipelineError`), any other exception a 500
(`ForeignError`), a `SET` may take effect without its reply (`PersistUnconfirmed`),
entries expire, the process restarts. `backend` is the store in use: Redis, or a dict
of the process when `REDIS_URL` is unset (`RedisBacked`) or Redis does not answer the
ping at start-up (`idempotency.py:37-54`). So a restart comes up with any reachable
backend, and the dict it may come up with is empty. `GateRead` is the toggle of the hallucination gate, read in
mid-request, with its fallback while Redis is down.

### CorpusIndex and JobLifecycle

A worker is a direct ingest or an expansion task. `CheckDuplicate`, `Persist` and
`IngestFails` are the transaction of `RagIngestService.ingest`, in which both
`expand` and the endpoint run; `Start`, `Progress`, `Finish` and `MarkFailed` are
the task's updates of its job row, each in a session of its own. `Start` is ahead of
the `try`, `MarkFailed` in its handler: a failure of either leaves the row as it
was. `JobUpdate` has, for each of them, the call that returns, the one that raises
without effect, and the one that raises with its commit in place. `raced` records
the paths that two transactions checked before either committed, `raised` the calls
that raised.

`JobLifecycle` states the promise of a row: pending, running, completed or failed,
with a counter that grows one by one in between and a final count of the writer's
own; and, since a commit may land without its acknowledgement, an outcome that a
handler may overwrite. It has no liveness of its own. `CorpusIndex` implements it
under the mapping `Lifecycle` (`LifecycleKept`).

### IndexRuns

The Rails row of a run, created around the POST (`FetchBefore`, `StartExpansion`,
`CreateRow`), and polls that load, ask, fetch stats and update (`Find`, `AskJob`,
`FetchStats`, `UpdateRun`), several at once: a page fires one every 1.5 seconds
whether or not the last one answered, until an answer says `finished`; then it
reloads, and polls again only if the run it renders is not finished (`Show`,
`Answer`). `caller` is the page a poll answers to. `Write` is ActiveRecord's dirty tracking: a
column is written if its new value differs from the one that was loaded, whatever is
in the row by then. The job rows and the corpus are CorpusIndex's own, every step of
it included.

### EstimationWizard

One `estimation_runs` row. Each stage is a request that loads the row, calls the
service for minutes and saves; so it is two to four actions (for instance
`EstimateHours`, `SaveStructure`, `HoursEstimated`) with other requests between
them. A JSONB artifact is its *lineage*: the requests that made it and everything it
was built from, which is all that staleness is about. A tab keeps the page it
rendered (`Show`) and its forms send that page's data back. `causes` records what
may leave artifacts that do not match.

### EstimateCache

`EstimationService.estimate` in threads: moderation, exact lookup, semantic lookup,
model call, two stores, with the primary model read anew at each of four places
while a PUT may change it. Similarity is any symmetric reflexive relation,
transitive or not. A failing Redis is a miss for the exact cache, the default for
the model, and an error for the semantic cache, as in the code. `disturbed` records
calls that did not read one model throughout, `unmoderated` flagged texts that a
failing moderation let through. `ExactKey` and `Bucket` are what the two caches file
an answer under; the prompt version, fixed in a deployment, is left out of both.

### Conversation and ChatSessions

The turn endpoints are `async def` and await nothing but uploads: a turn runs alone
on the event loop, one blocking LLM call after another, and a GET, on a thread, sees
the session between them. Each action is one such call. A turn stands for its pair
of messages; a transcript is the tier and anchor patterns it matches. The
Actor-Critic-Boss loop (`pc` values from the critic's verdict to the synthesis)
works on `work`, the locals of the running turn. Compression moves turns from the
window to the anchors (`Evict`) or, through the summarizer, to the summary; a
failing summarizer forgets them. `log` is history: the turns a session answered.
`ToMessages` is what the next prompt quotes after the summary: anchors, then window.

`ChatSessions` adds the Rails rows: a turn is a POST, a row for its answer, a GET
and an update of the snapshot; Rails may give up while the service goes on, the
service may restart and forget every session, chats are deleted. Several tabs submit
to one chat.

### TaskHours

`POST /v1/estimate/tasks/hours` and `/v1/estimate/agent/hours`, to the breakdown the
wizard seeds. One search per task, then turns of the model, each a sequence of tool
calls of any kind: valid, rejected by the tool, naming no tool, with arguments that
are no object or no JSON. A number of hours is the step it came from (0 the row's
own search, *n* the *n*-th step of the trace), the consensus over neighbours is the
grade of its reliability.

### EstimateStages

`POST /v1/estimate/stages/*` and `/v1/estimate/agent/structure`. The service keeps
nothing between the calls, so the state is what a client holds: the brief, the
ranking, the context it assembled, the estimate, the gate's report. It may run any
stage again and hand on any output it holds (`AssembleStage` leaves `result` alone,
so a later `VerifyStage` may meet another context). What `RagEstimate` abstracts is spelled
out here: a chunk is its lines, with the figures and key lines that `compress_chunk`
looks for; `TruncateToTokenBudget`, `ReorderEdgeLoaded`, `NumericAnchor`, `GateLine`
and `VerifyCitations` are operators over them. Tokens are counted per line, days and
hours are integers.

### StreamlitSessions

The page is a script rerun at every click: its state is `st.session_state`. It was
written for the previous version of the service, so that one is the server here:
sessions in a dictionary, a window of turns (`Trim`), metadata merged turn by turn
(`Extracted`), the exact and the semantic cache for what is asked outside a
conversation. `EstimateInSession` runs from the session it reads to the turn it
records without an `await`; the uploads before it are what interleaves. What the page
shows of the session comes in two ways: an answer brings the metadata and the number
of turns (`panel`, `streamlit_app.py:531-536`), the history only a GET that succeeds
(`history`, line 125). `GiveUp` is
the page's timeout of three minutes, after which the estimate goes on.

### Settings, AgentProfiles

`Settings`: a form is rendered from a GET (`Show`, with every knob as default while
Redis is away) and sends every knob back (`Save`); an API client sends those it
wants (`Patch`); the PUT checks all of them (`Accepted`, `Reject`) and writes one
after another (`Write`), with Redis perhaps gone in between (`StoreDown`).
`ReadBadge`, `StoreBadge` and `ExpireBadge` are Rails' cache of the primary model;
`Served` is the call of the wrapper or of a chunker bound to one SDK; `Restart`
comes up with other API keys. `behind` and `blind` record what a form could not
know.

`AgentProfiles`: a request loads its row (`Find`), begins its transaction, and with
the box ticked runs one UPDATE over the rows it saw (`Reach`, `Take`, `Cleared`),
writes its own row, commits. A row's lock is held to the end of the transaction;
PostgreSQL breaks a cycle by cancelling one of it (`Deadlock`). `created` and
`stale` record the two overlaps that matter.

### StageToggles, Retrieval

`StageToggles` has the PUT of several stage overrides and the advanced search that
reads them, each key in a command of its own. `Retrieval` starts from any
combination of them: `Plan` (routing and query transform, together), `Search` per
collection and sub-query, `Score` (fusion, pool, reranker), `Answer` (decay, cut).
The other callers of a search, `PlanSearch`, `SearchBudgets`, `SearchChunks` and
`SemanticSearch`, enter it with the parameters their endpoints pass.
`ReciprocalRank`, `RoundRobin`, `CollectionOrder`, `Merged`, `Reranked` and
`Decayed` are the algorithms over orders of ids; ids are unique within a collection
only (`Keyed`). The scores of the code are fractions. `Unit` and `Scale` are common
multiples of their denominators, so that a score times its scale is an integer and
sums and order are kept exactly; whatever `MaxChunks`, the number of ids of a
collection, there is such a multiple, and `RetrievalConstantsOK` asks for it.

### IngestionJobs, Pseudonyms, BudgetCleaning, Chunking

`IngestionJobs`: creation of a run, and its background task: `MarkRunning`, `Open`
(the lookup of the parser is ahead of the `try`), one file per `ParseFile`,
`MarkCompleted` or `MarkFailed`. A database call may raise, with or without its
commit in place; `excuse` records the tasks that a failure outside any handler left
behind.

`Pseudonyms`: `lookup_or_create` as its lookup, its insert-or-nothing, its commit and
the second lookup of a loser (`Winner`), beside deletions (`Forget`), and the
splicing of the pseudonyms into the text from its end (`Nearest`, `Spliced`). A text
is the sequence of its cells, so that what was lost or left behind can be told.

`BudgetCleaning`: a batch has the key columns that some record of it has (`columns`).
With both, `Clean` keeps one record per id, missing ids being equal, as they are for
pandas; without one it keeps them all (`Deduplicates`). `Route` sends each to the
valid, the quarantined or the discarded by the failures of its row; a failure of a
whole column has no row and is passed over.

`Chunking`: `BuildChunkers`, then each strategy component by component or budget by
budget, then the status. A text is a set of tokens; what a model rewrites is marked
so.

## 3. Runs

The sizes are for orientation (distinct states; a run takes between twenty seconds
and two minutes and a half with two workers). `PROJECT.json` also holds, for each
property, a mutant of the code's model that violates it.

| Run | Module, configuration | States | Expected |
|---|---|---|---|
| `rag` | `MCRagEstimate`, `RagEstimate.cfg` | 7.0M | pass |
| `rag_repair_dangling` | `MCRagEstimate`, `RagEstimate_repair_dangling.cfg` | | violation |
| `corpus` | `MCCorpusIndex`, `CorpusIndex.cfg` | 583k | pass |
| `index_runs` | `MCIndexRuns`, `IndexRuns.cfg` | 116k | pass |
| `wizard_stale_hours` | `MCEstimationWizard`, `EstimationWizard_stale_hours.cfg` | | violation |
| `estimate_cache` | `MCEstimateCache`, `EstimateCache.cfg` | 2.5M | pass |
| `chat` | `MCChatSessions`, `ChatSessions.cfg` | 2.4M | pass |
| `task_hours` | `MCTaskHours`, `TaskHours.cfg` | 5.0M | pass |
| `assemble_compression` | `MCTaskHours`, `TaskHours_compression.cfg` | | violation |
| `console` | `MCConsole`, `Console.cfg` | 769k | pass |
| `intake` | `MCIntake`, `Intake.cfg` | 442k | pass |
| `retrieval` | `MCRetrieval`, `Retrieval.cfg` | 3.4M | pass |

The type invariants and a few weaker properties (`CompletedIsIndexed`, `GateHonest`,
`Moderated`, `AnswerTraced`) are not in the runs: they are theorems (section 5).

**rag** checks `OnlyCoherentLeaves`, `CitationsHonest`, `ReplayIsVerbatim`,
`RetryIsFree`. Two requests are enough for a race on one key and for a retry after
an answer; two keys, one of which starts with a leftover that no longer parses; two
chunk ids, so that a citation can be kept, dangling, or half of each; five drafts,
one per way the checks can go, at every generation. TTL elapsing, any restart, and
with it a change between Redis and the dict. Requests are interchangeable (symmetry).

**corpus** checks `ProgressIsReal`, `DuplicatesNeedRace`, `FailuresHaveCause`, the
refinement `LifecycleKept` and the liveness `JobsEnd`. Two jobs and a direct ingest
over two paths: three workers, so that a path can be doubled by a race and then met
by a third; batches `<<d1, d2>>` and `<<d2, d2>>`, the second with its own
duplicate. Every call may raise except the duplicate check, which fails as the
embedding does; commits may land unacknowledged; the process may restart.

**index_runs** checks `RunFollowsJob`, `GrowthShown` and the liveness `RunsSettle`.
One run and two polls in flight, the least that lets a stale poll overwrite a newer
one; one page, which can be opened again after it stopped, while its old polls are
still out; one direct ingest beside the job, so that the corpus grows between the two
stats; a job that completes, fails, or completes and is failed by a lost
acknowledgement (`finish`, `LostAcks`), in which case the row may show the outcome the
job had before; failing calls and restarts.

**estimate_cache** checks `AnswerFits`, `ModelHonest`. Three calls, the least by
which a chain of hits could drift from its question: three texts of which the first
and last are not alike though both are alike to the second, and the second also
under other options; one text is flagged; two models; two threads; Redis and the
embedding service fail at will.

**chat** checks `MemoryAccounted`, `CommitmentsKept`, `HistoryIsAnswers`,
`RegulationRemembered` of the sessions, `ChatMirrorsSession`, `PanelFresh` of Rails.
Three turns over a window of one: the third meets a summary, an anchor and a window
that all came from compression. Two rounds of review; a turn with a commitment on
the plain endpoint and one without on the audited one; a draft confidence (58) whose
half is under 30; an extraction that names a regulated technology, or nothing; two
requests of the browser in flight. Session ids are issued once, so one session
behaves as any other does.

**task_hours** has three machines. *Hours*: `BreakdownTraced`, `NothingDropped`. Two
names with the same task in different modules, a structure with a repeated name, the
empty one; two calls per turn and three iterations, so that a name is derived up to
four times (with a match, without, well and badly), one call of every kind of
failure, and the last turn's calls are dropped. *Stages*: `PassedIsSupported`,
`ContextIsBest`. Three stored sources, one with its figure in a line, one in its
metadata, one without, and an id nobody stored; two rankings and the empty one; a
budget that fits one source or two, with and without each augmentation; written
lines within what is recorded, at the tolerance and above it, over one source, two
and the same one twice. *Sessions*: `PageHonest`, `AnswersInContext`. One text with
and without a file, always similar for the semantic cache; a window of one turn, two
sessions, three posts: a lost answer, its retry and a third that overtakes.

**console** has the settings, `OnlyChosen`, `OverridesServed`, `BadgeCatchesUp`, and
the profiles, `DefaultsHaveCause`. Two knobs, of which one is the badge's and the
other is bound to one SDK; two models of two providers, any set of API keys; two
tabs, an API client, a page being rendered; two saves and one outage, the least for
a save over a degraded form and for one over another's. Three profiles and two
requests: an UPDATE with two rows to visit, and a deadlock.

**intake** has four machines. *Catalog*: `IngestionSettles`; two runs over four
sources (two with a parser, one without, one the catalog does not include) and
folders of up to three files. *Names*: `MappingsConverge`, `SpliceHonest`; three
workers, texts that share values and have overlapping spans, pseudonyms longer and
shorter than what they replace, one deletion per value. *Cleaning*: `RecordsRouted`;
every batch of up to three records over two ids and a missing one, three dates and
every set of defects, and the batches that lack a key column altogether. *Lab*: `ChunksSound`; every strategy, windows of three tokens
with an overlap of one, components of one to seven tokens (so a window, a step, and
both together are all met), duplicate and unknown strategies.

**retrieval** has the request, `FusionSound`, `RecallSuffices`, the toggles,
`StagesHeld`, and the wizard, `StaleHasCause`, `ScreenPopulated`. Two collections that share an id, three chunks in one of them; up to
two sub-queries and targets; every order a search may find, every combination of
stages, of filters by two axes one of which a collection does not understand; recall
of three against a `top_k` of one or two. Three toggles, one PUT of any subset of
them, one outage, and the request's own fields. Five requests to the wizard reach
`verification` with one to spare for a re-run of an earlier stage, and let two
overlap anywhere; they are interchangeable, so they are made in their order. One tab
is enough for old pages, since a tab keeps its page until it renders anew.

**The violation runs** each check one sentence of the documentation that the code
does not keep; section 6 describes them. `rag_repair_dangling` needs no leftover and
no TTL, `wizard_stale_hours` four requests by one tab, and `assemble_compression` the
constants of `task_hours`.

## 4. Fairness and deadlock

- `CorpusIndex!FairSpec`: weak fairness of each worker. A task once scheduled runs
  on; its calls return or raise because the OpenAI client and the database driver
  have timeouts. Submitting is nobody's duty, and `JobsEnd` exempts the jobs whose
  bookkeeping outside the `try` failed or whose process died (`Abandoned`).
- `IndexRuns!FairSpecRuns`: strong fairness of `Find` of a page *that polls*, and of
  `AskJob` and `FetchStats`: `setInterval` repeats a poll until an answer says
  `finished`, and a call that may fail, repeated for ever, succeeds some time; weak
  fairness of the saves, which are local, and of the reload that follows that answer.
  A page that stopped owes nothing
  (`index_run_poller_controller.js:12`, 27-30). Hence the two parts of `RunsSettle`: a
  run that a page polls comes to show how its job ended; it does so for good only if
  no poll in flight asked before that end. Such a poll, saved after every page
  stopped, sets the row back to "running", and it stays so until a page is opened
  anew. No fairness of the service: `RunsSettle` starts from a job that ended.
- `Settings!Fairness`: a write under way goes on, a page being rendered gets its
  badge, and the badge's entry expires, because Rails' cache gives it a lifetime of
  15 seconds. `BadgeCatchesUp` needs the expiry: a page that read the old model may
  store it after the save dropped the entry.
- `IngestionJobs!Fairness`: weak fairness of each background task, which the thread
  pool runs. `IngestionSettles` exempts the tasks that a failure outside every
  handler left behind (`excuse`).
- The other modules state safety only, and assume no fairness.

Submissions and requests are one-shot or bounded in all runs but `rag` and
`task_hours`, so these runs stop when all have ended, and say `CHECK_DEADLOCK
FALSE`. `rag` and `task_hours` check deadlock: the operator's toggle, the next
submission, another stage, a page that is loaded or reset are always possible. What
a deadlock in the code would be is a property where the code can have one: the row
locks of the profiles (`OnlyDefaultsDeadlock`), jobs and runs that must end.

## 5. Proofs

A theorem holds for every value of the constants that satisfies the module's named
assumption: `ConstantsOK` (RagEstimate), `CorpusConstantsOK`, `CacheConstantsOK`
with `NoneIsNoAnswer`, `TaskHoursConstantsOK`, `SettingsConstantsOK`, `NobodyIsNoId`
with a finite set of profiles, `PseudonymConstantsOK`, `ConversationConstantsOK` and
`ChatConstantsOK`, `IndexRunsConstantsOK`, `StageTogglesConstantsOK`,
`CleaningConstantsOK`, `ChunkingConstantsOK`, `StreamlitConstantsOK`,
`StagesConstantsOK`, `RetrievalConstantsOK`; the wizard needs none. They say what kind of thing a constant is, and of chunking that a window is
longer than its overlap and that a budget has components (`schemas.py:71`), of the
corpus that a chunk is filed under its id, of the rankings and of every search that a
list repeats no chunk (a query returns a row once), of the registry that it names a
collection once, and of the two scales that they divide. TLC evaluates them in every
run.

**RagEstimateProofs.** `IInv` is `TypeOK /\ KeyInv /\ OwnInv /\ StoreInv /\
ReplayInv`. The promises about a delivered text compare it with `kept`, the ids its
*writer* retrieved, while the text may be in the store or with another request. They
are inductive only together with: a request that stored or replied no longer changes
its ids and its own copy (`ReplayInv`, `StoreInv`), and what a request holds at each
point of the pipeline has passed the checks behind it (`OwnInv`). From it:
`TypeCorrect`, `CoherentAnswers`, `HonestCitations`, `HonestGate`, `VerbatimReplay`.
`FreeRetries` adds `RetryInv` for the keys that did not start unreadable: a key
answered into a store, within its TTL, has a readable entry there as long as that
store lives; and a request sent since then, while the service uses that store, is at
its lookup or past it, and has paid nothing. A restart into the other store owes
nothing (section 6).

**CorpusIndexProofs.** `IInv` is `TypeOK`, `Placed(w)` (what a worker's position
says of the rows it has behind it), `RowAt(j)` (what the job row may say at each
point of the task, acknowledged or not) and `Races` (a transaction past its check
has either no rival or a raced path). From it `TypeCorrect`, `CompletionIsReal`,
`CountsAreReal`, `DuplicatesAreRaces`, `FailuresAreCaused`; and `RefinesLifecycle`:
initial states map to initial states, each step to a step or stutter of
`JobLifecycle`. On top of it, the runs of Rails: `RunsDriveCorpus` (behind the polls
runs the service as it is specified alone, so that what is proved of it holds of the
composition), and `RunsInv`: a run exists only for a job that does; its stats before
the POST and after the end bracket what the job indexed; a poll in flight loaded an
open run, and what it saw of an ended job is its outcome. With an acknowledgement lost
a completed job may still be marked failed, so the outcome a poll in between saw is
the job's present one or the one it took back (`OutcomeOf`). From it
`RunsTypeCorrect`, `OutcomeFollows`, `GrowthCovers`.

**ConversationProofs.** `ChatsDriveService` reduces the service behind the chats to
the service alone. Its invariant `ServiceInv` is `TypeOK`, `WorkOK` (what the locals
of the turn on the event loop hold at each of its awaits), `MemoryOK`, `AnswersOK`
(which turns a session holds, with whose estimates) and `TierOK`.
`MemoryOK` is a statement about sequences, `Mem`, of a session's window, its anchors,
its summary, and of what was evicted or forgotten: the window is the end of the log,
the other parts are disjoint and make up its front, the anchors quote it in order,
and nothing that commits is elsewhere in the front. There is one lemma for each thing
that may happen to `Mem`: a turn arrives, turns are evicted, anchored, summarised or
forgotten. From it `ConversationTypeCorrect`, `MemoryIsAccounted`,
`CommitmentsAreKept`, `HistoryIsTrue`, `RegulationIsRemembered`. The chats of Rails
need more, `ChatsInv`: what a request knows of its turn (`WebOK`), which turns
crossed (`BesideOK`), that the rows shown are in the order of the log unless they
crossed (`ShownOK`), and what a snapshot on its way to the row may miss (`FreshOK`),
which is what the panel it becomes may. From it `ChatsTypeCorrect`, `ChatsMirrorSessions`, `PanelsAreFresh`.

**EstimateCacheProofs.** `CacheInvariant` is `IInv`: `TypeOK`, `ExactOK` and
`SemanticOK` (every entry answers its own question, by its own model unless its call
was disturbed), `CallOK` (what each stage of a call has read), `ReplyOK`.
`TypeCorrect`, `FittingAnswers`, `HonestModel`, `ModeratedAnswers` follow for any
number of threads and any similarity relation.

**TaskHoursProofs.** `IInv` is `TypeOK`, `Progress` (how many calls ran and wait at
each iteration), `RowsOK`, `LastDerivation(k)` for each name (the dictionary the
loop fills is the last derivation in the trace), `AnswerOK` and `BreakdownOK`. "The
last" of a set of positions is taken with the library's
well-founded minimum. `TypeCorrect`, `TracedAnswers`, `TracedBreakdown`,
`NoCallDropped` follow, for every bound on calls and iterations.
The module also holds the proofs of `StreamlitSessions`, whose `TalkInv` ties the
three places a turn is kept in. `SessionsKept` says that a session in memory is what
its turns have left: its window, trimmed twice a turn by the code, is the last whole
pairs of the history (`WindowMoves`, over the positions of the sequences).
`OutOfContext` says that no answer in the caches was computed in a conversation, so a
hit, which only a first turn can have, is honest. `RecordedOnce`, `OkRecorded`: a
post is recorded once, when it is answered. `Attached`, `Entries`, `TurnsRecorded`,
`TurnsOrdered`, `PanelRecent` say where the turns shown stand in the session's log: before
the one waited for, and not after the one the panel is of; the history is the window
after that turn or after an earlier one, because the GET behind an answer may fail.
`AnsweredInContext` and
`PageIsHonest` follow for any window and any number of sessions and turns.

**WizardProofs.** `IInv` says of each request in flight what it holds at its stage
(`Staged`); that one no other overlapped holds the row as it is (`Solo`), and that
one that was overlapped has left its mark (`Crowd`); and, as long as nothing
overlapped, how each artifact matches the one it is built from (`Links`), with the
excuse of each link (a stage between its two saves, an interruption, a stale page, a
failed hours call). `StaleHasCause` alone is not inductive: whether a save leaves a
match depends on whether the row it was computed from is still the row.
`TypeCorrect`, `StaleOnlyByCause`, `ScreensPopulated` follow for any number of
requests and tabs.

The module also holds the proofs of the two algorithmic components behind the wizard,
of which a sum, a sorted list or a merge is all there is to say, for lists of any
length. The prover has no induction over data. A sum is therefore a function from the
length of a prefix to its sum, and what holds of all its prefixes is shown by the
least prefix of which it does not (`LeastNumber`, `Reaches`, from the well-foundedness
of the natural numbers); a list in order is the function that takes each element's
rank, the number of those before it, which is a bijection by cardinalities alone
(`RankRises`, `RankOnto`, `OrderedList`).

Of the stages: `PassedSupported` and `ContextBest`, from `StagesInv`: an assembly is
of some ranking and its chunks are the first of it, each with the hours the corpus
states (`Assembled`); an estimate still held with its context was checked against
that context (`Checked`); and the property itself. Compression keeps what a chunk
says of its hours (`CompressKeeps`), the reordering moves the second best to the end
and no sum (`ReorderInserts`, `ReorderSum`, by `SumOfInsertion`), the truncation
stops at the first chunk that does not fit (`TruncateKeepsBest`), so what the gate
adds up for a line it accepts, a source as often as the line cites it, is what the
corpus records (`AnchorIsRecorded`, `VerifyStep`). A line is grounded only in sources
of the block itself, so those that truncation dropped support nothing; a line whose
sources record no hours, or 0, is bounded by nothing.

Of the retrieval: `FusionIsSound` and `RecallIsEnough`, from `RetrievalInv`: what the
plan fixed, what the searches found so far, what was made of it. The argument has
five parts.

- *Consensus* (`ConsensusHolds`): a chunk ahead of another in each order that has the
  other gets, order by order, at least its share, and somewhere more (`ShareFalls`,
  `PointsAhead`). Ties of the sums need no case: there are none between such two.
- *Coverage* (`CoverageHolds`): in a merge by turns the first of each of *n* lists is
  among the first *n* (`FirstInTurn`: the places before it are apart in their
  columns), applied to the merge of sub-queries and to that of collections.
- *Nothing lost* (`NothingLost`): a merge repeats nothing (`RoundRobinOrder`), and
  the collections' items are disjoint by their keys (`DisjointUnion`).
- *Filters* (`FiltersMet`): each branch's hits meet them, and fusion invents nothing.
- *Recall* (`RecallHolds`): the first *m* of a merge are decided by the first *m* of
  each of its lists (`RoundRobinCut`, by `FirstOfEach` and `SamePrefix`). It is used
  twice, for the sub-queries and the collections (`FuseCollectionCut`, `MergedCut`);
  the fusion of a single order leaves it as it is (`RankOfOne`). `RecallSuffices`
  excepts what this argument cannot reach, the fusion of several reformulations and
  decay; without either exception TLC finds it violated in the same run.

**ConsoleProofs.** Of the settings: `ServedOverrides` from `Validated`: overrides, and the values of
a PUT past its check, are of providers with a key, until a restart. `ChosenOnly`
from `SInv`: a form shows what is in force, or is known to be behind (`FormSound`),
and so does what is left of a save under way, but for the knobs its user chose
(`PutSound`); only `Write` changes an override.

Of the profiles: `Structure` says where a transaction stands, which locks it
holds and which versions it wrote: a version of a row that exists is under the row's
lock. `OneDefault`: unless a create overlapped a save and one of them ticks the box
(`created`), there is one committed default at most, and a save that ticks the box
has every other row unticked or still to visit (`Clearing`). `AskedKept`: unless a
save read its row too early (`stale`), one default is committed once a save asked
for it, and a save that ticks the box will commit its own row ticked (`Fresh`,
`Sure`). From them `TypeCorrect`, `OneDefaultUnlessRaced` and
`OnlyDefaultsDeadlock`.

Of the toggles: `StagesAreHeld`, from `Explained`. That some configuration in force
agrees with what was read so far is not inductive: the next read may disagree with
it. It is with the rest of the row: as long as one write at most came in between, one
configuration in force explains the stages read, and those still to read are the
present ones. A write behind the reading leaves the old configuration as the witness,
a write ahead of it the new one.

**IntakeProofs.** `Applied`: a pseudonym that was applied is in its row for as
long as nobody forgot the row; `Converged`; and `Racing(w)`: what a worker that
found no row knows of it, its own uncommitted row or the winner's. From them
`TypeCorrect`, `OnePseudonym`, for any number of workers, texts and deletions.
`SplicesHonestly` is proved over the cells of the text being spliced: each is of a
pseudonym, or in front of every span replaced, at its own place still, or from behind
every span that is left (`CellHonest`); so the next splice, of the span that ends last
of those left, finds its span where it was. `RecordsAreRouted` is
about the cleaning of budgets: where a batch is deduplicated, each id is there once,
in its last row of the latest date (`Deduplicated`), and whoever has a later row has
the last one by descent on the position (`LastRow`); where it is not, every record
is routed.

Of chunking: `ChunksAreSound`. The chunks of a chunker hold what it owes of the
components, or of the budgets, it is through with (`BehindKept`). The fixed windows
need more: the windows so far leave no token out before the next one (`Sliding`), each
begins at a token of its component and ends short of the next window's first new
token (`Windows`), and there is such a token, because the loop stops before a window
that would be all overlap.

**Only model-checked**: the liveness properties `JobsEnd`, `RunsSettle`,
`BadgeCatchesUp` and `IngestionSettles`, because liveness under fairness is beyond
the prover. Every invariant and the refinement of the passing runs are theorems.
There are no recursive operators in any module.

## 6. Where the code and its documentation disagree

Each of these is a run that TLC must find violated; `PROJECT.json` quotes the lines.

1. **A coherence repair may invent citations** (`NoConfidentDangling`). The repaired
   text replaces the verified estimate and is passed to `check_coherence` only
   (`estimator.py:337`); `arquitectura-actual.md:132-134` promises a downgrade.
   `CitationsHonest` holds, and is proved, for every other text.
2. **A failed re-estimation leaves stale hours** (`NeverStale`). `estimate_hours`
   saves the edited structure before its call and clears nothing
   (`estimation_runs_controller.rb:87`); `estimation_run.rb:95-97` says the wizard
   never shows hours of a superseded structure. `StaleHasCause` lists every way to
   get there.
3. **Compression buys no sources** (`CompressionBuysSources`). The context is
   truncated first, by the size of the chunks as they are stored, and only what was
   kept is compressed (`estimate_stages.py:137-139`, `estimator.py:261`), whereas
   `augmentation.py:8-10` and 26-29 say that the filler is dropped so that the token
   budget buys more distinct sources. `ContextIsBest` states what does hold: no chunk
   is dropped that would have fit as it is stored.

Further disagreements have no run of their own; the properties that hold state them
as their exceptions.

- *A path ingested twice breaks the batches that hold it.* Two overlapping ingests
  leave two rows, an accepted race; from then on `scalar_one_or_none` raises
  (`store/repository.py:41`) where `index_service.py:57-58` says that a duplicate is
  skipped (`FailuresHaveCause`).
- *An answer is filed under another model's key* when the model changes between the
  cache key and the call (`estimation_service.py:133`); `estimator/README.md:155`
  says that this cannot be. `ModelHonest`, proved, bounds the damage to such calls.
- *`turn_index` stops at `max_turns` + 1*: it is read off the window, ahead of this
  turn's compression but after that of the earlier ones
  (`estimation_service.py:277-280`).
- *The failure row is not always written.* A source the catalog includes whose
  format has no parser raises between `mark_running` and the `try`
  (`orchestrator.py:71`), and so does an update that fails; `api/ingestion.py:60`
  says otherwise (`IngestionSettles`).
- *The vector path does not always recall enough.* `pipeline.py:92-93` recalls
  `top_k` rows because the order is final; with decay, or the fusion of
  reformulations, it is not (`RecallSuffices`).
- *A missing column is not quarantined*, though `policy.py:33` says so: its failure has
  no row and is skipped (`policy.py:89-91`), and without `budget_id` or `signed_at`
  nothing is deduplicated either (`budget_records.py:68`). A batch none of whose
  records has an id comes out valid (`RecordsRouted`).
- *A retry may be paid again after a restart*, though `idempotency.py:3-5` says that
  a client retries without paying again and line 11 that Redis survives restarts: a
  service that starts while Redis is away uses a dict, and
  the keys answered before are unknown to it (`RetryIsFree`).
- *A missing client name is not quarantined*, though `schemas.py:31` and
  `policy.py:31` say so: the column is nullable.
- *A structural chunk claims to hold its module* (`structural.py:14-16`); the
  strategies over a whole budget cut `serialize_budget`, which leaves it out
  (`ChunksSound`).
- *The agent's search is not the hybrid pipeline with reranking* that
  `agent_retrieval.py` describes: it calls `retrieve()` with the defaults, which are
  the vector path.
- *The caches do see attachments*: the previous service's comment
  (`estimation_service.py:189-195`) says they do not, but the key is made of the
  text with the attachment appended.

## 7. Other behaviour met while modelling

None of this contradicts a checked property; it is what a reader of the modules may
wonder about.

*Grounded pipeline.* A downgrade sets `low`, so it raises an `insufficient`
(`estimator.py:303` against 189-190). Only a `RagError` becomes the 502 of
`estimate.py:9-11`; other exceptions are a 500. Two concurrent requests under one
key answer differently, and the later store wins. `idempotency.get` reads an
unreadable entry and deletes it in a second call, which may delete a good one;
`RetryIsFree` excludes the keys that start so.

*Corpus.* A lost acknowledgement of `mark_completed` turns a completed job into a
failed one (`corpus_index.py:82-88`). A restart leaves a job pending or running for
ever. `mark_completed` writes the indexed count over a counter that also counted the
skipped ones. A stale poll may reopen a finished Rails run; it is closed by a later
poll, if any page still polls or is opened anew. `IndexClient::Error` shadows `EstimatorAi::Error`, so a server error is not
rescued there.

*Wizard.* Generating without a reformulation is always answered 422. Verifying from
a page rendered before the hours were cleared confirms nothing and moves on.

*Caches.* With Redis or the embedding service down the exact cache degrades to a
miss and the semantic one ends the request. A config PUT writes key by key.

*Conversation.* When Rails times out the turn enters the conversation unseen, and a
resubmission enters it again. `turn_count` is half of `message_count`, so it stops
at the window. The Boss' fallback raises an out-of-scope draft below 30 to 30 and
drops its prefix (`boss.py:120-121` calls it a reduced confidence). A failed turn
still sets the last tier. A failing summarizer forgets the evicted turns. Destroying
a chat leaves its session in the service.

*Hours.* The merge overwrites every row whose name the agent derived, flagged or not
(`agent_estimation.py:178-198`). Two rows with one module and name share one
derivation, and the wizard gives both the last row's answer. Neighbours of a
derivation are whatever the model writes. A later derivation without neighbours
undoes an earlier good one. Arguments that are JSON but no object end the request,
outside the `try` of the loop (`agent_loop.py:293-301`). A failing model call loses
the rows the searches found. The calls of the last iteration are never run.

*Stages.* `/stages/structure` and `/agent/structure` report a coherent estimate
without invented ids whatever the model wrote. `/stages/retrieve` bounds the search
text to 10-2000 characters (422), which the pipeline does not, and ignores the
search mode and the reranker. Verifying against a later assembly lets lines pass
whose sources that one dropped. The anchor counts a source cited twice twice
(`hallucination.py:60-75`); an anchor of 0 hours supports any claim
(`hallucination.py:96`). Verdicts of the judge are keyed by name: two lines of one
name share the last one.

*Streamlit.* The page is written against the previous API; against the present one
its panels stay empty. "Nueva conversación" sets `form_version` to 0, so a typed
text survives it exactly when no turn had been answered. After a restart of the
service the page stays on a dead session until a reset. Attachments are not in the
history, so later turns do not see them.

*Settings and profiles.* A PUT is all or nothing in its validation only. A GET while
Redis is away renders every knob as default, and saving that form wipes the
overrides. `FALLBACK_MODEL` concerns `complete()` only, which nothing but a fallback
of the query reformulation calls. Two saves that tick the default box may deadlock;
PostgreSQL cancels one, which is a 500.

*Retrieval.* `/v1/retrieval/search` with the reranker returns `RERANK_TOP_N` chunks
whatever `top_k` says. The fallback of the router ignores `max_targets`.

*Intake.* Continuation lines of a tagged transcript are dropped. The content hash of
a document is not used to find duplicates. The catalog describes a pseudonymisation
by `has_pii` (`catalog/models.py:40-45`) that the orchestrator does not do. The
Faker of the pseudonyms is seeded alike in each instance, so two people may share a
name; ids and client codes are drawn from `random`, unseeded. Of the budgets without
an id, all but one are in no partition when the batch is deduplicated. A strategy named twice
in a comparison is chunked, and paid, twice; without an OpenAI key a comparison of
all strategies is a 500; the semantic chunker has no `try`, and the contextual one
reads the shape of its answer outside it.

*Hazards no property covers.* The queries of a semantic lookup are outside any `try`
(`semantic.py:120`); a lost answer to the POST of an index run leaves a job without
a row (`index_runs_controller.rb:34`); both are in the models as outcomes, and
nothing in the code promises otherwise.

## 8. What is not modelled

- **Wording and numbers**: prompts, formatting, costs, prices, token counts, the
  arithmetic of the breakdown and of the consensus. The models keep the outcome that
  control depends on (too many days, reliability grade, over budget).
- **Retrieval inside its callers**: `RagEstimate` takes any set of kept ids,
  `TaskHours` any grade; `Retrieval` has the algorithms, over orders that a search
  may find. How a vector or a lexical index finds them is PostgreSQL's.
- **LLM wrapper**: the structured calls are in `Settings` and `EstimateCache`;
  retries and the fallback between providers belong to LiteLLM, and the callers see
  an answer or an exception. The free-text and streaming calls have no caller that
  keeps state.
- **Output guardrail, patterns of the input guardrail, PII recognisers, prompts,
  text extraction**: functions of a text.
- **Splitters of the chunkers**: the two libraries are external; the cosines and
  figures of a comparison are arithmetic.
- **HTTP edge**: API keys, rate limits, dependency wiring are configuration of the
  framework.
- **Rails one-shot estimations and view models**: a form, a call, a page; the
  profile screens beyond the default flag.
- **Offline**: evaluations, scripts, exercises, and what the previous version had
  beside its sessions. They share no state with the service.

What lies outside `estimator/app` and `estimator-web/app` and still matters (Redis,
PostgreSQL, the LLM, the browser) is modelled by how the code uses it: atomic per
command, committed or rolled back, an answer or an exception, requests in any order.

## 9. Plan

Order: what sells an estimate first, then what feeds it, then the fronts.

| Step | Modules | State |
|---|---|---|
| 1 | `RagEstimate`, its runs and theorems | done |
| 2 | `JobLifecycle`, `CorpusIndex`, refinement and theorems | done |
| 3 | `IndexRuns` over `CorpusIndex`, and their theorems | done |
| 4 | `EstimationWizard` | done |
| 5 | `EstimateCache` | done |
| 6 | `Conversation`, `ChatSessions` over it, and their theorems | done |
| 7 | `TaskHours` | done |
| 8 | `Settings`, `AgentProfiles` and their theorems | done |
| 9 | `IngestionJobs`, `BudgetCleaning`, `Chunking` | checked; the last two proved |
| 10 | `Pseudonyms` | done |
| 11 | `StageToggles`, `Retrieval` and their theorems | done |
| 12 | `EstimateStages`, `StreamlitSessions` and their theorems | done |

What remains open is liveness, which TLC checks, and the parts of section 8.
