# A TLA+ verification project for AI-DBC

AI-DBC is a FastAPI backend with a React frontend that serves one GGUF model
through `llama.cpp`, can route free chat text to remote providers, ingests
documents into a SQLite vector store, and keeps conversations with a workspace
of files. This directory holds TLA+ modules for the parts of the backend and of
the browser interface whose correctness depends on the order of things, the TLC configurations that check
them on small instances, and TLAPS proofs for every value of the constants.
`PROJECT.json` is the index: components, runs, mutants, the lines of source each
definition stands for, findings, hazards and theorems. Paths below are relative
to `src/backend/app/` unless they start with `src/`.

## 1. Inventory

| Component | State | Operations | What is hard | What makes it correct |
|---|---|---|---|---|
| Local model service, `services/llm_service.py` | `llm`, `model_path`, `is_loaded`; `_lifecycle_lock`, `_inference_lock` (re-entrant), `_state_lock` | load, unload, generate, generate_stream | Every blocking call runs on an executor thread; each `next()` of a stream runs on whichever worker is free; the re-entrant lock is kept across yields | No model is closed in use; answers are true; no model is lost without an error; the locks do not deadlock |
| Chat endpoints, `routers/chat.py` | the reservation and the generator of a request | completions, stream, model and catalog endpoints, RAG context | A slot is reserved in one function and released in the `finally` of a generator that may never start; a refusal crosses three layers of `except` | Every slot comes back; errors keep their status |
| Remote capacity, `services/access_control.py:85-156` | a bounded semaphore, the lease of a request | reserve, enter, exit, release | One slot passes from the request to its first attempt; later attempts take their own | Slots are conserved; never more calls than the limit |
| Request limiter, `services/access_control.py:17-75` | an OrderedDict of windows | check | The clock is read before the lock; LRU eviction forgets counts | At most the limit per window; no refusal within the limit |
| Access check and identity, `access_control.py`, `identity/` | none | token and loopback check, principal | none: a pure decision per request | A decision table, tested by the repository |
| Router: selection and fallback, `services/model_router.py:170-380` | none of its own | `_selection`, complete, stream, validate_request | The selection is evaluated twice; failures in the middle of a stream | No splice of two answers; fallback reaches the next provider, and the local model in the end |
| Router: catalogs, `model_router.py:93-192` | `_catalog_cache` (30 s), `_catalog_cached_at` | list, refresh, eligibility | Two levels of cache and no lock | No model that was never free; a refresh refreshes; caches settle |
| Remote provider client, `services/remote_provider.py` | `_catalog` | list_models, `_resolve_model`, complete, stream | Its catalog has no time to live | As above |
| Document store, `services/rag_service.py` | SQLite connection, embedding model; one re-entrant lock | open on first use, add, search, close | Close races with uploads and is undone by the next one; failures between batches; quota | Quota; all or nothing; results match the store |
| Document endpoints, `routers/documents.py` | none | upload, search | Size and type limits before a call in a thread | Refuse before work is done |
| Conversations and timeline, `conversations/service.py`, `routers/cowork.py` | tables on one shared connection | create, list, append, timeline | Row, directory and event are three commits; order by a time taken before the lock; readers step through a shared connection without it | Events in order; isolation of principals |
| Workspace files, `workspace/manager.py` | the file system | resolve, read, write, list | Writes truncate in place; the event follows the write | Confinement; every write has an event |
| Settings and schemas, `schemas/` | immutable after start | validation | The provider order and numeric bounds | Assumptions of the other modules |
| Lifespan, `main.py` | the services of the process | start, stop | `is_loaded` is read without a lock at shutdown | Nothing is left open; shutdown ends |
| Frontend, `src/frontend/src` | React state of chat, model and panel | refresh, load, unload, send, clear | Overlapping requests answered in any order, or not at all | The status shown is the server's when nothing overlapped; a conversation stays made of questions and their replies; buttons come back |
| Scripts, deployment, CI; vendored `src/.kilo` | none of the program's | | | not part of the model |

**How they interact.** Every endpoint passes the access check, and those that
may go remote pass the limiter. The chat endpoints call the RAG service for
context, then the router. The router asks the catalogs which models are
eligible and reads `LLMService.is_loaded` without a lock; each remote attempt
runs inside a lease of the shared semaphore, the local attempt inside the
inference lock. Blocking work runs through `asyncio.to_thread`; a streamed body
is a synchronous generator that Starlette advances with
`iterate_in_threadpool`, one worker thread per `next()`, and that the event loop
finalises when the client goes away. Conversations, workspaces and documents
meet only in their endpoints and in the lifespan that closes them.

The hazards this leads to are listed one by one, at their lines, in
`PROJECT.json`. The two that no property covers carry a note that says why: a document
that is uploaded twice (`services/rag_service.py:183`) and a change of the embedding model
(`rag_service.py:131`) are cases of which the repository promises nothing.

## 2. Modules

| Module | Models | Kind |
|---|---|---|
| `ModelLifecycle` | what `LLMService` promises, with atomic operations | abstract specification |
| `LocalModel` | `LLMService` with its locks and the threads that run it | detailed specification; refines `ModelLifecycle` |
| `LocalModelProofs` | | inductive invariant, safety theorems, refinement theorem, what lost releases cost, no circle of waits, bounded work |
| `Lifespan` | the process from start to stop | composition: extends `LocalModel` with the server, the two stores and the shutdown |
| `LifespanProofs` | | that an orderly stop leaves nothing open and never gets stuck; builds on `LocalModelProofs` |
| `RemoteCalls` | chat requests, routing loops, the semaphore and leases | specification |
| `RemoteCallsProofs` | | types, conservation of slots and what follows from it, what cuts a chain short, progress |
| `ModelCatalog` | the two catalog caches of a provider and those who use them | specification |
| `ModelCatalogProofs` | | type correctness, only models that were free, honest refreshes |
| `RateWindow` | the fixed-window limiter | specification |
| `RateWindowProofs` | | types, the bound on admissions, earned refusals, the order of eviction |
| `Journal` | what conversations and timelines promise | abstract specification |
| `Cowork` | conversations, timelines and workspace files | detailed specification; refines `Journal` |
| `CoworkProofs` | | inductive invariant, safety theorems, refinement theorem, what a read returns |
| `DocumentStore` | what the document store promises, with atomic operations | abstract specification |
| `RagStore` | the document store, its chunker and its search | detailed specification; refines `DocumentStore` |
| `RagStoreProofs` | | quota, atomicity of uploads, the legacy store, the chunker, the scan, refinement theorem |
| `Frontend` | the browser's state and its requests, over the server as it sees it | specification |
| `FrontendProofs` | | inductive invariant, pairing of questions and replies, what is sent, the truth of the status |
| `MC*` | model-checking instances: symmetry sets, the value of `Order`, texts and chunker settings | |

### LocalModel

*State.* `model` stands for `llm`, `model_path` and `is_loaded`, which are
always written together under `_state_lock`; no critical section of that lock
blocks, so each is part of one step. `lifecycleOwner` is the plain lock,
`inferenceOwner` with `inferenceCount` the `RLock`: it has an owner, a count,
and raises when another thread releases it. A blocking call stands for its
executor thread, and `phase` is its program counter. `stream` says where each
generator is suspended, `runs` which worker executes a `next()`, `using` on
which model a generation runs.

*Actions.* `LoadEnter`, `LoadAlready`, `LoadConstruct`, `LoadFail`,
`LoadBuilt`, `LoadPublish` follow `load_model_status` and
`_load_model_locked`; `UnloadEnter`, `UnloadRead`, `UnloadClear`,
`UnloadClose` follow `unload_model_status`, and `UnloadCloseFails` is the `close()` that
raises after the fields were cleared: the locks are left, the caller gets the error, and
`abandoned` remembers the model, to which the service has no reference any more.
`GenerateBegin`, `GenerateEnd`, `GenerateRefused` follow `generate`. `StreamNext` gives a suspended generator
to any free worker; `StreamEnter`, `StreamChunk`, `StreamStop`, `StreamExit`,
`StreamFail`, `StreamRefused` are what that `next()` may do, and `StreamDrop`
is the event loop closing a generator whose client has gone. Download, checksum
and the construction of `Llama` are one step that succeeds or fails; prompts
and text are left out. Workers are permanent: that anyio ends idle threads, and that a new
one may get the identity of an old one and with it a lock the old one kept, is not
modelled.

*Refinement.* `LifecycleIsAtomic` maps `LocalModel` to `ModelLifecycle`, where a load, a
generation and an unload that finds nothing are one step each. An unload that takes a model
out of service is two, since `close()` may raise: `TakeOut`, the clearing of the fields,
after which nothing is loaded, and `Retire` or `RetireFails`, in which the call gets its
answer or its error. No load takes effect in between (`NothingLeaves`).

### Lifespan

*State.* `server` is where the process is: serving, draining after a signal, then
the steps of the `finally` block of `main.py`. `asked` and `other` are the requests to
the model and to the two stores that have arrived; `rag` and `cowork` say whether a store
holds a connection, as `RagStore` and `Cowork` leave it. *Actions.* `AskModel`, `AskStream`
and `AskOther` let a request in while the server is serving; `RunCall`, `RunStream` and
`LoseStream` are the steps of `LocalModel`. `Signal` and `Drained` are uvicorn without a
graceful timeout, as the repository starts it: no new requests, and all old ones finish.
`BeginUnload` or `SkipUnload` reads `is_loaded`; the unload then runs as one more call of
`LocalModel`, named `Shutdown`, through the same locks. `EndUnload`, `CloseDocuments` and
`CloseConversations` are the rest of the block, and `CloseFails` an error in one of the
three, the unload included, which leaves out what comes after it.

### RemoteCalls

*State.* `permits` is the semaphore, `lease` the slot reserved for a stream,
`own` the requests whose attempt holds a slot of its own; `queue` is what is
left of the selection; `emitted` the provider whose content the client has
seen. *Actions.* `StreamValidate`, `RagFails` and `Reserve` are
`_stream_completion` up to the response; `BodyStart` is the first `next()` and
`DropUnstarted` the client that is gone before it; `CompleteStart` is
`chat_completions`. `RemoteBegin`, `RemoteRefused`, `LocalBegin`, `SkipLocal`,
`Chunk`, `Succeed`, `Fail` and `Exhaust` are one pass of the loops of
`ModelRouter.complete` and `ModelRouter.stream`; `Finish` and `Drop` are the
generator's `finally`, reached in order or by `GeneratorExit`.
A request names nothing, a provider, a model of some remote provider, the local model by
its name, or what nobody offers (`Wants`); which remote models are eligible is any subset
at each evaluation of `_selection`, so what `ModelCatalog` can make of the caches is
included. `LoadOrUnload` is the local
service, as the unlocked `is_loaded` shows it. The semaphore has one limit for
the life of the process: only tests change it.

### ModelCatalog

*State.* `offered` is the provider's price list, `catalog` is
`provider._catalog`, `cached` with `fresh` the router's entry and whether it is
within 30 seconds. A thread has its operation (`op`), its place in it
(`phase`) and the list in its hands (`got`). *Actions.* `Begin` is a listing,
`POST /models/refresh`, a resolution of OpenCode's `auto`, or the check of a
model. `Check` reads `free_model_ids`; `UseCache` and `Miss` are the two
branches of `_catalog_for`; `UseCatalog`, `Answer`, `StoreCatalog`,
`Malformed` and `Fail` are `provider.list_models` with every outcome of the HTTP
call; `StoreCache` ends `_catalog_for`. `Reprice` and `Expire` are the
provider and the clock. There is no lock anywhere, so every read and write of a
cache is a step. One provider is enough: no state is shared between providers.
`lists` and `everFree` are history, for the properties only.

### RateWindow

*State.* `windows` is the OrderedDict as a set of windows, whose place is given by
`turn`: the move to the end gives a window a turn after all others. `requests` are
the requests in the order they read the clock. *Actions.* `Stamp` is
`time.monotonic()`, outside the lock; `Admit` and `Refuse` are the whole critical
section of `_check_fixed_window`: the sweep of all clients (`Live`), the window of
this one (`WindowOf`), the count and the move to the end (`Counted`) and the
eviction (`Kept`). `Tick` is the clock.

### Cowork

*State.* `rows` and `events` are the two tables, as committed; `pending` is the
request whose transaction is open, which is the one that holds `_lock`. `dirs`,
`written` and `file` are the workspace: a file holds the text of one request, of
none while it is being written, or of two when writers overlap. `stamp` is
`created_at`. A principal stands for the hash that `identity/context.py` makes of the
Authorization header, or of local access without one: the same token in another
spelling of the scheme is another principal. *Actions.* A request is a thread, and its
actions are its effects in the order of the endpoint: `InsertRow`, `CommitRow`, `Root`
for a creation; `Validate` for all others. A timeline then fetches its rows, `TimelineRows`
once for every `created_at` in the order of the index, with the steps of other threads in
between, until `Timeline` finds the cursor at the end. Other requests go on with `Mkdir`,
`Truncate` and `Write`, or `Read`, each of which first makes the root of the workspace
(`Resolve`); then `Stamp`, `InsertEvent`, `CommitEvent`, which are `append_event`, and
`Reply`. `Refuse` is every error that changes nothing, a query that raises among them, `WriteFails` and `RollBack` the
errors of the disk and the database, `Restart` the end of the process at any
point, between a commit and its answer too. Readers use the shared connection without
the lock, so `Recorded` includes the row of the open transaction. `created_at` is taken
to grow with every call: the clock of the machine does not step back. Each conversation
has one file, since requests to different files meet only in the database.
`get_conversation` and `list_workspace` read only and are left out; `close()`
comes after the last request and is in `Lifespan`.

*Refinement.* `TimelineIsAJournal` maps `Cowork` to `Journal`: an effect is complete
when the workspace shows it, recorded when its event is committed, answered when its
client has "ok". What a timeline shows holds all that was answered before it was asked for
(`heard`) and nothing that is not done: a row that is inserted while the rows are fetched
may be in it or not.

### RagStore

*State.* `lock` is the request inside `RAGService._lock`, `ready` says that the
connection and the embedding model are set, `database` and `legacy` are the two
files that `_ensure_ready` looks for. `rows` is the table as committed and
`open` what the open transaction has inserted; a row names its upload, its
`chunk_index` and its distance from the query. `vectors` are the embeddings an
upload has in hand. *Actions.* `Enter`, then `AlreadyReady`, `RefuseLegacy` or
`OpenStore` and `LoadEmbedding`, which are `_ensure_ready`; then `Plan` or
`RefuseQuota`, one `Embed` per batch, `Insert`, `Commit` and `Reply`, which are
`add_document`; or `Scan`, which is `search`. `Fail` is every error before the
transaction, `InsertFails` and `RollBack` the errors in it. `Close` is the
lifespan's, `Restart` the end of the process at any step, `Migrate` the operator
who takes the Chroma store away.

*Pure parts.* `Normalized`, `Passes`, `Window` and `Chunks` are
`_normalize_text` and `_chunk_text`, on texts of visible characters, spaces and
line ends; the loop is given by where its passes begin and which is the last, and
what `_normalize_text` keeps of a text is in its order (`Nth`).
`Keep` is a pass of the loop of the search, `Nearest` the loop, as a recursive function
on the number of rows seen. A fetch in batches of 256 visits the same rows in the same
order.

*Refinement.* `StoreIsAtomic` maps `RagStore` to `DocumentStore`: the table is `rows`, so
an upload takes effect in its commit, and a search in the instant it is answered. The
lock, the batches, the open transaction, the two files and what failures and restarts do
to them are not in `DocumentStore`; its quota, its searches of a whole table and answers
that stay true are.

*Abstraction.* There is one query, and embedding chooses any distance; the
cosine, its dimensions and the embedding of the query are left out.

### Frontend

*State.* `flight` has the requests under way and what each was answered; `loaded` is the
server's model; `status`, `catalog`, `ready`, `busy`, `panelBusy`, `messages` and `input`
are the state hooks of `App.jsx` and `ControlPanel.jsx`; `sent` and `previous` are what
`handleSendMessage` keeps in its closure. `clean` and `doubt` are history: whether the last
request that sets the status ran alone. *Actions.* One per handler up to its
`await` (`LoadModel`, `SendMessage`, `PanelLoadOrUnload`, ...) and one per continuation
(`ApplyHealth`, `ApplyLoad`, `ApplyChat`, ...); in between `Serve` or `Fail`
is the server or the network, at any time and in any order, and `Change` another
client. A reply may be empty: the server answers with what the model gave. Of texts the
model has the sizes, in characters and in bytes (`Text`), as far as `ChatMessage` and
`ChatRequest` measure them (`Accepted`).

## 3. Runs

| Run | Checks | Instance | States |
|---|---|---|---|
| `local_model_safety` | types, `ModelInUseIsOpen`, `LockCoversStreams`, `ModelsAccountedFor`, `OverlapsAreReentrant`, refinement of `ModelLifecycle` | 3 calls, 2 streams, 2 workers, 1 chunk, disconnects | 22,190 |
| `lifespan` | `NothingLeftOpen`, `EveryRequestIsAnswered`, `ShutdownEnds` | 2 calls and the shutdown's, 2 streams, 2 workers, disconnects, 1 other request | 140,352 |
| `local_model_leak` | finding: `UnloadWaitsForGenerationOnly` | as `local_model_safety` | stops at the violation |
| `remote_calls` | types, `SlotsConserved`, `SlotsReturned`, `OnlyContentOrRefusalCutsChain`, `NobodyWaitsForCapacity`, `NoFallbackAfterContent` | 2 requests, 2 providers and local, 1 slot | 291,126 |
| `remote_calls_leak` | finding: `StreamReleasesCapacity` | as above | stops at the violation |
| `remote_calls_refusal` | two findings: `RefusalIsAsDocumented` | as above | stops at the violation |
| `model_catalog` | types, `OnlyOnceFree`, `RefreshIsHonest`, `CatalogSettles` | 2 threads, 1 model, 1 route, 3 price changes or failures | 233,695 |
| `model_catalog_removed` | finding: `RemovedNotSelected` | 2 threads, 2 models | stops at the violation |
| `rate_window` | types, `AdmissionsBounded`, `NoFalseRefusal`, `EvictsLeastRecent` | 3 clients, limit 2, window 2, room for 2, delay 1, 5 requests, time 0..4 | 992,442 |
| `cowork` | types, `AnswersAreDurable`, `TimelineIsComplete`, `PrincipalsAreIsolated`, `ReadsLastWrite`, refinement of `Journal` | 4 requests, 2 principals, 1 failure or restart | 846,132 |
| `rag_store` | types, `UploadsAreAtomic`, `SearchesAreExact`, `VisibleTextIsStored`, `LegacyIsRefused`, refinement of `DocumentStore` | 3 requests, 4 texts, 2 chunker settings, quota 4, batches of 2, 2 failures or restarts | 486,663 |
| `frontend` | types and flags, `RepliesFollowQuestions`, `SentConversation`, `StatusIsRight`, `ButtonsComeBack` | 2 requests under way, limit 2 messages, 3 turns, texts of 2 sizes | 409,404 |

**Why the bounds are enough.** *LocalModel*: three calls are a load, an unload
and a third that races with both; two streams and two workers let a stream move
to another thread while the other stream takes its place; one chunk is the
least that suspends a generator inside its `with`. *Lifespan*: two calls are a load and what races with it before the signal; a stream
without chunks still suspends inside its lock, with its last one; one other request
can be running at the signal or open the document store before it. *RemoteCalls*: with one slot,
two requests are the least that compete, and two providers before the local
model give a first attempt, a fallback and a last resort. *ModelCatalog*: lists
are copied whole and never merged, so a single model already makes stale lists
differ from fresh ones, and three troubles allow a change, a change back and a
failure. *RateWindow*: with room for two, three clients force evictions; five
requests exceed twice the limit; the clock covers two windows and their border.
`MaxDelay` bounds how long a request waits between the clock and the lock. It is
part of the property `AdmissionsBounded`: the promise "at most twice the limit
minus one in any stretch of a window" holds only for a window less that delay.
*Cowork*: a creation, two writes and a read or a listing is the least in which
the order of two writes shows; one failure or restart, at any point, separates
any two effects of a request. *RagStore*: the texts have a window of blanks only, blanks
around the text and before a line end, and one of them is blank; with the two
settings an upload makes one to three chunks, so it takes one batch or two, and
a second upload fits, fills the quota exactly or is refused; two distances give
ties; two failures leave an upload in part and let the next one fail as well.
*Frontend*: two requests under way are the least that overlap; a limit of two messages
is passed by the second turn, whose conversation is then cut; the real limit, 128, is
even too, which is an assumption of the module. Every text is short but the reply of the
second turn, which leaves no bytes for the question of the third, so that one is refused;
any reply may be empty instead.

The bounds `MaxChunks` (of a stream; in `RagStore` it is the quota), `MaxTrouble`, `MaxDelay`, `MaxRequests` and `MaxTime`
stand in guards, so the models are finite without constraints. Runs allow
deadlock where the requests of an instance are finite: when all are answered
nothing more happens.

**Fairness.**
- `LocalModel` has safety properties only; its liveness is `Lifespan`'s: weak
  fairness of every call's next step and, per stream, of some worker's step, of the
  requests to the stores and of the steps of the shutdown. Threads that can run do
  run, `llama.cpp` returns, and a client reads its stream or goes away. Requests and
  the signal need not come. The lock that `local_model_leak` shows lost makes requests
  and the shutdown wait for ever; the properties say that nothing else does
  (`ReleaseLost`). uvicorn is started without a graceful timeout, so nothing but a kill
  ends such a wait.
- `RemoteCalls` has safety properties only. Nothing in the code ends every attempt: a
  local one waits for the inference lock, which finding 1 may keep for ever, the timeouts
  of the HTTP client are per read, and a client may stop reading without going away. What
  the code does promise, that a request never waits for the capacity others use, is
  `NobodyWaitsForCapacity`: in every state a request outside an attempt has a step it can
  take, without any error, which is said with `ENABLED` and needs no fairness.
- `ModelCatalog`: weak fairness of each thread and of the passing of 30 seconds,
  and strong fairness of *some* listing beginning: clients go on listing the
  models. Without a listing no cache is ever refreshed, which is a choice of the
  code and not a fault. Failures and price changes are finite, so the property
  says what follows once the provider is quiet.
- `Frontend`: weak fairness of every request being answered or failing, and of its
  continuation. The proxy's timeouts (`src/docker/nginx.prod.conf:83-85`) end what
  the server does not answer. The user is not obliged to anything.
- `RateWindow`, `Cowork` and `RagStore` have only safety properties; that no failure
  leaves a lock behind is part of `TypeOK` in the last two.

Every property of a passing run has a mutant in `PROJECT.json`: an operator
defined just before the definition it would replace, named for the mistake
(`UnloadClearUnlocked`, `ReserveWaiting`, `KeptLate`, ...), under which TLC
finds the property violated.

## 4. Findings

1. **A stream can keep the inference lock for ever**
   (`services/llm_service.py:222`, run `local_model_leak`). `generate_stream`
   yields inside `with self._inference_lock`, an `RLock`. When its last
   `next()`, or its finalisation, runs on another thread than the first one, the
   release raises and the lock stays held by a thread that will not release it.
   An unload, a load or a blocking generation then waits with nothing being
   generated. The safety properties survive: a lost release only makes the
   count too high (`LockCoversStreams`). Nothing else can do this: as long as no
   stream has failed or been dropped, what waits for the lock waits for a generation
   that is under way (theorem `WaitsAreHonest`).
   A worker that holds the lock for a suspended stream enters it again for another
   one, so that their generations interleave on one context; `OverlapsAreReentrant`
   says that this is the only overlap there is.
2. **A reserved slot is lost when the body never starts**
   (`routers/chat.py:207`, run `remote_calls_leak`). The `finally` of a
   generator that was never advanced does not run.
3. **A refused completion answers 500** (`routers/chat.py:162`, run
   `remote_calls_refusal`). `except Exception` catches the `HTTPException(429)`
   that the lease raised.
4. **A refused slot ends the chain before the local fallback**
   (`services/model_router.py:310`, and `:371` for streams; run `remote_calls_refusal`).
   The same exception leaves the loop over the selections, so that the local model, which
   is loaded and next in the chain, is not tried. The documents say that automatic routing
   ends with the local fallback (`src/docs/user-guide/chat-usage.md:82`,
   `src/docs/user-guide/troubleshooting.md:90`). One trace shows this and finding 3;
   `OnlyContentOrRefusalCutsChain` says that nothing else cuts a chain short.
5. **A model that is no longer free is still selected**
   (`services/remote_provider.py:222`, run `model_catalog_removed`). `_resolve_model` uses
   the provider's own catalog, which has no time to live: a model that the provider has
   removed, or now charges for, is still chosen. `OnlyOnceFree` is what remains of "no paid
   model".

Each finding quotes, in `PROJECT.json`, the sentence of the repository it
disagrees with. Some things the models show that no sentence of the repository denies:
- a model whose `close()` raised is out of the service's reach: `is_loaded` is already
  False, so neither a later unload nor the shutdown closes it
  (`services/llm_service.py:281-288`; `ModelsAccountedFor`, `NothingLeftOpen`);
- when a full conversation is sent, its first message is a reply whose question was cut off
  to make room for the new one (`App.jsx:256`; `SentConversation`);
- an empty reply stays in the browser's conversation, and the API refuses every later chat
  that contains it with 422 until the user clears it or it is cut off; so it does with a
  text that is too long, or with a conversation of too many bytes (`Accepted`);
- a timeline may show an event whose commit then fails (`Journal` lets a reader see what is
  still being recorded);
- a client that was evicted from the limiter's store has no bound.

## 5. Proofs

*LocalModel.* The invariants the runs check are not inductive alone. `IInv` adds
to the types: which phases own `_lifecycle_lock` and that only one call is in
them (`LifecycleInv`); which thread may own the inference lock, with what count,
and that a free lock means no generation (`OwnerInv`, `LockCoversStreams`); that
what a generation uses is the published model (`UsingInv`); that a call's model
is published once, and then closed once or abandoned by a `close()` that raised, with the
error in the hands of a caller (`ModelsInv`, `ResultInv`). The heart is
`LockCoversStreams`: the wrong thread's release changes nothing, so the count may
exceed the number of streams inside the lock but never fall below it. From
`IInv`: `TypeCorrect`, `ModelSafeInUse`, `LockCovers`, `ModelsAccounted`, `Overlaps`
(who else uses the model has entered the lock on the same worker), and
`Refinement`, that every step of the threads is a step of `ModelLifecycle` or a
stutter. Assumed (`LocalModelAssumption`): finitely many streams, and names that
do not clash.

The other side of `LockCoversStreams` is `LeaksAreCounted`: the count exceeds the
streams inside the lock by at most one for every stream that failed or was dropped. Hence
`WaitsAreHonest`, the complement of finding 1. `NoCyclicWait` is the absence of deadlock,
stated with the guards of the actions in the place of `ENABLED`: whenever a call waits or
a generator is under way, some call can move, or some generator under way can, or a
worker holds the inference lock after a lost release. `HeldInv` is what it needs beside
`IInv` and `LeaksCounted`: who holds the lifecycle lock is in one of the phases under it,
and a worker runs a generator of its own that has not ended. From there the holder of the
lifecycle lock waits for the inference lock at most, and the holder of that for nobody.
`WorkIsBounded` is the variant that goes with it: every step of a call or a generator leaves
it with less work and nobody with more, five steps for a call and `2 * MaxChunks + 6`
for a stream.

*Lifespan.* Each step is a step of `LocalModel` or leaves it alone, so `IInv` holds.
`ProgressInv` adds that once the server has drained no call but the lifespan's own
runs, and that what the `finally` block has closed stays closed. From it
`NothingStaysOpen`, with any number of workers, disconnects and lost releases: what a lost
release costs is that the stop is not reached, and an unload whose `close()` raised in the
lifespan itself ends in `failed`, not in `stopped`; one that raised before, in a request, is
the exception the theorem names. `RunsTheService` says that the process
implements `LocalModel`, so that the theorems above, `NoCyclicWait` among them, hold
inside it. With them `NeverStuck`: after a signal the lifespan, a call, a generator
with its client or a request to the stores can move until the process has stopped, unless
a release was lost. Assumed (`LifespanAssumption`): the thread pool is not empty.

*RemoteCalls.* `SlotInv` adds to the types which phases hold a slot and as what
(`HoldInv`), where emitted content comes from (`EmittedInv`), and the count
`permits + Cardinality(Holders) = Limit`. Every action moves at most one request
in or out of `Holders` and changes `permits` by one the other way. From it:
`Conservation`, `Bounded`, `Returned`, and `OneProviderPerStream`, an action
property. `Exhausted` needs only that a request has no result before its end and no
chain before its start. `Types` adds `RouteInv`, where the chain of a request comes from:
`Eligible`, the loop over `free_provider_order`, yields configured providers only and not
more of them than there are. `Progress` is an action property with a variant: each
step of a request lowers `StepsLeft`, which no step of another request, of a client or of
the local service raises, so a request takes at most `2 * Len(Order) + 7` steps whatever
the providers answer. That they are taken depends on attempts that end, which the code
does not guarantee (section 3). Assumed: finitely many requests, a positive limit, a sequence of
providers that does not contain the local one (the validators of
`schemas/config.py`).

*ModelCatalog.* `OnlyOnceFree` alone is not inductive: a check accepts what an
earlier thread left in a cache. `CatalogInv` says that every list in the system,
in either cache or in a thread's hands, holds only models that were free in some
answer. From it: `CatalogTypes` and `OnlyFreeModels`, for any number of threads,
models, price changes and failures. `HonestRefresh` says the same of one thread: while a
refresh is under way, what it has in hand is an answer of the provider to itself.

*RateWindow.* The hard one is `Bounded`. Counts are real: a window's count is at most
the admissions of its client since the window's start. Turns are real: the order of the
turns is the order of the last admissions, which gives `Evictions`. And the windows of a
client that was never evicted are paced: the first admission of a window comes at least
`Window - MaxDelay` after the first of the window before, because a window
starts at a time read at most `MaxDelay` earlier. A stretch shorter than that meets at
most two windows, the first of them not with its first admission, so it has fewer than
twice the limit. `RefusalsAreEarned` is the count of a full window, read backwards.
Assumed (`RateWindowAssumption`): the numbers are natural, and limit, window and room
not zero.

*Cowork.* None of its properties is inductive. `CoworkInv` adds where a request can be
given what it is about: it names a conversation whose creation was answered before it
began (`Begun`), acts only in a committed one of its own principal (`Placed`), and takes
its time after every request it can have heard of (`Timed`). For a timeline that is fetched
row by row it adds where the cursor can be: what must be shown is listed already or still
ahead of it (`Due`), because a row that was answered before is committed, and one that comes
in behind the cursor was not; at the end of the cursor, then, all of it has been listed
(`DueIsListed`). From it: `CoworkTypes`,
`Durability`, `TimelinesComplete`, `Isolation`, and `Refinement`, that the endpoints, the
connection and the files implement `Journal`. `LastWriteIsRead` rests on a further
invariant (`FileInv`): a write that has the file to itself, because every other one had
been answered when it began or has not touched the file, finds it empty and leaves
its text alone in it; of writes answered one after the other the last is the one with the
greatest `created_at`. Assumed (`CoworkAssumption`): finitely many requests, and `None`
is none of the names.

*RagStore.* `QuotaHolds` and `UploadsAreAtomic` are not inductive: an upload counts
long before it inserts, and what it commits is whatever is open on the
connection. `RagInv` adds that only the request in the lock has a transaction
open, that what it will commit is its own chunks, each once and in order
(`OwnTransaction`), that the room it counted is still there (`RoomKept`), and that
nothing is stored or answered early (`NothingEarly`). From it: `RagTypes`, `Quota`,
`Atomicity` and `LegacySafe`.

What the chunker and the scan compute is proved for all texts and tables. The provers
cannot use the library's induction theorems, so each of the proofs takes
a least counterexample instead (`Least`, from the well-foundedness of the natural numbers):
the first pass whose window ends behind a character contains it, since each pass begins
less than a window after the one before, and has not been cut off (`Covered`); and if the
list of the best were wrong after some number of rows, then first after one that `Keep`
had made wrong (`KeepBest`, `NearestIsBest`). From the first: `VisibleText`. From the
second and `SearchInv`, which holds the answer of a search to the number of rows it saw:
`Exactness`, that it is the nearest of the table at one moment of the search, with
every upload answered before. `Refinement` puts the parts together: `RagStore`
implements `DocumentStore`. It needs one thing more, `AskedInv`: an upload that is not
refused at sight has something visible, hence a chunk, so that what was accepted can be
seen in the table. Assumed (`RagAssumption`): texts are sequences, an
overlap is smaller than its size (the validator of `schemas/config.py`), batches
are not empty, a search asks for one result at least.

*Frontend.* `FrontendInv` adds to the types that each flag has one request behind it
(`OneEach`); that the conversation is made of pairs between chats, and during one was, and
is now what the limit leaves of it with the question at its end (`ChatInv`); and that a
status request nothing has disturbed is the only one, and tells of the model as it is
(`StatusInv`). The work is in two lemmas on sequences: what the limit leaves of a paired
conversation with a question (`Question`), and that its reply makes it paired again, with
one pair fewer at the front when the limit was met (`Reply`), which is where the limit has to
be even. From it: `TypeCorrectness`, `QuestionsAreAnswered`, `ConversationsSent`
and `StatusIsTrue`, for any number of requests under way and messages. Assumed
(`FrontendAssumption`): an even limit that is not zero (`MAX_API_MESSAGES` is 128).

**Only model-checked.** Of the properties of the passing runs, the four liveness
properties (`EveryRequestIsAnswered`, `ShutdownEnds`, `CatalogSettles`, `ButtonsComeBack`)
and `NobodyWaitsForCapacity`: liveness under fairness is out of the prover's reach, as is
anything that rests on `ENABLED`. `NeverStuck`, `NoCyclicWait` and `WorkIsBounded` are the
parts of the first two that are safety. Every other invariant and action property, and the
three refinements, are proved.

## 6. Not modelled

The access check and identity (pure decisions without state, of which `Cowork` and
`RateWindow` take the results), HTTP and the parsing of provider answers (their outcomes
are the outcomes of an attempt in `RemoteCalls` and of a listing in `ModelCatalog`), the
status answers, prompt formatting, field validation, rendering, notices and themes,
logging, scripts and deployment. Path confinement depends on the links of a file system
and is left to the repository's tests. In `RagStore` the embedding model never changes,
and the cutting of search results to the size of a prompt is left out.

## 7. Plan

*Done:* all modules of section 2: the local model, the remote capacity, the catalogs, the
limiter, conversations and files, the document store, the lifespan that composes the
first and the stores, and the browser.

What is left, in this order:

1. A composition of `RemoteCalls` with `ModelCatalog` in the place of "any subset is
   eligible".
2. Variants for the other liveness properties, as `WorkIsBounded` is one for
   `EveryRequestIsAnswered`: a thread of the catalogs, and a browser's request.
