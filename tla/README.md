# Maple Chat in TLA+

Maple Chat collects posts of Inven's MapleStory boards and official patch notes, indexes
them, and answers questions about them in Discord. This directory holds TLA+ models of it,
the TLC configurations that check them and proofs checked by TLAPS. Paths below are those of
the repository; `db/…`, `jobs/…` and so on are under `src/maple_chat/`.

    tlc -config CorpusRaces.cfg MCSourceCorpus      # one run
    tlapm JobQueueProofs.tla                        # the proofs of a module

`PROJECT.json` is the machine-readable index: components, runs, which source lines each
definition stands for, a mutation of the model that breaks each property, hazards, findings
and theorems.

## 1. The system

| Component | State | Operations | Interacts with |
|---|---|---|---|
| source corpus: `crawler/live.py`, `db/repositories.py`, `admin.py`, `ops/reconcile.py` | `articles`, `comments`, `media_assets`, `denylist_entries`, `outbox` | ingest a listing page, exclude an article, deny an article, repair at start | shares the rows with indexing, each in its own transaction |
| indexing: `indexing/service.py`, `indexing/embedding.py` | `chunks`, `chunk_embeddings`, `embedding_revisions` | index what is SANITIZED, rebuild a revision, activate it | reads and locks source rows, `SKIP LOCKED` |
| job queue: `jobs/queue.py` | `crawl_jobs` | enqueue, lease, acknowledge, fail, reclaim | planner enqueues, workers lease, a start reclaims |
| lease worker: `jobs/worker.py`, `ops/shutdown.py` | the batch of leases of a tick | tick, graceful stop | calls handlers between two transactions of the queue |
| planner and checkpoints: `scheduler/planner.py`, `cli.py` | `boards.crawl_checkpoint`, `crawl_runs` | plan slices, resume, record progress | the scripts run it with or without a file lock |
| scripts: `scripts/*.sh` | lock files, exit codes | daily sync, backfill, weekly patch notes, retry | start `crawl-live` and `index` processes |
| crawler client: `crawler/http.py`, `circuit.py`, `policy.py` | circuit, pace, approval file | fetch, follow redirects, stop on denial | raises through ingestion into the scripts |
| patch notes: `crawler/nexon_updates.py` | `articles` of one board | sync the last 365 days | same upsert as the crawler |
| durable agent: `agent/store.py`, `agent/service.py` | `agent_runs`, `agent_tool_calls`, `answers` | create, resume, plan, call tools, finish, fail | the Discord handler calls it, tools call out |
| Discord runtime: `discord/*.py` | queue lock, waiting count, semaphore, rate windows, persistent views | route, admit, queue, answer, reply in parts, show sources | Q&A or agent |
| Q&A: `qa/service.py` | `answers`, `answer_sources` | collect evidence and facts, generate, check, store once per message | reads active chunks, vectors and facts |
| retrieval: `retrieval/` | none | fuse, cap, rerank, trim | database listings, rerank server |
| knowledge graph: `knowledge/` | sources, entities, aliases, relations | synchronise catalogs, link and traverse, audit | read by Q&A and agent tools |
| chunking: `indexing/chunking.py` | none | cut a text into overlapping chunks | called by indexing |
| clients: `llm/`, `nexon/` | none | bounded retries | called by Q&A, agent, indexing |
| the rest | — | configuration, health, logging, metrics, evaluation, parsers | — |

What is hard in it:

* **Transactions that overlap.** Crawler, index runs, the owner's commands and a starting
  process change the same rows under READ COMMITTED, each locking some rows and reading
  others without a lock.
* **Leases.** A job can run twice at once after its lease expired; a late acknowledgement must
  not touch somebody else's lease; a commit may have happened although its reply was lost.
* **Repetition.** Discord redelivers messages, to every process that listens; the agent resumes
  runs; scripts retry crawls in new processes that remember nothing.
* **Pages that move.** A board's list shifts under a crawler that counts in pages, while two
  scripts share one checkpoint.
* **Reads that grow old.** The patch-note sync compares rows it loaded minutes ago; the approval
  is read before a pause; a schedule is made before a lock is taken.
* **Cooperative scheduling.** Counters and locks of the Discord client must survive an exception
  at any `await`.
* **Sequences.** Editing an article and editing it back, deleting and restoring comments,
  excluding and repairing.

What makes the parts correct: search offers at most one version of a source, only what its row
says, and nothing excluded; a job runs a bounded number of times, ends once, and is never
changed by a worker whose lease is gone; an agent run keeps its budget, does not repeat what it
recorded, replies once to a message, and a success is final; loops driven by a model end; crawled pages
leave no hole behind; requests respect the approval and the site's refusals; the bot's queue never
leaks a place; an answer says only what its evidence and facts confirm.
The `hazards` of `PROJECT.json` name each danger at its line with the property that watches it.

## 2. Modules

| Module | Models | Abstract or composed |
|---|---|---|
| `RowLocks` | rows of PostgreSQL as the code uses them (external) | used by `SourceCorpus` |
| `SourceCorpus`, `MCSourceCorpus` | one article, its comments and images, its chunks and vectors, under crawler, indexer, owner and start | composes ingestion, indexing and administration over shared rows |
| `SourceCorpusProofs` | theorems about `SourceCorpus` | |
| `JobQueue` | the queue, its callers, its workers, stops, crashes and starts | implements `JobLedger` |
| `JobLedger` | what the queue promises for a job | abstract specification |
| `JobQueueProofs` | theorems about `JobQueue` | |
| `AgentRun` | one agent run with the Discord handlers that execute it | composes store, service and message handling |
| `AgentRunProofs` | theorems about `AgentRun` | |
| `DiscordFront`, `MCDiscordFront` | `on_message` of several bot processes, the answer transaction, replies, buttons, crashes | composes Discord runtime and Q&A storage |
| `DiscordFrontProofs` | theorems about `DiscordFront` | |
| `BoardSync` | a board's list, checkpoint, crawl commands and the three scripts that start them | composes planner, command line and scripts |
| `BoardSyncProofs` | theorems about `BoardSync` | |
| `PatchNotes` | the patch-note sync beside index runs and embedding revisions | composes both over `RowLocks` |
| `PatchNotesProofs` | theorems about `PatchNotes` | |
| `CrawlRequests` | each request of a crawl process, and the script that starts processes again | composes client, circuit, policy and script |
| `CrawlRequestsProofs` | theorems about `CrawlRequests` | |
| `ModelServices` | clients of the local model, reranker and embedder, as functions of the servers' answers | operators |
| `Ordering` | sorting by a key no two things share | operator of `Retrieval` and `KnowledgeGraph` |
| `Retrieval`, `Answering`, `KnowledgeGraph`, `Chunking`, `ChatFront` | the pure steps of search, answer, facts, chunks and chat | operators |
| `Algorithms` | calls every pure step with every input of a small set and states what its caller counts on | composes the operators: search feeds on rerank answers, answers on routing, facts and model answers, chunks on the embedder |
| `AlgorithmsProofs` | theorems about the pure steps, for every input, and about `Algorithms` | |

### RowLocks

A row is its committed version (`val`), the version its lock holder will publish (`work`) and
the lock. It states what PostgreSQL does when the code runs `SELECT … FOR UPDATE`, `UPDATE`,
`INSERT … ON CONFLICT`, a plain `SELECT`, `COMMIT` and `ROLLBACK`. A statement that must wait is
an action that is not enabled. An `UPDATE` over several rows has two steps: it matches the rows
visible when it begins, then it waits for their locks and writes them; rows that appear in
between are not part of it.

### SourceCorpus

*State.* `source` (articles, comments and images, by source), `chunk` and `embedding` (by source
and text), `denied` (the active denylist row), `tx` (the transactions: where each is and what it
has read), `startup` (a starting process runs alone). A chunk id is a hash of the source and the
text, so a chunk is the pair `<<s, c>>`; a content hash is the text itself.

*Actions.* `BeginCrawl` … `EndChildren` are `ingest_live_board_page` with
`upsert_article_with_outbox`, `upsert_comment_with_outbox` and `_store_media`;
`CrawlUnavailable` is its branch for a removed article. `DenyArticle`, `InsertDenylist` and
`AddDenylist` are `deny_article`; `Reconcile` is `reconcile_startup`; all three kinds of
exclusion run `ExcludeArticle` and the `exclude_…` statements of `exclude_article`.
`BeginBatch`, `NextSource`, the `stale_…` statements, `WriteChunk` and `EndBatch` are a
transaction of `index_sanitized_sources`. `Commit` and `Abort` end any transaction; `Abort`
stands for an exception, a deadlock victim and a crash alike. A change of an article and its
outbox row are one statement each under the same row lock, so the set of emitted texts is kept
in the row. A source with an empty text, which an article denied while a crawl held it can have,
is marked as indexed and gets no chunk: `NextSource` leaves it out of the chunks to write.

*Left out.* One article: two articles of a page share no row. The chunks of comments
and images also carry the title of their article, and those of comments the first 800 characters
of its body (`indexing/service.py:218`), both read without a lock; a comment is indexed again only
when it changes itself, so its chunk may quote an older article. No property is about these words. The
partial unique index `uq_chunks_active_source_index` (`db/models.py:224`) is not modelled;
`SingleActiveVersion` shows it would never be hit. Comments also write outbox rows, which nothing
reads. One embedding revision, already active.

### JobQueue

*State.* `job` (rows of `crawl_jobs`; time is what is left of the lease and of the delay),
`worker` (program counter, `accepting_leases`, the leases in hand), `asking` (a caller between
the conflicting insert and the lookup).

*Actions.* `Enqueue` and `LookUp` are `enqueue_job`; `LeaseJobs`, `Acknowledge`, `Fail` are the
transactions of `lease_jobs`, `acknowledge_job` and `fail_job`, each followed by what the
worker's `tick` does with the outcome, the lost reply of a commit included; `TakeJob`, `Handle`,
`EndTick` are the tick between them; `Shutdown` and `Stop` the graceful stop; `Crash` and `Start`
the end and the start of a process. `Start` runs `reclaim_expired_leases`: the docstring of
`ops/reconcile.py` and `docs/operations.md` say that it belongs to the start, although in the
repository only tests call `reconcile_startup`.

Every transaction of this component locks rows it then changes at once, so two of them are
always in some order and each is one action. What `SKIP LOCKED` adds, that a lease or a reclaim may
miss rows another one has locked, is in `Selected` and `Reclaimable`.

### AgentRun

*State.* `run` (the row with its recorded tool calls), `expired`, `answered` (rows of `answers`),
`replies` and `delivered` (what Discord saw), `bot` (the process that handles a message: stage,
the calls its model has seen, the chosen call).

*Actions.* `Deliver` is the arrival of a message with the check for an existing answer; `Create`,
`Resume` and `StandaloneAnswer` open the run; `SavePlan`, `CallTool`, `RecordToolCall`,
`InvalidDecision`, `Decide` and `ModelFails` are planning and the tool loop; `Finish`, `Fail`,
`FinishFailed` and `Reply` the end; `Break` a crash or an exception nobody catches.

*Left out.* The contents of plans, tool results and answers, `checkpoint_json` (written, never
read), provenance, the state `cancelled` (never set). A user learns the id of a run from a
reply only, which is the guard of `Deliver`.

*One bot process.* The runs use one, and the properties and theorems say so: the service runs a
single Discord process whose `Semaphore(1)` admits one generation at a time
(`discord/runtime.py:64,114`), and `docs/nexon-open-api-agent.md:127` lists a lease for concurrent
resumption as not implemented.

### DiscordFront

*State.* Two lines of tasks per process (`queueLine` at `_queue_lock`, `genLine` at
`_generation`), the counter `waiting`, `task` (where each call of `on_message` is, and how many
parts it has sent), `answer` (the delivery whose answer is stored for a message), `posted`,
`views` (the messages whose source button a process answers), `unheard` (deliveries a part of which
was posted without the process hearing so).

*Actions.* One per stretch of `on_message` between two awaits: `OnMessage` runs up to the first
one, since a free `asyncio.Lock` is taken without giving way; `Enter`, `Refuse`, `Typing`,
`BeginAnswer`, `StoreAnswer`, `FailAnswer`, `Reply`, `Leave`. Every request may fail and then takes the way of the
`finally`. `BeginAnswer` takes the advisory lock on the message and looks for its answer.
`FailAnswer` includes the commit whose reply is lost, `Reply` the part that Discord posts and
whose reply is lost: `message.reply` then raises, and if it was the last part, its button has no view until a
start (`discord/runtime.py:143`), the exception `ButtonServed` makes. `Crash` ends a process and starts it again
with the views of all stored answers.

*Left out.* Routing and rate limits (`ChatFront`), the agent's path (`AgentRun`), the expiry of
answers after seven days, and that a button may be pressed by the requester only.

### BoardSync

*State.* `listing` (ids, newest first; a page is a stretch of it), `stored`, `checkpoint`, `lock`
(the crawl lock file), one `crawl` command per script, the scripts' own counters, and two history
variables: `moved` (the site deleted an article) and `gap` (a pass over the latest pages left
articles out, or may have: it was given up, a command of it failed after its last commit, or `Flooded`, when
a page's worth of articles was posted between two of its pages, which `asOf`, the newest article at a
fetch, tells).

*Actions.* `Resume`, `Fetch` and `CommitPage` are `_crawl_live` with `ingest_live_board_page`:
the checkpoint is read before the first page, what is stored when a page is fetched, and the page is
committed with the checkpoint. `FailCrawl` ends a command anywhere, after its last commit too.
`StartDaily` … `RetryDaily` are `daily_incremental_sync.sh`, whose lock is held to the end;
`PlanBackfill` (`plan_round_robin_backfill`, without the lock), `StartSlice` and `EndSlice` are
`run_full_backfill.sh`; `SyncLive` is `sync_live.sh`, which takes no lock (`SpecWithLive` adds it,
for the last but one configuration below).

*Left out.* Several boards (they share the lock only), the bound on articles per page, which
articles a page really stores (`SourceCorpus`), indexing at the end of a script.

### PatchNotes

*State.* The notes on the `site`, their `row`s with locks (`RowLocks`), `chunk` and `vectors`,
`denied`, the configured and the `active` embedding revision, the `sync` transaction with the
rows its session loaded, and index runs.

*Actions.* `BeginSync` lists, and loads rows without a lock; `TouchNote`, `FetchNote`, `SaveNote`
handle a note (an assignment of the value that was loaded is not written, as the ORM does);
`ExpireChunks` and `CommitSync` remove what left the window; `DeniedSync` and `AbortSync` roll
back. `BeginIndex` … `EndIndex` are index runs: batches in the order of ids past locked rows, a
rebuild with its cursor when the configured revision is not the active one, activation at the end.
Index runs of the scripts take turns by a lock (`scripts/index_with_gpu_handoff.sh:33`), which is the
guard of `BeginIndex`; the weekly script runs its sync before its index run.

*Left out.* Pages of the list, and the races of a denial and of `maple-chat index` started by
hand, which takes no lock, with another index run (`SourceCorpus` lets two of them overlap). The
history variable `overtaken` marks notes on which a sync and an index run, or a lock and a
rebuild, met; `patch_changes_indexed` shows why `SearchFollowsRows` needs it. Of such meetings
`SearchFollowsRows` and `EditsReachSearch` therefore say nothing, but only of them.

### CrawlRequests

*State.* The process (`circuit`, the `call` in hand with its redirects, whether the site has
reported `more` comments than were fetched, how long ago the last request was), the `script` with
its attempts, `approved`, the time left to `sleep`; history: what the site answered (`seen`), when
the approval was `revoked`, how long the site asked this process to stay away (`owed`; a new process
does not know of it).

*Actions.* `BeginCall` is the next request of a page: the listing and its articles, the comments of
an article page by page, images. Listing, articles and images are bounded by the page's contents,
further comments by nothing: `while offset < total` of `_load_comments` takes the total from each
answer, so a site that reports ever more comments keeps one command going for ever. `Check`, `Send`,
`Answer` (content, redirect, refusal, error) and `EndBackoff` are a hop of `_request`; `Succeed`,
`Fail` and `Retry` the process's end and `run_with_retry`; `Approve` the owner's approval file;
`Tick` a second.

### The pure steps

`Retrieval` fuses two listings by reciprocal rank, caps families, reranks, calibrates by titles and
trims; the boosts of a candidate are one number. `Answering` decides what question, evidence and
facts give: a mode's plan, scoped facts, generation, the check of explanations, one repair,
cleaning, and the sources shown afterwards; a text is the set of explanations it gives. An
explanation has a form, by which the code sees it or not: of a registered term what stands in
brackets, up to 60 characters, or after an equals sign is held against the name; of any other term
only a guess of up to 40 letters in brackets behind at most six. So an equation of an
unregistered term, a longer bracket behind one, and a bracket of more than 60 characters behind any
term go out unchecked, and `AnswersAreGrounded` speaks of what
is checkable. `ModelServices` takes the reranker's `/info` request, made once in a process before
its first scores (`retrieval/hybrid.py:161`), for one more way to fail: where it fails, the answers
are those to it. `KnowledgeGraph` writes catalogs over the rows of an earlier release, selects the
entities a question names and walks the relations around them, two hops at most and until
`MaxRelations` are selected, in the order of their ids (`_MAX_GLOBAL_RELATIONS` is 128;
`docs/knowledge-graph.md:212` counts 292 relations). What is selected is filtered afterwards, so
that active relations of a retired source or of an entity no longer listed take places of the cap.
`Chunking` cuts words that are runs of characters. `ChatFront` reads options, counts sliding windows
and splits replies; whitespace trimming is modelled character by character because a property is
about it. `Algorithms` calls them: each action picks one input of a small set and keeps input and
outcome in `call`, so that an invariant compares the two.

## 3. Runs

Passing:

| Run | Question | Bounds |
|---|---|---|
| `corpus_races` | What does search offer while two crawlers, two index runs and the owner overlap on an article and a comment? Does a start repair it? | 2 texts, 2 crawls, 2 owner transactions, batches of 1 |
| `corpus_batches` | Does a batch of two sources, with texts that come back, leave an INDEXED row without its chunk? | 2 images, 3 crawls, batches of 2, no owner |
| `job_queue` | Do leases, attempts and keys stay consistent, is the ledger implemented, does every job end? | 2 workers, 2 jobs, 2 keys (one without a handler), 2 attempts, batches of 2, lease of 1 tick |
| `agent_run` | Budget, repetition, replies, finality, and the end of the loops | 1 bot, 3 resuming messages (one from a stranger), 2 tool calls, budget 2, 2 deliveries of each |
| `discord_front` | Is the waiting counter exact, is only the stored answer posted and its button served unless its sending went unheard, does every call end? | 2 processes, one that takes 1 question at a time and one that takes 2, 2 messages, 3 deliveries, replies of 2 parts any of whose posts may go unheard, 1 crash |
| `board_sync` | Do two scripts lose an article, turn the checkpoint back, or never finish? | 4 articles and 3 new ones, one deletion, pages of 2, 2 latest pages, target 3, slices of 2, 2 attempts, 2 failures |
| `patch_notes` | Does search follow the rows, and the rows the site? | 2 notes, 1 edit, 2 revisions, 1 index run at a time, batches of 1, 1 failure, 1 denial |
| `crawl_requests` | Are approval, refusals and stop conditions respected by a process, and do commands end unless the site reports comments for ever? | threshold 2, 4 hops, `Retry-After` of 0, 1 and 5 with a cap of 4, 4 calls besides any number of further pages of comments, 3 attempts, 2 commands |
| `algorithms` | Do the pure steps give what their callers count on? | listings of up to 3 of 4 candidates, all scores 0..2; all placements of 4 relations and one of a retired catalog in 2 catalogs before and after, two orders of their ids, a search of 3 relations at most; chunks of up to 4 words; 4 messages; all texts of 8 characters |

The bounds are the smallest at which the cases meet. Two texts and three crawls give an edit and an
edit back, of an image in `corpus_batches` (an article's fails, see below). Two crawls and two owner
transactions give an exclusion on either side of a change, and a denial followed by a repair. Two
index runs wait for each other's locks; a batch of two fails after its first row. Two jobs in a
batch let the second lease expire while the first is handled; two attempts give a retry and a last
attempt. In `job_queue` the base of the delay is above its cap, so that the cap applies at the first
retry. Three resuming messages, two of them the owner's, give a failure, a resumption that fails
too, and a success. Three deliveries fill either queue - with room for one, the third waits for the
queue lock while the second is refused - and can be a message, its redelivery and its delivery to
the other process. Seven articles on pages of two and a target of page 3 let new ones push others
over two page edges and make the last slice shorter than the others. Two notes with batches of one
put a rebuild's cursor between a locked row and a free one. A second refusal opens the circuit, so
two refusals in a row, one with a redirect or an image between, and a third attempt are within
reach. Five relations and a search of three let a search be full after the first hop, in the middle
of the second, or never. Texts of eight characters with parts of four make every kind of boundary,
and leave a rest.

`CHECK_DEADLOCK FALSE` is set where everything may be done: the corpus after its bounded crawls
and denials, the agent run after its bounded messages, the Discord client after its deliveries, a
board past its target, patch notes after edits and failures, a script after its commands.
`algorithms` returns to the start after each input and is checked for deadlock.

Violations, each a disagreement between a document, docstring or test and the code; the
counterexample is what TLC prints, the `findings` of `PROJECT.json` quote the claim:

| Run | What happens |
|---|---|
| `corpus_denied_not_published` | the denylist is read before the article is locked; a denial in between is ignored (until a start repairs it) |
| `board_boundary` | a page committed by a command that then fails is taken for the known-ID boundary, with a hole behind it |
| `patch_changes_indexed` | a note indexed between the sync's read and its write keeps `INDEXED` with the new text |

Further disagreements are stated in the modules, each with a configuration of its own, and are
found by hand with `tlc -config <configuration> <module>`:

| Configuration, module | Claim | What happens |
|---|---|---|
| `CorpusExclusionReachesEveryChunk.cfg`, `MCSourceCorpus` | `docs/g002-verification.md:17` "deactivates source chunks and vectors in the same transaction" | an index run publishes a comment's chunk after the exclusion matched the article's chunks (until a start) |
| `CorpusDeniedBodyErased.cfg`, `MCSourceCorpus` | `tests/integration/test_database.py:315` | a denial that loaded an empty body does not erase the one committed meanwhile (until a start) |
| `CorpusDeletedCommentHidden.cfg`, `MCSourceCorpus` | `docs/g007-verification.md:6` "Delete/denylist propagation deactivates chunks/vectors" | a comment the site deleted keeps its active chunk |
| `CorpusIndexedHasVector.cfg`, `MCSourceCorpus` | `docs/current-system-overview.md:436` | a text indexed a second time keeps its vector switched off |
| `CorpusArticleWriteNeverFails.cfg`, `MCSourceCorpus` | `docs/g002-verification.md:13` "Article/outbox and active-job writes are idempotent" | an article edited back to an earlier text fails its page on the outbox key |
| `JobQueueExpiredReclaimed.cfg`, `JobQueue` | `docs/g002-verification.md:14` "Workers […] reclaim expired leases" | workers never reclaim; without a start an expired lease stays |
| `BoardSyncBackfillNeverRewinds.cfg`, `BoardSync` | `BackfillNeverRewinds`, which holds for the locked scripts | `sync_live.sh`, run at each start of the bot without lock or `--preserve-backfill-checkpoint`, sets the checkpoint back to page 2 |
| `CrawlRequestsStopConditionsStop.cfg`, `CrawlRequests` | `docs/compliance-gate.md:36` "Stop the affected board immediately" | `run_with_retry` repeats a crawl that met a captcha, drift or repeated refusals |

`BoardSyncFlood.cfg` checks `NothingLost` with up to five new articles, so that a page's worth of them
appears between two pages of one pass. It passes because `gap` counts such a pass; without `Flooded`
in `NextLatest` and `Boundary` it is violated: the next page holds known articles only, the script takes it for
the known-ID boundary, and what lies between is never looked at.

## 4. Fairness

`SourceCorpus` states safety only. `JobQueue` assumes that handlers return, stopping processes
stop, stopped ones are started again and time passes (weak fairness), and that a worker which may
lease again and again does so in spite of the other workers and of its own restarts (strong
fairness: another worker may take the jobs first, and every restart interrupts the waiting).
`EveryJobEnds` also assumes that each process is stopped again and again (`RestartingSpec`),
because only a start reclaims; `job_queue_expired_reclaimed` shows that it is needed.
`AgentRun` assumes that the handler's own steps go on: model, tool and database calls have
timeouts. Nothing is assumed about messages or about what the model chooses.
`DiscordFront` assumes that a ready task of the event loop is run and that requests to Discord,
the model and the database end (they have timeouts); nothing is assumed about deliveries or crashes.
`BoardSync` assumes that commands end, that the scripts go on from a command that ended, and that the daily
script gets the crawl lock again and again (strong fairness: `flock` queues, the backfill holds
it for a slice at a time, and the loop starts the script every day); failures are bounded, new
articles too. `PatchNotes` assumes that the weekly loop's sync and index runs make progress;
`EditsReachSearch` excepts notes out of the window, times when a denied note is listed, and notes
overtaken. `CrawlRequests` assumes that the program goes on, requests time out and sleeps pass; of the
site it assumes nothing, and `ScriptEnds` names the one thing by which the site keeps a command from
ending.
`Algorithms` states no liveness.

## 5. Proofs

Each theorem holds for every value of the constants its module's assumption allows. Each proof
module states the inductive invariant first, with a comment on every conjunct, then a lemma for
each action, then the theorems. TLC checked every inductive invariant on small instances before it was proved.

`JobQueueProofs`, from `QueueAssumption`, for any workers, callers, keys, numbers of jobs and
attempts: `QueueTypeOK`, `LeaseIdentity`, `OwnershipIsCurrent`, `QueuedJobsCanRun`,
`OneActiveJobPerKey` and `QueueImplementsLedger`. `OwnerHasLatestLease` is not inductive alone:
when a job is leased again, a lease that some other worker believes in must have an older
attempt number. `IInv` adds that no believed lease is ahead of its row and that a worker outside
a tick believes in none (`LeaseInv`), and that a row never inserted has no attempts
(`AbsentUntouched`). The proof first reduces every transaction to one of six ways of changing a
row (`OtherRows`, `LeaseRowsStep`), and every worker step to keeping or forgetting leases
(`OtherWorkers`) or receiving new ones (`LeaseWorkers`); the conjuncts follow from these. The
refinement maps the six ways to the moves of `JobLedger`.

`AgentRunProofs`, from `AgentAssumption` and `OneBot`, for any messages, tool calls, budget and
number of deliveries: `AgentTypeOK`, `BudgetHolds`, `NoRecordedRepeat`, `OneReply` and
`SucceededStays`. The strengthening says that the bot's memory agrees with the rows
(`MemoryAgrees`: the budget is compared with what the model has seen, not with what is
recorded), that a message being worked on has no answer yet (`AnsweredBeforeReply`), and that
nobody executes a run that succeeded (`ExecutedIsOpen`: `Create` does not look at the run's
state, but the message that created it is answered by then).

`DiscordFrontProofs`, from `FrontAssumption`, for any processes, messages, deliveries, crashes and
limits of waiting questions: `TypeCorrect`, `WaitingIsExact`, `PostedAnswerIsStored`,
`ButtonAlwaysServed`, and two results no run states, `AnswersAreExclusive` (one delivery works on a
message at a time, over all processes) and `StoredAnswersStay`. The invariant ties the two lines to
the stages of the tasks: who is in a line is there once and at the stage that waits in it (`Lined`),
who generates is first in its line (`OneGenerates`), and who replies is the delivery whose answer is
stored (`RepliesAreStored`). That a button has its view holds but for posts nobody heard of.
`WaitingCountsTasks` then follows by counting: each step adds or removes one member of `Placed`. The
lemmas on lines (`AppendInLine`, `TailOfLine`) serve both locks.

`CrawlRequestsProofs`, from `CrawlAssumption`, for any delays, thresholds, hops and retries:
`TypeCorrect`, `ApprovalPrecedesRequests` and `RefusalsAreHonoured`. A closed circuit has counted
exactly the refusals of this process (`CircuitCounts`), a request in its pause was checked, and
what is left of the pause bounds the age of a revocation (`PauseCoversRevocation`), and a process sleeps at least as
long as the site still asks of it (`SleepCoversOwed`).

`BoardSyncProofs`, from `SyncAssumption`, for any page sizes, bounds and numbers of articles:
`TypeCorrect`, `NothingIsLost` and `CheckpointNeverRewinds`. The lock gives each command its owner
(`LockInv`, `CommandInv`); a page that was fetched is a stretch of the listing counted from the
newest article of that moment (`FetchInv`), so that what a page pushes out comes
again on the next one; and during a pass over the latest pages the articles are whole below its seam
and above it (`PassInv`, `Seamed`), a seam that moves down a page at a time and closes at a page with
nothing new. The last is false when a page's worth of articles is posted in between: see `Flooded`.

`PatchNotesProofs`, from `NotesAssumption`, for any notes, edits, revisions and batch sizes:
`TypeCorrect`, `SearchIsFaithful` and `RevisionOnlyAdvances`. The proof follows what each process
has read and not yet written: what the sync loaded is what the rows still hold but for a denial
(`SessionInv`), so that writing `SANITIZED` over it is either seen by the ORM or changes nothing; the
chunks an expiry saw are those there are or none; a rebuild has brought every indexed note up to its
cursor to its revision (`RebuildInv`), so that activating the revision loses no vector; and the
active revision is not ahead of the run's, nor that of the configured one (`RunInv`). `FirstRows`,
by cardinality, says that a batch leaves no ready note below its last.
Notes in `overtaken` are excepted throughout.

`SourceCorpusProofs`, from `CorpusAssumption`, for any comments, images, texts, crawlers, index
runs and owner's commands at once and any size of a batch: `TypeCorrect`, `OneVersionActive`,
`IndexedIsFound`, `ExcludedStaysHidden` and `StartRepairs`. What search offers changes at a commit
only, so the invariant says what each kind of transaction has prepared by then. An index run keeps
its sources locked and has, for each one done, every chunk but that of its text absent or switched
off by itself (`Replaced`) and that of its text on (`Written`). A crawl never turns an INDEXED row
into another INDEXED text (`CrawlInv`), and excludes with a chunk the comment or image it belongs
to (`SweepInv`). An exclusion holds each of the article's chunks before it hides the article
(`HideInv`): it matches chunks after it has locked the row, and only an index run that held the
row could have inserted one since. A source to be indexed has a text, but for an article denied in
the meantime (`HasText`). A starting process runs alone (`AloneInv`), which makes its sweep
complete (`RepairInv`). The proof keeps the transactions apart: a step leaves rows locked by
others as they are and inserts chunks under the lock of their source only (`Apart`), and this
carries the invariant of every other transaction over once and for all (`LocalApart`); a step that
is not a commit or a rollback publishes nothing (`Quiet`), so that for each action only its own
transaction is left to show, and the commit is argued by the kind of transaction. The theorems are
what holds in spite of every race; the six statements of the documents that the code does not
ensure are the `Corpus…` violations of section 3.

`AlgorithmsProofs`, from `RetrievalAssumption` and `SearchAssumption`, proves the six invariants of
`Algorithms`, and of the pure steps themselves what they promise for every input, not just for those
a run tries. `AdmissionsJudgeFairly`: any messages in the order of their times, any limits and
window. `SplitRepliesArriveWhole`: any text and limit. `EvidenceStands`: any two listings and
candidates, and scores listed in any order. `AnswersStand`: whatever was found and whatever the
model says, of the explanations that are checkable. `SourcesStayOpen`: any withdrawals.
`BodiesKeepText`: any words and paragraphs, limit and overlap, and a target within the limit, as the
configuration has it. `VectorsInPlace`: any window of the embedder, each answered in any order.
`ReleasesTakeOver`: any rows and catalogs, each of another source. `SearchFindsTheNear`: any
relations, any order of their ids and any cap, in two hops: nothing further than two steps is found,
something nearer is missing only if the cap is reached, and what touches a starting point comes
first. `MatchesAreLongest`: the entities of `Algorithms` at any places of a question. The invariants
follow, because each action of `Algorithms` is one call of these operators.

Nearly every one of these operators is a fold over a sequence or a set. The module begins with
induction over data, with a set in place of the predicate that the library's induction theorems take: the
subsets of a finite set are well-founded, so a set with every subset whose smaller subsets it has, has
them all (`SetInduction`, `CountInduction`). From this a fold has a run: a function `p` with `p[0]` the
base and `p[k]` the step of `p[k - 1]`. The lemmas named `...Fold` say so of each fold. What
is then proved of a fold is a relation between its input and its state that the base has and every
step keeps, just as an inductive invariant of a specification: of the limiter, that its events are the
times of the messages that counted and are still within the window (`Tracks`), in spite of the author's window
counting messages the channel refused; of the splitter, that what is placed and what is left are the
text but for blanks; of the chunker, that the current chunk ends where the last section ended and what it
repeats is no more than the overlap; of the releases, that each key is where the last catalog that
listed it put it. The graph search of two hops needs no induction but counting: the foremost of a set are all
of it or as many as there is room for (`ForemostSome`, `ForemostAll`).

What the attempts showed about the models. `owed` of `CrawlRequests` outlived its process,
although a new process knows nothing of it. `NothingLost` was false beyond the bounds of its run:
a page's worth of new articles between two pages makes a false boundary (`Flooded`), which the
code does not guard against. An earlier bound on page numbers of `BoardSync` was right for the
run's constants only, and a batch must not exceed the target page. In `PatchNotes` an index run
that overlaps another could activate the older of two revisions; the scripts exclude it by their
lock, which the model now has. In `SourceCorpus` an index run wrote a chunk for the empty text of
an article denied meanwhile, a case beyond the bounds of the runs; the chunker makes no chunk of
an empty text. In `ChatFront` two arms of the `CASE` that reads an option overlapped, which leaves open
which one counts; TLC takes the first, a proof cannot, and the arms are disjoint now. `KnowledgeGraph`
left the order of two entities with the same words open, where the code sorts them by id
(`GoesFirst`). Withdrawn sources, chunks and relations were one set of names, which is right only
as long as no two of them share one. And the modules sort and filter by folds and by `InOrder`, since
the library's `SetToSortSeq` and `SelectSeq` are defined by recursion the provers cannot follow.

Every invariant the passing runs check has a theorem. Model-checked only: the liveness properties
`EveryJobEnds`, `HandlerReturns`, `EveryCallEnds`, `BackfillEnds`, `EditsReachSearch` and `ScriptEnds`,
since liveness under fairness is out of the prover's reach. No module has a `RECURSIVE` operator; what
repeats is written with folds.

## 6. Plan

Modelled and proved: the corpus, the queue, the agent, the Discord client, board synchronisation, patch
notes and embedding revisions, crawl requests, and the pure steps. Next, in this order:

1. What the transactions of `SourceCorpus` leave in the vectors: the code does not keep their `active`
   column in step with the chunk's (section 3), so a theorem needs an exception first.
2. Answers that expire after seven days beside restarts, redeliveries and the buttons of `DiscordFront`,
   and who may press a button.

Not modelled, and why: configuration, health reports, logging and metrics (no protocol of their
own); parsing and sanitising of web pages, OCR, prompts and the wording of answers (text; their
results are choices in the models); evaluation and patch reactions (reports computed by hand from
stored data); migrations, backup, restore and recovery scripts, the GPU handoff (input and
output, run by an operator with the services stopped); the planners of `scheduler/planner.py`
that nothing calls; the argument schemas of agent tools. Two bots resuming one agent run at once is
outside what the service supports, see `AgentRun`.
