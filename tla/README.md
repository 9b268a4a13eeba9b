# CrawlTrove: a TLA+ development

CrawlTrove is a self-hosted crawler. Its core is a durable queue in PostgreSQL:
API clients submit crawl jobs, workers lease one page at a time, fetch it and
store the result together with the pages it discovered, people may be asked to
help with a page in a live browser session, and a maintenance loop ends what
nobody else ends. Around it stand remote workers, proxies and paid providers that
get the pages, and an API process with research runs, schedules, search and a
corpus pipeline. This directory models these parts, checks them with TLC and
proves the safety properties of the queue, of the provider budgets and routes, of
the remote workers, proxies and the operator's tunnel, of page acquisition, and of
the API process with its research runs, its search and its corpus pipeline with TLAPS
for every size of the system.

## 1. Inventory

### The durable queue (modelled)

| part | source | state | operations |
|---|---|---|---|
| repository | `app/crawl/repository.py`, migration 0004 | `crawl_jobs`, `crawl_tasks`, `crawl_origins`, `crawl_origin_leases`, `crawl_results` | submit, claim, heartbeat, reserve browser page, complete, retry, fail, block, cancel, finalize, reap, resume |
| worker | `app/crawl/worker.py` | the claim `run_once` works on | the calls above that carry a lease token |
| service | `app/crawl/service.py` | the worker and the maintenance task | worker loop; every 10 s reap, expire sessions, finalize |
| sessions | `app/acquisition/sessions.py`, migration 0007 | `live_sessions` | park, touch, resume, close, cancel, expire |
| session runner | `app/acquisition/owned_session.py` | retained browser contexts | wait, resume, complete, close |

The parts interact through the tables only. A worker owns a task by knowing its
`lease_token`; `_fenced_task` compares it in every call. A lease also holds the
single permit of the page's origin and a reservation of bytes against the job's
two budgets. Parking a task for human input gives the lease back and hands the
page to a runner in the same process, which leases it again when the person is
done. Cancellation and the deadline are columns of the job that every later call
looks at.

What is hard: workers stall past their lease and come back; calls are repeated
after a lost answer; reaper, worker, canceller, finalizer, session closer and
session expiry may all end the same task; every one of them has to give back
permit and reservation and to count the task exactly once; the job has to end
whoever was last, even when every worker is dead.

What makes it correct: one writer per task, one request per origin, budgets and
page, attempt and failure limits respected, counters equal to the rows, results
exactly for successes, terminal states final, truthful job outcomes, finished
jobs drained, and progress without workers.

### Acquisition and provider budgets (modelled)

| part | source | state | operations |
|---|---|---|---|
| provider ledger | `app/crawl/repository.py`, migration 0008 | `crawl_provider_usage`, `acquisition_attempts` | reserve, finish, reconcile abandoned attempts |
| router | `app/acquisition/router.py` | the locals of one `acquire` | choose routes, reserve a navigation, reserve a call, call, finish, fall back, report |
| registry | `app/acquisition/registry.py` | health of each provider, per process | route available, unhealthy |
| adapters | `app/acquisition/local.py`, `brightdata.py`, `firecrawl.py`, `browserbase.py` | none that matters here | the call: an answer and what it costs |

A call of a provider is paid for in two transactions around it. Between them the
worker may die, lose its lease, be cancelled or be told a wrong price, and a
cancellation of any job, a rejection or the reaper may settle the call first.

What makes it correct: no budget is overspent by workers that compete for it,
`reserved_value` is the price of the calls in progress, each call is charged once
and not below what the provider billed, the attempt caps hold over all leases of a
page, free routes come before paid ones, and every reservation is settled.

### The API process and the corpus scripts (modelled)

| part | source | state | operations | what is hard |
|---|---|---|---|---|
| research | `app/research.py` | jobs, checkpoints, the deadline | run, cancel, resume, report | the process dies at any await; cancel races synthesis; the deadline is wall clock |
| legacy crawler | `app/crawler.py` | queue, its mirror, visited set, checkpoint | seed, fetch, enqueue, checkpoint, resume | what a worker holds when the process dies; `queue.join` |
| schedules, runs, batches, webhooks | `app/scheduler.py`, `runner.py`, `batch.py`, `db/repo.py`, `webhooks.py` | `scrape_jobs`, `scrape_runs`, pages | claim due definitions, launch, execute, finish, send | each database call may fail and is swallowed |
| change and duplicate signals | `app/changes.py`, `dedup.py` | two indexes in memory and in files | look up, register, save | an await between look-up and registration; two files written one after the other |
| vector index, retrieval | `app/vecindex.py`, `retrieval.py`, `embeddings.py` | three tables | index, replace, rebuild, search, fuse, collapse | competing writers, widening windows, caps |
| chunkers, URL discovery | `vecindex.py`, `corpus/chunking.py`, `normalize.py`, `crawl/discovery.py`, `sitemap.py` | the locals of the loops | cut, normalise, scan a page, walk sitemaps, map a site | boundaries, order of rewriting, caps, cycles |
| corpus | `scripts/scrape_swift64_loop.py`, `build_corpus.py`, `generate_sft.py`, `rebuild_corpus.py`, `corpus/workflow.py` | JSONL files, ledger, loop state, trees | drain, build, generate, rebuild | a death between any two writes; semaphores in two levels |
| data directory | `app/storage.py`, `llmstxt.py` | artifact pairs, checkpoints, status files | save, checkpoint, generate, prune | pairs of files, a sweep beside the writers |
| process life | `app/main.py`, `db/migrate.py`, `db/pool.py`, `crawl/service.py` | schema, pool, tasks | migrate, connect, serve, stop | two processes migrate at once; callers race for the pool |

Correct means: what was paid for or read is not paid for or read again after a
restart, a cancellation decides the status, nothing is reported twice or reported
otherwise than stored, one definition runs once at a time, indexes and ledgers claim
no more than what is there, a search returns what its definition says, and every
run ends.

### Fleet, tunnel, proxies, transactions, tokens (modelled)

| part | source | state | operations | what is hard |
|---|---|---|---|---|
| remote workers | `worker_main.py`, `crawl/remote_repository.py`, migrations 0005 to 0011 | identities, leases, uploads | register, claim, heartbeat, upload, complete, fail, drain, revoke | late and repeated calls, SIGTERM in the middle of a tick |
| control tunnel | `acquisition/owned_session.py` | bridges, sockets, pending requests, the context | connect, act, answer, screenshot, close | sockets that are replaced, answers that come late |
| proxy pool | `acquisition/proxy.py`, migration 0009, `enroll_egress.py` | nodes and their leases | select, attest, fail, release, revoke | reports of a run whose task another run has |
| repository transactions | `crawl/repository.py` | rows and their locks | the same operations as `CrawlQueue`, `retry_failures` and idempotent `submit_job`, statement by statement | lock order, snapshots, a deadline that passes inside |
| session tokens | `acquisition/sessions.py`, `routes_acquisition_sessions.py` | `live_session_tokens`, screenshot links | issue, consume, open, look | the check and the use are two requests apart |

### Getting one page (modelled)

| part | source | state | operations | what is hard |
|---|---|---|---|---|
| browser runtime | `app/scraper.py` | driver, Chromium, permits | start, open, close, recycle | nothing serialises `start` and `close` |
| fetch and scrape | `app/fetch.py`, `url_safety.py`, `scraper.py` | one HTTP session, its pins and lock | fetch, follow, escalate, guard sub-requests | DNS that changes, a body that grows past the allowance |
| managed providers | `acquisition/brightdata.py`, `firecrawl.py`, `browserbase.py` | the call, the remote session | acquire, cleanup, live session | lost answers, failing cleanups, two closes |
| captcha | `acquisition/captcha.py`, `captcha_service.py` | the page under the solver | classify, recheck, capture, answer, submit, check | the page navigates between any two steps |
| egress tunnel | `app/egress_agent.py`, `acquisition/proxy.py` | one connection | parse, resolve, dial, attest, pump | two pumps on one budget |
| profiles | `acquisition/profiles.py` | sealed rows | create, load with rotation, delete | processes with older key rings |
| artifacts | `app/artifacts` | temporary and visible objects | put, verify | a death between write, check and rename |

### Not modelled

Left out, and why: `reconcile_job` (an operator's command that recomputes the
counters `CountersReconcile` shows to be right), the robots cache and its fetch (an
input of a worker here; nothing is decided from the cache that is not decided from
an answer), read-only routes, queries, metrics and admin listings (they change no
state), documents, page actions and extraction, the MCP server and the user
interfaces (formatting around calls that are modelled), the numbers of embeddings
and MinHash signatures (relations and small distances stand for them), XML, HTML
and JSON parsing, the vendors' payloads, evaluation and collector scripts, the session and
provider functions of migrations 0010 and 0011, which repeat the local ones behind
the fence modelled in `RemoteFleet`. `PROJECT.json` gives the status of every
component; most are `partly` because of these edges.

Three hazards of the queue have no property, because no document promises anything
about them: an exception in one round of `_run_maintenance` skips the rest of that
round, `claim_task` looks at the oldest eligible row only, and a circuit may be half
open with no probe in flight. The models have all three behaviours except the first
(a round that fails is a round that has not come yet).

## 2. Modules

| module | models |
|---|---|
| `FencedQueue` | the abstract queue: a page is held under one fresh grant, only its holder settles it, what is settled stays |
| `CrawlTables` | the tables, the clock, process memory; the private helpers every transaction is built from (`_fenced_task`, `_release_lease`, `_terminalize`, `_drain_unleased`, `_enforce_failure_limit`, `_actual_bytes`) |
| `CrawlQueue` | the repository's transactions, one action each |
| `LiveSessions` | sessions, their runner and `resume_live_session` |
| `CrawlSystem` | the composition: clients, workers, runners, people, maintenance, clock; the properties; implements `FencedQueue` |
| `JobTransactions` | the same transactions statement by statement with their row locks, `retry_failures` and idempotent submission |
| `ProviderLedger` | usage rows and attempts of one job, the ledger's transactions, and as much of a lease as they read |
| `AcquisitionRouter` | workers inside `acquire`, the registry, the browser budget; the composition with the ledger and the properties |
| `RemoteFleet` | remote workers, their identities and the `worker_api` functions; implements `FencedQueue` |
| `ControlTunnel`, `ProxyPool`, `SessionAccess` | the operator's tunnel, the leased proxies, tokens and links of a live session |
| `EdgeFleet` | the composition of `RemoteFleet`, `ControlTunnel`, `ProxyPool`, `JobTransactions`, `SessionAccess` |
| `BrowserRuntime`, `PageFetch`, `ManagedProviders`, `CaptchaSolving`, `EgressTunnel`, `SessionProfiles`, `ArtifactStore` | what one page acquisition is built from |
| `PageAcquisition` | their composition |
| `ResearchRuns`, `LegacyCrawl`, `ScrapeRuns`, `PageSignals` | runs of the API process and the signals every scrape computes |
| `SemanticSearch` | the vector index with its search, and hybrid retrieval over it |
| `Chunking`, `SiteDiscovery` | what is indexed, and which URLs a site has |
| `CorpusPipeline`, `DataDirectory`, `ProcessLife` | the corpus scripts, the data directory and the trees a rebuild replaces, startup and shutdown |
| `ApiProcess` | the composition of these ten |
| `MC...` | small instances for TLC |
| `CrawlSystemProofs`, `LeaseProofs`, `QueueProofs` | theorems about `CrawlSystem`, each module on top of the one before |
| `LedgerProofs` | theorems about `AcquisitionRouter`: the ledger, then the routes |
| `EdgeProofs` | theorems about `EdgeFleet` |
| `PageProofs` | theorems about `PageAcquisition` |
| `ApiProofs` | theorems about `ApiProcess`, and lemmas about loops and finite sets |
| `SearchProofs` | theorems about the parts of `ApiProcess` that are `SemanticSearch`, `Chunking` and `SiteDiscovery`, on top of `ApiProofs` |

`ApiProcess`, `EdgeFleet` and `PageAcquisition` put parts side by side that share no
variable in these models: a behaviour is a behaviour of one part, chosen at the
start, while the others stand at their initial state. Interleaving them would
multiply the states and add no behaviour that a property of one part could see. The
interactions that matter are inside a part (a worker and its lease, a run and
its file, two pumps and their budget) or are inputs (a failed database call, an
answer of a vendor, a death).

How the state of `CrawlSystem` corresponds to the code:

- A function of the repository is one transaction that locks the rows it reads,
  so it is one atomic action. A transaction that PostgreSQL aborts is one that did
  not happen.
- A job is an identity from `Jobs`, a task is the pair of its job and its
  normalised URL (`crawl_tasks_job_url_unique`). A row that does not exist has the
  state `"absent"`; NULL timestamps and tokens are 0.
- `count` holds the cached counters of `crawl_jobs`; `used` and `reserved` the four
  byte columns, indexed by the meter; `held` the reservation of a task.
- `uuid4()` is the next number of `lastToken`: fresh, never reused.
- `claims` and `runners` are process memory. A record stays in `claims` until
  `EndRun`, which is the return of `run_once` as well as the death of the process.
  Since a claim may stay there after its lease is gone, every call of a stale
  worker and every repeated call is a behaviour of the model.
- `claim_task` may take any eligible row: `FOR UPDATE SKIP LOCKED` can pass over any
  prefix of the order, and the properties do not depend on it. Its five ends
  (deferred, origin busy, budget exhausted, leased, nothing to do) are separate
  actions; the last changes nothing.
- Inputs are nondeterministic: the bytes a worker reports, the links on a page, the
  retry delay, whether robots.txt blocks a page, what the person does.
- `Tick` is PostgreSQL's `now()`, one unit per step, to `MaxTime`.

Abstracted in `CrawlSystem`: URLs, bodies and error codes; `crawl_events`,
`scrape_runs.status`, `acquisition_attempts` and the provider ledger (written by
these transactions, read by none of their guards except the ledger's own, which
is `ProviderLedger`); the robots cache; proxy
leases; the permit's own `expires_at`, which nothing reads.

How the state of `AcquisitionRouter` corresponds to the code:

- `run[w]` is worker `w` between two awaits of `acquire`: the phase, its claim, the
  routes the loop has left, the attempt it reserved, how the call ended (`kind`) and
  what it is charged, the last failure and the verdict for the queue. The recursive
  call with `static_block` is the phase `"claimed"` again, with that capability.
- `attempts` are the provider's rows of `acquisition_attempts` (those with a lease
  token) in the order of insertion; an attempt's id is its position.
- The queue is reduced to the lease: `state`, `token`, `late`
  (`lease_expires_at` has passed, the row may still be renewed), `leases`
  (`attempt_count`) and `inactive` (cancelled or past the deadline, which the ledger
  treats alike). A parked page counts as ended.
- Prices are natural numbers, one per provider: of Browserbase's two meters one must
  be 0. Budgets and prices are constants, so a job's retries with a changed
  configuration are outside.
- `Bills` is what a provider may report. The adapters in the repository report at
  most the price; the ledger also defends itself against more, and the runs give it
  such reports.
- `SKIP LOCKED` is a choice: a reconciliation settles any part of the rows it
  selects. `FinishCall` has its own attempt locked, which its rejection therefore
  settles.
- A cancelled call is finished with the whole reservation, since `acquire` finishes
  in a `finally`; only a cancellation of the finishing transaction, or the end of the
  process (`Restart`), leaves the attempt open.
- `billed` is not in the program: it remembers what the provider has billed so that
  `BillsAreCovered` can be stated.

Abstracted: the page, its normalisation (an exception of `_normalize` is the ending
`"unreadable"`), the proxy lease of `owned_proxy_http`, interactive routes, which
`acquire` never selects.

How the other modules correspond to the code:

- One action is the code between two awaits of a coroutine, one transaction, or one
  system call on a file, whichever is finer at that place. A death is an action that
  loses memory and keeps rows and files; a file written in place may be torn by it,
  one that is replaced may not.
- `ResearchRuns`: `frame[r]` is where `run_research` stands, `research[r]` the job
  object, `ckpt` the file. The model's answers, search results and texts are inputs.
  An URL has a spelling (`Urls`) and a page (`Norm`): lists are of spellings and may repeat
  one, `seen` is of pages. A checkpoint that fails is swallowed, as `_checkpoint` does.
- `PageSignals`: each index is `[mem, file]`. A save of the two duplicate indexes may end
  after any of its writes (`HalfSaved`), a history that cannot be saved stays ahead of its
  file (`RegisterFails`), and a failing database is taken for one without a row
  (`CompareWithDatabase`). The fields of `registered` are history: what was registered last,
  what each scrape found when it began, and which URLs were crossed or missed.
- `ScrapeRuns`: rows and tasks; `record_run_start` and the other calls of `repo.py` may
  fail and go on, as they do.
- `JobTransactions`: a transaction collects its writes and publishes them with its
  last statement; it waits for a row another one has locked; `Deadlock` aborts one of
  two that wait for each other. `now()` is the time a transaction began at.
- `RemoteFleet`: a worker's tick and its SIGTERM handler; leases lapse and are
  reaped at any time, calls come late, an upload stands behind a result.
- `PageFetch`: the session's pins, its lock and its open connections are shared
  by all scrapes; each lookup may answer differently. `delivered` is not in the program:
  it counts the bytes a rendered page was given, so that they can be compared with the
  allowance.
- `SessionProfiles`: encryption is which ring opens what; `ArtifactStore`: a content
  stands for its digest, a prefix of it is another content.
- `Chunking`, `SiteDiscovery`, `SemanticSearch`: the loops of the code, one turn
  or one element a step, whose results are compared with a definition in one formula
  (`ScanIsExact`, `WalkIsComplete`, `SearchIsExact`, `AnswerIsComplete`). A search of the
  index and a merge of two lists read one snapshot; they are recursive functions. Vectors of
  another length than the first are skipped by an insertion; a query of another dimension than
  the index's, or one that fails, answers nothing. `leads` is the number of words the
  overlap puts in front of each chunk of `chunk_markdown`. A paragraph is a number of words
  and a heading of one word has its marker besides; which words they are is left out, so
  the overlap may be skipped when the chunk is at least as long.
- `BrowserRuntime`: closing a context or a transport may raise, and an opening may be
  cancelled at any await. `open_owned_session` gives its permit back after two such awaits
  (`scraper.py:255-260`), so it may be lost: the task ends as `"lost"`.
- `CorpusPipeline`: appended lines are whole, and the two state files, which are written in
  place, may be cut short (`broken`); a drain, or an SFT pass, that finds its file so fails at
  once. `barren` is history: the records whose last generation gave no pair.
- `DataDirectory`: a removal of `prune` may fail and is passed over (`RemovalFails`).

## 3. Runs

The first four runs use `MCCrawlSystem`. `CHECK_DEADLOCK FALSE`: the clock is bounded and a
system whose jobs have all finished stops.

| run | instance | checks |
|---|---|---|
| `queue` | 1 job, 4 pages of one origin, page limit 3, 2 workers, 2 attempts, failure limit 1, budget of 2 bytes and 1 artifact byte, time 0..5 | `TypeOK`, `CountersReconcile`, `LimitsHold`, `OutcomesAreTrue` |
| `sessions` | 1 job with human input, 2 pages of its origin and one foreign page, 2 workers, time 0..4 | `LeaseInv`, `DrainInv`, `SessionsReconcile`, `TerminalIsFinal`, `ImplementsQueue` |
| `two_jobs` | 2 jobs on the same origin, one interactive, 2 workers, a circuit that opens at the first failure, time 0..3 | `OneLeasePerOrigin` |
| `liveness` | 1 interactive job, 2 pages, 1 worker, `FairSpec` | `EveryJobFinishes`, `SessionsEnd` |

`ImplementsQueue` is the refinement: with a task state as a phase, the lease token as
the grant and the result row as what is kept, every step of the system is a step of
`FencedQueue` or stutters.

The next three use `MCAcquisition` (a call costs 2, a budget is 3, a bill is 1 or 3).
They stop when every page has ended.

| run | instance | checks |
|---|---|---|
| `contention` | Bright Data for 2 pages, 2 workers, 1 attempt, `FairSpec` | `LedgerInv`, `ChargesAreRight`, `EveryCallSettles` |
| `ladder` | `auto` for 1 page, 2 workers, 3 attempts, a budget for Bright Data, human input allowed | `RouteInv`, `SettledOnce` |
| `render` | `auto` for 1 rendered page, 2 workers, 2 attempts, 3 browser pages | `BrowserComesFirst` |

The last three check the composites. A named conjunction collects what is promised
of one part; its conjuncts have names and comments of their own in the modules. In `api`
they are about the part that runs, since the others stand as they began; after a checkpoint
that could not be written the lists of a research run are not recorded any more.

| run | instance | checks |
|---|---|---|
| `api` | see below | `ResumeInv`, `RunsInv`, `SignalsInv`, `SearchInv`, `TextInv`, `CorpusInv`, `FilesInv`, `LifeInv`, `RunsEnd` |
| `edge` | 2 workers, 2 pages and 2 grants; 2 clients and 2 sockets; 2 nodes and 2 runs of a task; 2 callers, 2 crawlers and 2 rows; 2 visits of one token | `FleetInv`, `TunnelInv`, `TransactionsInv`, `AccessInv`, `FencesHold`, `RemoteImplementsQueue` |
| `page` | 2 renders and 1 human session on 1 context over 3 launches; 2 scrapes of 2 hosts; 2 operators of a live session; 3 navigations under the solver; a tunnel of 3 bytes; 2 readers of 2 profiles; 2 puts of 2 contents | `RuntimeInv`, `FetchInv`, `ServicesInv`, `EgressInv`, `StoreInv`, `CallsEnd` |

### Bounds

For `queue` to `liveness` they are chosen so that every action fires and every limit is met from both
sides: one page more than the page limit, a report larger than the reservation, a
budget that is used up after two pages, a lease that expires before the deadline
and one that expires after it, two attempts so that a reaped task is claimed again
and then exhausted, a circuit that opens after two failures (after one in `two_jobs`, where a
resumed session then holds the origin of an open circuit). Two workers are enough
for a stale and a current one; tokens make all further workers alike. Workers, and
in `queue` the pages other than the seed, are symmetric.

A provider budget of 3 pays one call and refuses the second while the first is in progress or
was charged in full, and grants it when the first was cheap. A bill of 3 is above the
reservation. Three attempts let a page be claimed, reaped and claimed again so that
the cap of two calls by one route is met across leases. Two workers are a stale and a
current one. Three browser pages are one and a half navigations (a rendered page
reserves two units, see below), so both refusals of the browser budget happen.

In `api`: one research run over two pages, one of them with two spellings, and two rounds with
a cap of three model calls and one death, so that page, round and call budgets are each the first to
bind in some behaviour; a crawl of four pages with a limit of three, two fetchers
and one death; two scheduled definitions, two run rows and one restart; three
scrapes, two of one URL with another text and one of another URL with the same;
two documents whose second version is larger and nearer, with at most four rows; all rankings of three
chunks of two parents; inputs of blocks in three sizes around the window, with an overlap of two words;
pages of three elements out of twenty, which cover every kind, spelling and trap;
sitemaps that refer to each other, with caps below what they hold; three batches of
two hosts with one death in two drains; four generations of rebuild, so that an
interrupted one is repeated twice; three artifacts over two days with one to keep;
two processes and two migrations. One death is enough where recovery restores the
same kind of state the run began with, and is what the code handles.

In `edge`: two grants of a page are a stale and a current lease; two sockets an old
and its replacement; a screenshot budget of three with pictures of one and two is
met exactly and overshot; two rows are the seed and another page, with one failure
allowed and one abort for a deadlock. In `page`: three launches are a start, a
recycling and a start that races it; one context for three tasks makes two of them wait,
and is lost when the session is cut off while it opens; two hosts and a redirect give a reused
connection; an allowance of three with bodies of two and four fits one, not two; a
ceiling of three with reads of two cuts the second read; two rings are an old and a
new one.

### Fairness

`FairSpec` of `CrawlSystem`: weak fairness of `Tick`, `ReapLease`, `ExpireSession` and
`FinalizeJob`. These are the database clock and `_run_maintenance`, which repeats
its three transactions every ten seconds and survives exceptions. Nothing is
assumed of workers, runners, people or clients. `EveryJobFinishes` therefore says
that deadline, reaper and finalizer suffice; with `OutcomesAreTrue` it follows that
an accepted cancellation ends in `cancelled`. `FairSpec` of `AcquisitionRouter` is weak
fairness of the deadline and of `ReapAll`, a round of the maintenance loop that meets
no locked row: locks are held for the length of a transaction and rounds come every
ten seconds, so a row is not passed over for ever.

`ApiFairness`: a research run's coroutine, and the crawl's workers together, take a
step when they can: the event loop runs what is ready, and every await there ends
with an answer, an error or a timeout, which are all steps. `PageFairness`: the same
for a client of the browser runtime, the two ends of a tunnel and each pump; launch,
navigation, dial and idle timeouts bound their awaits. Deaths, cancellations and
vendors are never assumed. `CallsEnd` promises a browser call an end only while a permit is
left: when every one was lost in `open_owned_session`, renders and sessions wait for ever.

### Disagreements between code and documents

Two runs are expected to be violated; the findings in `PROJECT.json` quote the
documents.

- `session_own`: `sessions.close` ends a leased task by owner and not by token, so
  the session of an earlier lease can end the lease a worker holds now.
- `corpus_targets`: a page routed to DAPT and to SFT is written for the first target
  and counted as unchanged for the second, since both records have one content hash.

The modules state further ones as definitions, for whoever takes them up; the code does
not satisfy them:

- `CrawlSystem`: `BlockedCountReconciles` (`block_robots` never increments `blocked_count`),
  `BlockedSeedNotCompleted` (a job whose seed robots.txt blocks ends `completed`).
  `FailureLimitStops` speaks of jobs without human input only: `expire_due` and `close`
  count failures without enforcing `maxFailures` (`sessions.py:411`).
- `AcquisitionRouter`: `OneUnitPerNavigation` (a page rendered by the local browser
  reserves two units of `browser_page_count`, in the router and in the adapter).
- `BrowserRuntime`: `OneChromium` (`start` and `close` race at their awaits; the
  engineering specification, line 572, speaks of one browser process).
- `ProxyPool`: `RevokedIsFinal` (enrolling a revoked node again makes it usable).
- `RemoteFleet`: `DrainLetsFinish` (the comment in `worker_main.run` lets a draining
  worker finish its page; the functions of migration 0005 refuse its calls).
- `JobTransactions`: `RetriedRowsEnd` (the rows that `retry_failures` adds after
  the finalizer ended the new job are never run; `RetriedInTimeEnds` is the part that
  holds).
- `DataDirectory`: `CarriedStateIsTrue` (a rebuild that is repeated carries the SFT state
  of one generation to the pairs of another).

Met while reading, without a formula: `sitemap.py:7` speaks of following one level
and follows any within eight fetches; `map_site` applies its limit before the search
filter; a batch that failed is not tried again by `--all`; an llms.txt job stays
`formatting` after its process died; the older of two racing migrations may leave
its functions under the newer version when the newer run dies
(`FunctionsAreNewest` excludes runs cut short); `prune` may leave an `.md` that no later
sweep finds, after a death or a failed removal (`OrphansOnlyFromHalves`); a state file of the
corpus scripts that was cut short stops every later drain, or every later SFT pass;
a record without pairs, because no model answered, is not tried again
(`SeenHasPairs`); a page picked in two spellings is read twice within a round
(`NoEntryReadAgain` is what holds); a failing database makes a known page `new`
(`ComparedWithPrevious`); a drained worker that registers late is active again; `reset_pool` forgets a pool that a
caller is just creating (`OnePool` holds until then); `webhooks.py:14` promises one event for
each terminal run, and durable crawls send none.

## 4. Proofs

`Spec` is proved, for every value of the constants allowed by `TablesAssumption`,
`LimitsAssumption` and `TimeAssumption` (finite sets of jobs and URLs, natural
limits, a seed per job), to satisfy:

| theorem | module | statement |
|---|---|---|
| `TypeCorrect` | `CrawlSystemProofs` | `[]TypeOK` |
| `DrainCorrect`, `FinishedIsDrained` | `CrawlSystemProofs` | `[]DrainInv`, `[]FinishedJobIsDrained` |
| `TerminalStatesAreFinal` | `CrawlSystemProofs` | `TerminalIsFinal` |
| `LeaseCorrect` | `LeaseProofs` | `[]LeaseInv` |
| `OriginsAreExclusive`, `WritersAreSingle`, `BudgetsHold`, `ReservationsAreExact`, `PermitsMatch` | `LeaseProofs` | the parts of `LeaseInv` a user of the queue relies on |
| `ReportCorrect` | `QueueProofs` | `[]ReportInv`, the inductive invariant of what a job reports |
| `CountersAreExact`, `LimitsAlwaysHold`, `OutcomesStayTrue`, `SessionsAreReconciled` | `QueueProofs` | `[]CountersReconcile`, `[]LimitsHold`, `[]OutcomesAreTrue`, `[]SessionsReconcile` |
| `CrawlImplementsQueue` | `QueueProofs` | `ImplementsQueue`: the refinement of `FencedQueue` |

`DrainInv`. That a finished job has nothing left to run is not inductive: the
transaction that ends the last lease of a cancelled job finishes the job without
looking at the queue. It is right because nothing is queued then:
`CancelledHasNoQueue`. `TasksHaveJob` covers submission. With `DrainInv`, no
transaction that touches a finished job can find a task to move, which gives
`TerminalIsFinal`.

`LeaseInv`. No part is inductive alone. `BudgetHolds` needs to know that a charge
stays within what the task holds and that the release takes exactly that from the
job, which is `ReservationsExact`; this is stated with one leased task per job,
which follows from `OneLeasePerOrigin` and from `OneOriginPerJob` (discovery never
leaves the seed's origin); exclusivity of the origin is the permit table's, hence
`PermitsMatchLeases`; the release deletes the right permit because tokens are
unique, `TokensAreIssued` and `UnleasedHoldsNothing`; and fresh tokens give
`SingleWriter`. The proof has one lemma for leasing, one for giving back and one
for steps that touch no lease, and reduces every action to one of them. `DrainInv`
is used once: the tasks of an absent job are absent.

`ReportInv`. The counters and the page limit need each other: discovery compares the
limit with `discovered_count`, so `PageLimit` on the rows holds only while the counter is
their number. `AttemptsBounded` needs `QueuedHasAttempt`: a claim adds an attempt without
looking at the limit, because who puts a task back has looked. That a parked task has a
session that can end it needs `PlainJobsHaveNoSession`, and `FailureLimitEnds` is the
counters' again, since the sweep is started by a count. Each transaction moves some rows
into one state; the counting lemmas (`CountBoth` and those after it) say what that does to
the numbers. `CrawlImplementsQueue` maps each step to a step of `FencedQueue`: a fresh
token (`LeaseInv`) is a grant, a settlement has a holder because it is fenced, and steps
that end queued rows are its drops.

`AcquisitionRouter`'s `Spec` is proved, for every value of the constants allowed by
`LedgerAssumption` and `RouterAssumption` (finitely many tasks, natural budgets and
prices, a local provider that is free), to satisfy, in `LedgerProofs`:

| theorem | statement |
|---|---|
| `LedgerInvariant` | `[]LedgerInv` |
| `LedgerTypes`, `BudgetsHold`, `ReservationsExact`, `CapsHold` | its parts `LedgerTypeOK`, `UsageWithinBudget`, `CallReservationsExact`, `AttemptsCapped` |
| `AttemptsSettleOnce` | `SettledOnce` |
| `ChargesHold` | `[]ChargesAreRight` |

`LedgerInv`. That a settlement cannot make `reserved_value` negative needs
`CallReservationsExact`: what is taken away is the price of some of the open
attempts, and their number is at most that of all. `UsageWithinBudget` then follows
since a settlement moves an amount from one column to the other and a finish at most
that. `RunsHaveAttempts` ties a run to the attempt it finishes: its own, under its
task and token. The proof has one lemma for each way the ledger changes
(`SettleStep`, `ReserveStep`, `ConvertStep`, and `QuietUsage` for the rest) and one
lemma for each group of router steps, all of which reduce to those. Cardinalities
come from `FiniteSetTheorems`.

`ChargesHold`. `consumed_value` is the sum of what the attempts were charged. A sum over a
sequence is the last value of a loop over it (`AddsExist`, `TotalIs`); an attempt that is
appended open adds nothing, and one that is finished or settled moves its charge from
nothing to what the usage row gains in the same transaction. Each way the ledger
changes has a step for it, as above.

The second half of `LedgerProofs` is about the routes:

| theorem | statement |
|---|---|
| `RouterInvariant` | `[]RouterInv` |
| `RoutesAreRight` | `[]RouteInv`, with `OneOpenCall`, `LocalComesFirst` and `BillsAreCovered` |
| `FirecrawlComesLast` | `BrowserComesFirst` |

`RouterInv`. A worker that was reaped goes on for a while beside the one that claimed the
page after it, so everything is said of a run under its own token: `TokensRight` (a token
is given out once, and no step makes a lost fence hold again). `CallRight`: the only call
in progress under a lease that holds is the one its run waits for. `LadderRight`: what the
rest of a run's list may contain, and that the free route of this lease was tried or is
excused. Without the list there is nothing to say at the moment a paid call is reserved,
several steps after the route was chosen. `BillRight`: a call not yet answered has no bill,
and the charge a run is about to report is not below the bill it got.

`ApiProcess`'s `ApiSpec` is proved, for every value of the constants allowed by the
assumptions of its parts (`ResearchAssumption`, `LegacyAssumption`, `RunsAssumption`,
`SignalAssumption`, `IndexAssumption`, `RetrievalAssumption`, `ChunkingAssumption`,
`SiteAssumption`, `CorpusAssumption`, `DataAssumption`, `LifeAssumption`: finite sets of runs,
rows, chunks, sitemaps, batches and stems, natural limits, origins and segments whose
normalised spelling is normalised already, placeholders that are not members of the sets
they stand beside), to satisfy:

| theorem | module | statement | about |
|---|---|---|---|
| `ResumeIsRight`, `DeadlinesSurvive` | `ApiProofs` | `[]ResumeInv`, `DeadlineSurvives` | `ResearchRuns`, `LegacyCrawl` |
| `RunsAreRight` | `ApiProofs` | `[]RunsInv` | `ScrapeRuns` |
| `SignalsAreRight` | `ApiProofs` | `[]SignalsInv` | `PageSignals` |
| `CorpusIsRight` | `ApiProofs` | `[]CorpusInv` | `CorpusPipeline`, and `DataDirectory`'s trees |
| `FilesAreRight` | `ApiProofs` | `[]FilesInv` | `DataDirectory` |
| `LifeIsRight` | `ApiProofs` | `[]LifeInv` | `ProcessLife` (`LifeCorrect` says it of `LifeSpec`) |
| `TablesAreMirrors`, `SearchesAreExact`, `SearchIsRight` | `SearchProofs` | `[](IndexTypeOK /\ TablesMirror)`, `[]SearchGivesNearest`, `[]SearchInv` | `SemanticSearch` |
| `ChunksLoseNothing` | `SearchProofs` | `[](NothingIsLost /\ WindowsHold /\ BreadcrumbIsTrue)` | `Chunking` |
| `SitesAreRead` | `SearchProofs` | `[](IdentityIsStable /\ ScanIsExact /\ WalkIsComplete /\ MapIsMerged)` | `SiteDiscovery` |
| `TextIsRight` | `SearchProofs` | `[]TextInv`, the two together | both |

The parts share no variable: one lemma a part (`RunsIsPart` and so on) turns a step of
the process into a step of the part or a stutter, and each part has an inductive invariant
over its own variables.

- `ResearchRight` says of each run how its job, its loop, the loop that is parked for a
  resumption and its checkpoint relate (`RunOk`). No entry of a list is read again, and no later list has a page that was read, because what
  was read is in the `seen` set of each of the three (`ReadOk`), and what is left of a list is
  its end (`LoopOk`). The budget of model calls is one more than the cap at the end
  only because synthesis spends that call after the last checkpoint (`BudgetOk`). A run
  that was reported has no coroutine, no checkpoint and is not interrupted, so nothing can
  report it again (`ReportOk`). `DeadlinesSurvive` follows step by step:
  only the claim of a page goes on to read one, and it asks for the deadline first.
- `LegacyRight`: who is being fetched is claimed by one worker and not done (`FetchingOk`);
  what is done was claimed, and claims are within the limit, in memory (`ClaimsOk`) and in
  the checkpoint (`SavedOk`).
- `RunsRight`: an executing run has an active row (`ExecutingIsActive`), a claimed definition
  is executed by no scheduled run (`ClaimedIsFree`), a reported run is over (`ReportedIsOver`).
- `SignalsRight`: between look-up and registration a scrape stands by what was registered
  when it began, unless another one crossed it (`OnTheWay`, `HistoryIsLast`), except where a
  failure has made the history unsure or the database was missed; the owner of a
  text is a page that has it (`OwnersAreReal`, `CheckedHasOwner`).
- `FilesRight`: a sweep and a save never hold the same artifact (`SaveIsApart`), and what a
  sweep takes has as many others, as young and spared, as are to be kept (`SpareIsEnough`).
- `SwapRight`: `newest` is the generation in `corpus` unless a rebuild is between moving that
  away and putting the new one there; then it is in `corpus.bak` (`NewestSurvives`).
- `CorpusRight`: who has a slot belongs to this drain (`SlotsRight`). The known hashes of a
  build are the ledger's with the row about to be written (`InBuild`); a hash has one line
  for its row, a row one source, a record its pairs once unless its generation gave none
  (`barren`), and more only by as many as there
  were deaths between the two writes (`LinesAreCounted`, `RowsAreCounted`, `PairsAreCounted`);
  a batch is noted `ok` only when all its lines are written (`OkNotes`).
- `IndexRight`: a rowid is of one row (`RowidsDiffer`), no dimension is stamped only while
  the index is empty (`UnstampedIsEmpty`). With the tables equal there is no orphan, so
  the candidates are the rows in the order of their distance; the matching ones in
  a window are a beginning of all matching ones (`SortsPrefix`), a window is
  wider than the one before it until it holds everything (`WindowsReachAll`), hence the first answer
  that is long enough is the nearest `k`. `SearchGivesNearest` says so for every `k`; `SearchIsExact`,
  which TLC checks, for three.
- `RetrievalRight`: the candidates are what `Fuse` and `MergeKeywords` give. While the merged list
  is not full, or grew in every turn, it has the first `n` hits of the file index after `n`
  turns (`Merging`).
  The common denominator of the scores is a multiple of every `rrf_k` plus rank
  (`DenominatorIsMultiple`), so a better rank is a strictly larger score although the
  model divides integers.
- `ChunkRight`: of the first `k` blocks, `chunk_markdown` has made chunks whose pieces, with
  the open one behind them, are those blocks whole and in order (`Packed`); the heading stack is
  the breadcrumb of the last block read (`CrumbsNext`: who pops the headings of at least a new
  one's level keeps those that are still open), and the open chunk has the breadcrumb of
  its first block that is no heading. `chunk_text` has every character in some piece
  (`Windowed`); windows that advance by `Stride` cover a long paragraph because a
  window is no shorter than the stride (`WindowsCover`).
- `ScanRight`: the output lists the URLs of the first admissible elements passed and no other,
  so an element adds itself exactly if its URL is new.
- `WalkRight` (`Found`): as long as no fetch failed and the list has room, what the start and
  the sitemaps seen list has been seen, waits in the queue or is packed. When the queue is empty the
  sitemaps seen are closed under their entries, and the closure `MapsFrom` computes
  in as many rounds as there are sitemaps is the least closed set (`MapsFromFacts`). That a
  normalised URL is its own identity (`UrlIsStable`) is shown stage by stage: escapes, dot
  segments, slashes at the end, dropped keys.
- `LifeIndInv`. That the schema is a prefix follows from each process believing a
  prefix applied, of what is applied (`KnownIsPrefix`): the least migration it misses
  extends it by one (`AppliedInOrder`). That the functions are the newest is not
  inductive, because a slow process may replace them by older ones; but then this
  process still stands at that migration and has the later ones before it
  (`LastRunner`). One pool needs that who creates it holds the lock alone and finds none
  (`CreatorIsAlone`), which ends when shutdown forgets the lock; that loops have a pool
  needs that startup still has the one it got (`StartupHasPool`).

These proofs need induction over data. The library's induction theorems take an operator as
their parameter, which none of the provers instantiates; `NatSetInduction` states the same of a set of
naturals and is proved from well-foundedness, and `LoopExists` gives the values of a
loop as a function. Sets of naturals on which a fact holds then take the place of the
operator, and `Windows`, `MergeKeywords`, `Denominator` and the sums of the ledger
are reasoned about with them; so are the loops of the chunkers and of the discovery (`KeptLoop`
to `MergeLoop`, `TakeLoop`, `ReachLoop`), which `Chunking` and `SiteDiscovery` write as recursive
functions, and `FlattenSeq` of the community modules (`FlattenLoop`).

`EdgeFleet`'s `EdgeSpec` is proved, for every value of the constants allowed by the
assumptions of its parts (`FleetAssumption`, `ControlAssumption`, `PoolAssumption`,
`JobAssumption`, `AccessAssumption`: natural limits, placeholders that are not members of the
sets they stand beside, finitely many rows), to satisfy, in `EdgeProofs`:

| theorem | statement | about |
|---|---|---|
| `FleetIsRight` | `[]FleetInv` | `RemoteFleet`, `ProxyPool` |
| `FleetImplementsQueue` | `RemoteImplementsQueue` | the refinement of `FencedQueue` by `RemoteFleet` |
| `NobodyPassesAFence` | `FencesHold` | `RemoteFleet`, `ProxyPool` |
| `TunnelIsRight` | `[]TunnelInv` | `ControlTunnel` |
| `TokensOpenOnce` | `[]AccessInv` | `SessionAccess` |
| `TransactionsAreRight` | `[]TransactionsInv` | `JobTransactions` |

`EdgeParts` turns a step of the composition into a step of one part, so each part has an
inductive invariant over its own variables.

- `FleetRight`: a row that is not leased names no lease (`TokensAreLeases`), and who is about
  to complete has uploaded under the token it reports (`UploadsComeFirst`). With the fence,
  which compares that token with the row's, this gives `ArtifactBehindResult`.
- `PoolRight`: a token that is not used yet, or has no node yet, has no address
  (`UnusedIsBlank`).
- `ControlRight`: the relay has requests in four places (a waiting client, the pending
  table, the frames on their way out and back). `RelayRight` says which of them follow from
  which; `AnswersAreOwn` and the promise that nobody waits for a socket that is gone
  come from it. `ContextRight` accounts for the screenshot budget between the read of the counter
  and its write, `BridgesRight` for the bounded table of bridges.
- `AccessRight`: a token ends with its session at the latest (`PassesEndInTime`), and a
  bridge was made for a token that is spent (`BridgesAreSpent`).
- `JobRight`: what each open transaction holds and has collected, by the statement it is at
  (`TxOk`). What a transaction read is still true when it commits because it holds the row:
  `Collected` says that it writes only rows it holds, that none of them had ended, and that it
  counts exactly what it ends. Two transactions never hold the same row, so a commit of one
  leaves what another has collected true (the section "A transaction beside the others").
  `KeyRight` covers submission, where nothing is locked and the unique index decides.
  That a cancellation leaves nothing queued is the hardest part: `request_cancel` visits row
  by row, and a page that was put back behind it would be missed. `TxOk` says that what is
  queued is still to be visited or was written; it stays so because every other commit needs
  the job's row, which the cancellation holds. `SettlingNeverDeadlocks` follows without more steps: who
  settles a page holds leased rows, a sweep wants queued ones.

`PageAcquisition`'s `PageSpec` is proved, for every value of the constants allowed by the
assumptions of its parts (`RuntimeAssumption`, `FetchAssumption`, `ProvidersAssumption`,
`CaptchaAssumption`, `TunnelAssumption`, `RingAssumption`, `HostAssumption`,
`ArtifactAssumption`: natural limits and sizes, finitely many tasks of the browser, each key
ring contains the one before, a host name is a sequence of labels), to satisfy, in
`PageProofs`:

| theorem | statement | about |
|---|---|---|
| `RuntimeIsRight` | `[]RuntimeInv` | `BrowserRuntime` |
| `FetchIsRight` | `[]FetchInv` | `PageFetch` |
| `ServicesAreRight` | `[]ServicesInv` | `ManagedProviders`, `CaptchaSolving` |
| `EgressIsRight` | `[]EgressInv` | `EgressTunnel` |
| `StoreIsRight` | `[]StoreInv` | `SessionProfiles`, `ArtifactStore` |

`PageParts` is to `PageNext` what `EdgeParts` is above; `PageRight` is the conjunction of seven
inductive invariants. TLC has checked it on the instance of the run `page`.

- `RuntimeRight`: the permits left, those the tasks hold and those lost add up. A task gives
  back what it took, or is counted as lost, however its browser dies in between, so the sum
  needs nothing of the browsers but that who launches or kills one has a handle of it
  (`HandlesKnown`).
- `FetchRight`: the pins belong to the session, not to the scrape. `ScrapeOk` says of each
  scrape that it has the lock exactly at the steps between, and that while it connects the
  pins are its own; another scrape cannot have changed them, since who changes them has the
  lock (`OtherScrapesOk`). That a challenge is no page unless HTTP was forced needs that a
  scrape that forces the browser never comes to the classification. `GuardRight`: what a
  guard has delivered and what it has left are the allowance, although a limit that was
  given out before an await may be larger than what is left after it.
- `ProvidersRight`: a call that waits for its delete has a session and owes already what it
  will be charged. `CaptchaRight`: from the second check of the host on, the page is on the
  host that was checked, or it is another document, in which the handles fail.
- `TunnelRight`: what each pump has been granted and not yet passed on is accounted for, so
  that the two together stay within the ceiling.
- `ProfilesRight`: `NewestReadsAll` is inductive only while no process is two rings ahead of
  another (`RollOutInOrder`), which is how keys are rolled out. `HostAllowed` compares the
  ends of two sequences of labels; `SuffixMeans` says what that computes.
- `StoreRight`: a put has spooled a prefix of its content, and its temporary, which nobody
  else touches, is as long (`PutOk`). Hence what it makes visible is complete.

The theorems about `CrawlSystem` are about its `Spec`, where transactions are atomic and
`retry_failures` is absent; `TransactionsAreRight` is about the statements of those
transactions on one job and has `retry_failures`. That the atomic transactions are what the
statements amount to is not proved.

Model-checked only: the liveness properties (`EveryJobFinishes`, `SessionsEnd`,
`EveryCallSettles`, `RunsEnd`, `CallsEnd`), since fairness is outside the prover. Every
invariant that a passing run checks is also a theorem.

## 5. Plan

Done: the durable queue with sessions and its statement-level transactions, the
provider ledger with the router, remote workers, proxies, the tunnel, page
acquisition, the API process and the corpus scripts; the refinements to `FencedQueue`;
the theorems above. What is left:

1. A proof that the statements of `JobTransactions` amount to the atomic transactions of
   `CrawlQueue`, for the operations both have.
