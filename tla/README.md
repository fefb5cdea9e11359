# paper-live: TLA+ models, model checking and proofs

paper-live is a Python system that ingests daily market data, ranks securities, builds a
portfolio and trades it: on paper through a virtual matching engine, or, after two human
approvals, at a broker. This directory holds a TLA+ model of its core, the TLC instances
that check it, and TLAPS proofs of the properties that matter most.

Paths below are relative to `src/src/paper_live/`.

## 1. Inventory

| Component (files) | State it keeps | Operations | Correct when |
|---|---|---|---|
| Paper gateway, engine, lifecycle (`execution.py`, `order_lifecycle.py`) | cash, positions, table of order records | `execute`, `cancel` | account and order book agree; a repeated order is settled once; an error has traded nothing; nothing is overdrawn |
| Environment and promotion (`environment.py`, `live_approval.py`) | mode, promotion approval | `set_mode`, `approve`, `revoke`, skill checks | REAL_LIVE only after an approval |
| Live path (`trade_facade.py`, `security/live_approval_gate.py`, `secrets/broker.py`, `brokers/`) | previews, order approval, credentials and token in the adapter | `preview`, `submit`, `cancel`, approve/revoke, trip/reset | what reaches the broker passed every guard, is what was previewed, uses one secret, and leaves none behind |
| Internal API (`internal_api.py`) | none of its own | one thread per request, all on one facade | the components below it stand the concurrency |
| Risk (`risk.py`, `portfolio_risk.py`) | circuit breaker | `build`, `approve`, `approve_portfolio` | an account that cannot be valued trades nothing |
| Daily job (`daily_recommendation_job.py`, `paper_execution.py`, `execution_audit.py`, `run_manifest.py`, `pnl.py`) | manifest and audit, in memory and on the storage | one run: ingest, recommend, preflight, submit rows, persist | every trade is audited, failures are marked, results are durable |
| Runner and lease (`operations.py`, `locking.py`) | one Redis key | `run`, `acquire`, `release` | one run at a time; the lock comes free |
| Market ingestion and archive (`ingestion_*.py`, `market_ingestion.py`, `market_dataset.py`, `data_lake.py`) | partition files, manifests, run ledger, failure queue | ingest, retry, reconcile | no row is erased or lost; manifests tell the truth |
| Recommendation (`recommendation_pipeline.py`, `recommendation.py`, `features.py`) | snapshots, last filter audit | `build_from_daily` | no look-ahead; the portfolio is the one its rules define |
| Secret store (`secrets/drive_store.py`) | one encrypted file on Drive; the file id each process keeps | `get`, `put`, `revoke` | what a writer was told holds; no secret is touched by another one's update; `get` is current |
| Plugin host (`plugins/`: `lifecycle.py`, `skill_registry.py`, `manager.py`, `gateway.py`, `integration.py`, `executor.py`, `rollback.py`, `backtest.py`) | life-cycle records, skill registry, bound handlers, versions | install, register, enable, disable, roll back, bind; run a skill, a backtest, an order | a handler runs only for an enabled owner in a paper mode; registry and life cycle agree; a failed installation leaves nothing |
| Retry queue (`retry_queue.py`) | an in-memory queue that no module uses | | not modelled |
| Providers, command lines, demonstration graphs, analytics | none that others read | | not modelled, see section 8 |

How they interact. `operational_cli.py` builds one `OperationalDailyRunner`, which takes the
lease and runs the daily job; the job calls the ingestion pipeline, the recommendation
pipeline and the paper batch, which goes through the trade facade and the paper gateway.
The internal HTTP API puts another set of threads on a facade and a gateway, without locks.
In REAL_LIVE the facade goes to the broker adapter instead of the gateway. Operators change
mode, approvals, circuit breaker and secrets at any time. The live path's `SecretBroker` reads the secret
store. Administrators change the plugin host while callers run skills; a plugin's order goes
through risk to the paper gateway.

Hard behaviours: unlocked sharing between request threads; guards that are read once and used
later; uploads that fail after they took effect; a process killed between a trade and its
record; a lease that ends before its job; retries of work that was already done. Every one of
them is in `PROJECT.json` under `hazards`, at its line.

## 2. Modules

| Module | Models | Extends or instantiates |
|---|---|---|
| `MatchingMath` | fee, tax, slippage and rounding of the engine | |
| `PaperGateway` | `ExecutionGateway.execute`/`cancel`, step by step, for any number of callers | `MatchingMath`, `AtomicDesk` (INSTANCE) |
| `AtomicDesk` | abstract specification: account and order book move together | |
| `LiveDesk` | previews, the live path, its operators and the broker | |
| `PortfolioRisk` | valuation, target quantity, limits, as functions of the account | `MatchingMath` |
| `DailyRun` | one daily run with failing storage and kills | `PortfolioRisk` |
| `DailyRunner` | schedulers and the Redis lease | |
| `MarketIngest` | ingest, retry and reconcile jobs on the archive | |
| `Recommendation` | rows to features, filters, ranking, portfolio, weights | |
| `SecretStore` | the encrypted secret store on Drive, request by request | `SecretVault` (INSTANCE) |
| `SecretVault` | abstract specification: one table, one secret changed at a time | |
| `PluginHost` | administrators and callers of the plugin host | |
| `MC*` | instances for TLC | the module they are named after |
| `*Proofs` | theorems and lemmas; the refinements are in `PaperGatewayProofs` and `SecretStoreProofs` | the module they are named after |

Definitions ending in `_Something` (`Lookup_Whole`, `Acquire_Overwrites`, ...) are deliberate
mutations. No specification uses them; each shows that a property can fail.

### PaperGateway and AtomicDesk

`orders` is `OrderLifecycle._orders`; `cash` and `positions` are `PaperAccount`'s. `pc`, `call`, `eff`, `fill`,
`seen` and `cur` are the locals of a thread in `execute` or `cancel`. Steps end where CPython
may switch threads, at calls: `positions.get` (in `Match`) and the store that uses its result
(in `Settle`) are two steps, the cash test, the debit and the position store are one. `executed` is a history
variable: what the engine settled under a client order id.
Money is in units of 0.01 and rates are fractions of `Scale`, with `\div` for `ROUND_DOWN`. A quantity counts some
smallest unit; the code multiplies by `max_fill_ratio` without rounding, and the model rounds that share up, so that as
in the code the share of a positive order is not empty.

`AtomicDesk` says what a caller is promised: an order is opened once, a trade moves account
and book in one step, filled and cancelled orders never move. `PaperGateway` implements it for
one caller with the mapping `book <- Book`, where a fill that is settled and not yet recorded
counts as recorded.

### LiveDesk

One action per call that `preview`, `submit` or `cancel` makes: mode, preview look-up, risk, skill, approval
gate, secret, injection, router, credentials, token, POST, answer, and the `finally` block. Credentials and
tokens are the version of the secret they come from. `window` is a history variable with the
guards that held at some moment of the current call. A request or its answer may be lost.
A receipt has no client id, because `to_broker_order` drops it. A call that read a paper mode
leaves for the gateway, which is `PaperGateway`'s `Enter`. A preview is stored in the step of its last check: its
id is fresh, so nobody can look it up earlier. `broker` is the adapter that the calls are for; the KB
adapter takes credentials and drops them as the Toss adapter does, and refuses every order before a request
(`KbRefuses`). Risk reads the breaker (`AssessRisk`) and, later, the mode once more (`RiskMode`). A preview whose skill
check meets an `EnvironmentTransitionError` raises and stores nothing. The random ids of approvals are modelled by
numbers in the order they are issued. `TypeOK` also says that a call reaches the approval gate, the adapter or the broker only
if it read REAL_LIVE, and that a request is posted with a secret and a token.

### DailyRun and PortfolioRisk

`mem`/`disk` are the run manifest in the tracker and on the storage, `audit`/`auditDisk` the
audit trail. Every write may raise, with or without effect; the except block is `FailAudit`
and `FailFinalize`; `Kill` may happen anywhere. Each row is decided twice, by preflight
against the account before the batch and again when it is submitted. One submission is one
step because the job is a single caller and `AtomicExecution` holds for one caller; the job gives no depth, so its
fills are whole. Prices are those of the rows selected today, as `run` passes them on. A symbol without a known market
(`NoMarket`) skips the market limit.

### DailyRunner

`SET NX PX` with a fresh token, no renewal, and a compare-and-delete release. A job takes any
number of ticks; a scheduler may die while it holds the lock, or its release may not be answered.

### MarketIngest

A row is abstracted to its `available_at`, the number of the job that fetched it. Each provider
and archive request is a step; an upload may fail before or after its effect. `build` reads
the current partitions, lays its rows over them and replaces the files, in date order, then
the index, the manifest and, for the pipeline, the run ledger and the failures.
`RecoveryReconciler.merge` lets canonical rows win. Finding a file by name and creating or
updating it is one step.

### Recommendation

`Score`, `Confidence` and `Volatility` are parameters, functions of the closes a security has;
filters, ranking, the greedy loop (one round per step), capped inverse-volatility weights and
their rounding to six digits are modelled. `Round` is half up on exact fractions, where Python's `round` works on
floats and takes the even digit of a tie; no property depends on a tie. Each of the three snapshots may fail to be written.

### SecretStore and SecretVault

One step per request to Drive: find by name (or the id kept from before), download, write. Any request may
fail, a write also after its effect; a process may restart and forget its file id. The cipher is
modelled by its key: a download decrypts with the key it was written with, and raises otherwise. Drive is
external: it lists a file once it exists, in any order, and applies a write before the call ends or never.
`GetsCurrent` is about the step in which `get` answers, and its clock: a value that is expired, or
that the id did not have during the call, is no answer.
`window` (entries the called id had during the call) and `known` (entries an id may have, given what
writers were told) are history variables.

`SecretVault` is what a reader of `put` and `revoke` expects: one entry changes in one step. `SecretStore`
implements it for one writer, with `vault <- Vault`, the table in the first file.

### PluginHost

`PluginLifecycle` and `SkillRegistry` lock each operation of theirs and nothing locks two together, so
each one is a step: `install_and_enable` is `Install`, `Add`, `Verify`, `Validate`, `Register` per skill, `Enable`, with
its except block `Unregister`, `Remove`; and the three ways to run a skill are `CheckState`, `CheckOwner`,
`CheckMode`, `Fetch` (the skill is resolved), `FetchHandler` (its handler is looked up), `Run`. The installer succeeds or raises. Versions are abstracted to how many are on
record, because no step looks at one. `window` holds what was true at some moment of a call, `before` the registry
when an operation began, `closed` which plugins `manager.disable` has closed and for which no skill was registered since.
`TypeOK` also says that whoever owns a registered skill has had a life-cycle record, with any number of administrators.

## 3. Runs

| Run | Instance | Result |
|---|---|---|
| `gateway_solo` | one caller, four of the calls in `SoloCalls`, mode changes | everything holds, and `AtomicDesk` is implemented |
| `gateway_shared` | two callers, `SharedCalls` | no order record is overfilled |
| `gateway_race` | two callers, one order twice | **violated**: settled twice |
| `live_solo` | one thread, two calls, two orders, two approvals, two secrets, either adapter, all operators | everything holds |
| `lease` | three schedulers, lease of two ticks, four runs | everything holds |
| `daily` | seven accounts, five selections, two failing writes | everything holds |
| `daily_marker` | the same | **violated**: a killed run says "completed" |
| `ingest` | one worker, four jobs, two securities, two dates | everything holds |
| `ingest_race` | two workers, two jobs | **violated**: rows erased |
| `recommend` | 54000 tables of four securities in three markets | everything holds |
| `secret_store` | one writer, a reader, a client with another key, two ids, three records, four calls | everything holds, and `SecretVault` is implemented |
| `plugin_host` | one administrator, one caller, two plugins that share a skill id, four operations, two bars | everything holds |

Why the bounds are enough to be interesting:

- *gateway_solo*: four calls allow a partial fill, its retry, a cancel or a reused id and one more
  retry. The calls include an empty fill (depth 0), a sale larger than the position, an order the
  cash does not cover, limit orders on both sides of the price or without one, quantity 0
  and no id. Runs use `FillRatio = Scale`; the proofs are for any ratio.
- *gateway_shared*: two callers are enough for every race between two steps on one record or
  position, with a partial fill, an opposite order, a reused id and a cancel.
- *live_solo*: two approvals and two secrets make an approval lapse, or a secret rotate, between any
  two steps of a call; the second call meets what the first one left, a preview among it, and names that
  preview, an unknown one or none.
- *lease*: three schedulers so that a late release can meet the lock of a third; two ticks so that a
  lease can be partly used up.
- *daily*: the accounts make a batch fill, break off in the second row, find its second row done, fail to
  pay slippage, sell, have nothing to do, and hold an unpriced symbol. Two faults
  allow one write in the body and one in the except block to fail.
- *ingest*: four jobs are the least that make a recovered row older than the canonical row of its key
  (ingest, retry, ingest, reconcile). A payload is empty or complete; rows that are there for one
  date only come from uploads that fail between two partitions. `ingest_race` has
  partial payloads as well. `MaxRetries = 2` and `MaxAttempts = 3`, as the retry service has
  nothing to do otherwise (section 7).
- *recommend*: the quotes cover every filter, late and undated rows, and ties. Four securities with
  one position per market and two in total make both limits bind.
- *secret_store*: four calls allow a put whose answer is lost, its retry, a revoke and a get with any of
  them cut off; two ids so that a call could harm the other secret; a record for good, one that expires at the clock's
  only tick, and one whose expiry cannot be read. Two files are allowed, so that a second one could be created.
- *plugin_host*: four operations allow one plugin's registration, an installation that collides with it in the middle of
  its manifest, a disable, and the installation again; or an installation, a rollback and `enable` with a bound
  handler. The requests ask for own skills, for another's and for REAL_LIVE.

Symmetry is used in `ingest_race` only, for interchangeable workers. Deadlock checking is off for `MarketIngest`, where the bounded
number of jobs ends; elsewhere an ended run stutters explicitly, or operators and restarts can always act.

## 4. Fairness

Two liveness properties are stated, and each module with one has a `FairSpec` for it.

- `LockComesFree` (`DailyRunner`): weak fairness on the clock and on the steps of a scheduler that is alive. Redis
  drops an expired key on its own; a scheduler may die at any place, also while it holds the lock.
- `JobsEnd` (`MarketIngest`): weak fairness on the steps of a job. Ingestion jobs are single-threaded loops over
  finite lists with bounded retries and requests with timeouts.

Nothing is assumed about operators, about schedulers starting runs, about requests succeeding,
or about a process surviving.

## 5. Proofs

TLAPS checks every leaf; nothing is assumed besides the named `ASSUME`s of the modules, which TLC evaluates in
every run.

| Theorem | For | Statement |
|---|---|---|
| `GatewayTypeCorrect`, `GatewayNeverOverfilled` | any callers, calls, fill ratio | no negative cash or position; no record overfilled |
| `SoloBooksAgree`, `SoloRaiseIsClean`, `SoloIdempotent`, `SoloOrdersAdvance` | one caller | the correctness of execute and cancel |
| `SoloPositionsExplained` | one caller, any number of order ids | every position is the sum of its executions |
| `SoloAtomicExecution` | one caller | `PaperGateway` implements `AtomicDesk` |
| `LiveTypeCorrect`, `LiveSendsAreGuarded`, `LiveModeWasApproved` | any threads | guards of the live path; who reaches the broker has read REAL_LIVE and holds credentials |
| `SoloOneIdentity`, `SoloCredentialsDropped` | one thread | secrets in the adapter |
| `LeaseTypeCorrect`, `LeaseIsExclusive`, `ReleaseIsOwn` | any schedulers and TTL | the lease |
| `TradesAreAudited`, `RejectedBatchIsInert`, `FailedRunsAreMarked`, `ResultsAreDurable` | any portfolio, prices, limits, faults | the daily run |
| `DailyTypeCorrect` | the same | types; cash and positions stay non-negative through a batch |
| `IngestTypeCorrect` | any workers | types of archive, ledger, queue and locals |
| `SoloNothingErased`, `SoloNothingLost`, `SoloManifestMatches`, `SoloPublishedBeforeLedger`, `SoloReconcileFillsGaps` | one worker, any securities, dates, payloads, failing requests | the archive |
| `GreedyPortfolio` | any rows, factors, limits | the greedy loop selects the portfolio its rules define |
| `WeightsAlwaysFit` | the same, with `FineGrained` | the rounded weights fit the account and follow the volatilities |
| `RecommendationTypeCorrect` | any rows, factors, limits | types; no security is selected twice |
| `StoreTypeCorrect` | any clients | tables are complete, a kept file id exists |
| `SoloGetsCurrent`, `SoloAcknowledgedKept` | one writer, any readers, keys and records | `get` answers with an entry of the call that is good now; acknowledged updates stay |
| `SoloAtomicVault` | one writer | `SecretStore` implements `SecretVault` |
| `HostTypeCorrect`, `HostRunsAreAuthorised` | any administrators, callers, plugins, manifests | owners of skills have a record; the guards of a run |
| `SoloNoOrphanSkills`, `SoloFailedInstallRestores` | one administrator | registry and life cycle |

The arguments:

- *Gateway, any callers.* `NeverOverfilled` is not inductive: a thread about to write uses its copy
  of the record. `IInv` adds `Locals`: a copy in `fill_write` is sound and has room for the fill, one in
  `cancel_write` is sound, and a fill to be settled is positive. Its first lemmas give the
  arithmetic: fee and tax do not exceed the gross, so a sale never lowers the cash below zero, and a
  share of a quantity is no more than the quantity.
- *Gateway, one caller.* `SoloInv` adds `Known`: what the only thread knows about its order at each
  place, in particular that the effective quantity is what the record still lacks, so that
  `lifecycle.fill` cannot refuse what the engine settled. With a second caller `Known` is false,
  which is what `gateway_race` shows. The refinement maps `Settle` to `Trade`, `Store` to `OpenOrder`,
  `CancelWrite` to `CancelOrder`, and everything else to a stutter. For `PositionsExplained`, `PosInv` states it with a sum
  function over all sets of ids: `Store` adds a term that is zero, because nothing was executed under a free id, and
  `Settle` changes one term by what it adds to the position, because `Known` says that the position it has read is current.
- *Live path.* `Guarded` says, for each place, which guards must already be in `window`; `Promoted` covers
  the gap in `set_mode` between `require` and the write; `Named` says that only `submit` names a preview and that,
  past the look-up, the order is the one of an approved preview. For one thread, `Injected` says
  what adapter and locals hold at each place of a live call.
- *Lease.* `LeaseOwnsKey`: a run that is inside its lease owns the key, whose remaining time is the
  run's. Tokens are fresh, so two such runs would need one token.
- *Daily run.* `Audited` relates audit, account and place: between a trade and its record the run is at
  `record`, and nothing has been persisted before the batch is over; `Marked` relates the manifest on the
  storage to the place. Prices, weights and limits play no part, so they are arbitrary. `Amounts` adds that the account
  stays non-negative: a buy is checked against the cash, a sale is no more than is held, and its charges are no more than it earns.
- *Market ingestion, one worker.* `NothingErased` is not inductive: what a job uploads depends on what it read steps
  before. `SoloInv` says, for each place of a job, that a partition read so far is as it is in the archive (`Fresh`); that the
  rows about to be published hold every row of the dataset they replace and that partitions which are not to be uploaded are
  as they should be (`Whole`), whence also `ManifestMatches`; that what was fetched, what failed and what is left make up the
  job's input (`Accounted`), that what was delivered is in the rows or the archive (`Carried`); and the order of manifest and ledger (`Ordered`).
  A second worker makes `Fresh` false, which is what `ingest_race` shows. TLC checked `SoloInv` on the instance of `ingest` first.
- *Recommendation.* `PortfolioByDefinition` defines the portfolio without the loop: a row is in it exactly if the
  better rows in it leave room in its market and in total. `Loop` is the loop's invariant: of the rows looked at, exactly those are
  picked for which that holds, every row left is worse than every one looked at, and there is still room. For the weights: shares over a common
  denominator sum to one, each rounding adds at most half a millionth, and rounding is monotone. "Every selected row gets
  something" needs `FineGrained`: `max_volatility`, in units of 0.01, times `max_positions` is at most two million (200 with the
  code's defaults); without such a limit `round(w, 6)` can be zero.
- *Sums and products over sets.* `MapThenSumSet` is a recursion over subsets. The provers cannot use an induction theorem,
  so each fact about all subsets of a finite set is an argument about a minimal subset on which it fails (`MinimalSubset`, from the
  library's `WFMin`); `FoldExists` then gives a fold that may take the elements in any order.

`FactorAssumption` (`Score`, `Confidence` and `Volatility` are numbers) and the finiteness of `Ids`, `Symbols`, `Securities` and `Dates` are assumptions
of the models that these proofs use: Python's dictionaries and tables are finite, and `_number` returns a number.
- *Secret store.* With one writer there is at most one file, and `SInv` says that the table the writer has
  downloaded is still the one in the file when it is about to write (`Fresh`), so replacing the whole file changes one
  entry. `known` then follows the writes that took effect. A second writer makes `Fresh` false.
- *Plugin host.* `Auth` says, for each place of a call, which facts are already in `window`. For one administrator, `CInv`
  relates the registry to the one before the operation (`Grown`: it is the same, plus own skills nobody had), and the
  record's state to the place (`Course`); the except block then removes exactly what was added.

Every invariant and every action property of a passing run is stated by a theorem. Only model-checked: liveness (`LockComesFree`,
`JobsEnd`), as the prover does not handle fairness; and the three violations, which are counterexamples. The solo theorems
are proved for any number of the other parties (readers, requests, orders) and need their `One...` hypothesis: section 7
lists what happens without it.

## 6. Findings

1. **An order sent twice at once is settled twice** (`gateway_race`, `execution.py:146`). The docs promise
   idempotent client order ids; look-up, submission, matching and recording hold no lock.
2. **A killed run is marked completed** (`daily_marker`, `run_manifest.py:119`). The manifest starts with the
   status of ingestion and each stage persists it.
3. **A publisher erases another's rows** (`ingest_race`, `market_dataset.py:155`). A comment promises that a
   refresh cannot do so; the read-modify-write has no precondition.

## 7. Observations without a run

Behaviour a reader of the code should know of, met while modelling it; no property is claimed about it.

- One order approval lets several orders through within its lifetime: `require` does not use it up
  (`security/live_approval_gate.py:52`).
- The lease is never renewed: a job that outlasts it and the next scheduler's job run at once (`locking.py:37`).
  `LeaseExcludes` is about runs inside their lease.
- A preview neither expires nor is used up, and one made in a paper mode may be submitted in REAL_LIVE; the guards
  are all asked again then.
- A demotion or a trip of the breaker between the checks of a live call and its POST does not
  stop the order; `GuardedSend` is the strongest statement that holds.
- A live order whose answer was lost and that is sent again is a second order for the broker.
- Two request threads can leave an injected token in the shared adapter, or use each other's
  credentials: the solo theorems need `OneThread`.
- A row that is already at its target weight is recorded as `PREFLIGHT_REJECTED`.
- A position in a symbol that is not selected today has no price, and stops the whole batch.
- `daily_pnl` is never written, so the daily loss limit cannot trigger.
- With the defaults `max_retries = 3` and `max_attempts = 3` the retry service skips every failure
  of the pipeline.
- A run that fails between `manifest.json` and `failures.jsonl` leaves its failures recorded nowhere.
- Two Drive clients that find no folder or file of a name both create it (`data_lake.py:104`). A run
  without rows reports the filter statistics of the run before (`recommendation_pipeline.py:287`).
- Two processes that write secrets at once lose an update, bring a revoked secret back, or create two files:
  the theorems need `OneWriter`.
- A write of secrets that the client gave up on after 15 seconds (`secrets/drive_store.py:74`) may still reach Drive. If
  that is after a newer write, it puts the whole older table back. The model assumes that Drive applies a
  write before the call ends or never, and `AcknowledgedKept` rests on it.
- A handler stays bound when its skill is unregistered, and runs again when another plugin registers the id.
- A rollback leaves the registry with the newer version's skills, and never shortens its history.
- `register_verified` registers skills of a plugin that is only installed, or disabled; `PluginBacktestRunner` checks no
  owner; `submit_paper_order` checks no plugin state.
- A disabled plugin cannot be installed again: `add` raises, and the manager has no way to remove it.
- Two administrators: a disable can be lost against a registration that has already checked the record; the
  theorems need `OneAdmin`.

## 8. Not modelled

- Plugin packages, sandbox, container, loader, audit log, `PluginRegistry` and the secret allow-list: subprocesses, file checks
  and parsing, whose result is success or an error of `PluginHost`, or tables that no step of it reads.
- The cipher of the secret store; environment secrets; the retry queue, which no module uses.
- Providers, adapters of outside formats, HTTP parsing and tokens of the internal API: input and output.
- Time and KPI triggers of the environment: they give advice, and no code acts on it.
- Command lines, deployment settings, the demonstration orchestrators: wiring and samples.
- Factor arithmetic, backtests, analytics, position sizing: floating-point functions without state.
- `submit_typed_order`, the reflection stage of the daily job,
  `DailyPriceIngestionService`, `write_run_stage`, `RecommendationPipeline.run`, amounts of PnL.

## 9. Plan

Order of work, most important first; 1 to 9 are done.

1. `PaperGateway` with `MatchingMath` and `AtomicDesk`; proofs for any and for one caller; refinement.
2. `LiveDesk`; proofs.
3. `DailyRunner`; proofs.
4. `DailyRun` with `PortfolioRisk`; proofs.
5. `MarketIngest` and `Recommendation`; runs.
6. `SecretStore` with `SecretVault`; proofs; refinement.
7. `PluginHost`; proofs for any and for one administrator.
8. Previews and the KB adapter in `LiveDesk`; proofs.
9. Proofs about `MarketIngest`, `Recommendation`, the amounts of `DailyRun` and the positions of `PaperGateway`.
10. The ledger across interrupted runs; a second run on one recommendation pipeline.
11. A composition of `DailyRunner` with two overlapping `DailyRun`s on one storage.

## 10. How to run

    tlc -workers 2 -config PaperGateway_solo.cfg MCPaperGateway
    tlapm PaperGatewayProofs.tla
