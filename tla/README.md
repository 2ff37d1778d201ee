# Verification of the Hearthstone data API

TLA+ models, TLC runs and TLAPS proofs for the Python service under `src/app`,
which scrapes some seventy Hearthstone statistics sources, validates each
candidate dataset, publishes it or keeps the last known good one, and serves the
result over REST and GraphQL.

## 1. Inventory

| part | state | operations | talks to | model |
|---|---|---|---|---|
| **Recovery policy** `convergence_policy.py` | none | `decide_recovery` | planner, worker | `RecoveryPolicy` |
| **Convergence ledger** `convergence_store.py` | tables `convergence_chains`, `..._chain_sources`, `convergence_attempts`, planner cursor | `create_or_get_chain`, `reconcile_fresh_primary_outcomes`, `claim_due`, `has_due`, `finish_attempt`, `advance_planner_cursor` | SQLite shared with telemetry | `ConvergenceStore` |
| **Convergence worker** `convergence_worker.py` | one oneshot process: the claim it holds | three lanes of `run_once` | ledger, executors | `Convergence` |
| **Convergence planner** `convergence_planner.py` | one oneshot process | `plan_once` | telemetry (reads), ledger (writes) | `ConvergencePlanner` |
| **Executors** `convergence_executor.py`, `_candidate.py`, `_probes.py` | none | enqueue and poll a parser run; direct refresh; upstream probe | parser control over HTTP, fetcher | inside `Convergence` |
| **Parser control** `parser_control.py` | a JSON state file: policy, sections, runs, orchestrator requests; one worker thread | `enqueue_run`, `claim_next_run`, `record_run_result`, `finish_run`, `recover_interrupted_runs`, policy and section updates | fetcher, orchestrator, panel | `ParserControl`, `RunQueue`, policy in `EarlyPublication` |
| **Publication store** `dataset_publication_store.py` | attempt file, immutable versions, manifest, mutable status and cache of the standard cards | begin attempt, promote, roll back, reconcile, record status | fetcher, `main.py` | `Publication` |
| **Fetcher, publication gate** `fetcher.py`, `publish_gate.py`, `post_patch_policy.py` | candidate, stable and dated baselines, status of a source | `fetch_source`, `_save_dataset_with_checks`, `_save_failure_status` | storage, policy, telemetry | `EarlyPublication`, callers in `Publication` |
| **Schedule ledger** `schedule_ledger.py` | coverage state, one row per source of an occurrence | materialize, reconcile, claim | telemetry, planner | `ScheduleLedger` |
| **Paid requests** `brightdata_state.py`, `brightdata_backend.py` | monthly ledger of requests, reservations, circuit breaker | `reserve_request`, `finish_request`, sweep, rollover | scrapers | `PaidRequests` |
| **Telemetry** `reliability_telemetry.py` | `source_attempts` | record attempt, reports | planner, ledger | `Record` of the planner |
| **Storage** `storage.py`, `db.py` | a JSON file and a SQLite row per dataset; baselines | write, save, load | fetcher, API | writes of `EarlyPublication` |
| **Job progress** `job_run.py` | a run's slices and its snapshot file | start/finish slice, heartbeat, persist | long scrapers | |
| **Locks and caches** `resource_locks.py`, `stale_while_revalidate.py` | flocks; a cached build and its refresh | acquire/release; get, refresh, reset | scrapers; API handlers | |
| **Key pools** `scrapfly_keys.py`, `firecrawl_keys.py` | credits and leases per account in a state file | acquire, record, mark exhausted, period reset | transports | |
| API, GraphQL, CLI, scrapers, panels, SDKs, WordPress plugin, Trigger.dev client, SQL platform | none of their own, or data | | | |

How they interact. Timers start the planner every five minutes and the
convergence worker every minute, each a fresh container; both open the same SQLite
file, and every store operation is one `BEGIN IMMEDIATE` transaction. The worker's
paid lane calls parser control over HTTP, in the API process, which runs the
scrapers in one thread; a scraper may send paid requests, its result passes the
publication gate, and the outcome goes to telemetry, where the planner finds the
failures. Timers also claim occurrences of the schedule ledger, whose rows tell
the planner which refreshes are missing. Nothing is held in memory between runs
except by parser control.

What is hard here: claims, reports and sweeps of several processes interleave;
a process may be killed between any two durable writes; a call takes its moment
before it waits for a lock, so moments arrive out of order; leases, deadlines,
backoffs and attempt budgets meet at the same row; a report may come after its
claim was taken back, under the *same* owner name (`convergence-worker-<pid>`, and
the pid is the same in every container); the policy a refresh has captured may be
replaced or expire while it works; a reader combines several files. `PROJECT.json`
lists each hazard at its line.

What makes the parts correct:

* ledger and worker: one run of a chain at a time; only the current claim
  decides; no chain is lost, retried beyond its budget or closed as fresh without
  evidence; every chain ends; the paid total is what the attempts paid.
* planner: no recorded failure is skipped by the cursor, no schedule slot falls
  between the two scans, a restart opens nothing twice.
* parser control: accepted runs finish, one fetch of a source at a time, a
  repeated request gets the same run, a dependency's result is not lost.
* publication store: the manifest never names a missing file, only the newest
  attempt moves it, a refresh never goes back in time, reports in any order leave
  one consistent status.
* early publication: a provisional snapshot never loses or shrinks what is public
  outside early mode, and no reader sees something older.
* schedule ledger: what counts as covered has its rows, what was due stays as it
  was decided.
* paid requests: the requests reserved in a month cost no more than its limit,
  whatever dies, and all charges no more than the limit times the months (a single
  month's charges may, section 6); a failing provider meets no burst.

## 2. Modules

| module | models |
|---|---|
| `RecoveryPolicy` | `decide_recovery` as the function `Decide`; an action's delays as the constant sequence `DelaysOf[action]`, its length the budget |
| `ConvergenceStore` | the two tables and each operation of the store, one transaction one step |
| `Convergence` | workers, planner writes, primary refreshes, clock and kills around the store; all properties |
| `FencedRecovery` | abstract specification: a recovery item is granted with a fence number, only the current grant decides |
| `ConvergencePlanner` | one pass of `plan_once` step by step, on the same ledger |
| `ParserControl` | the run queue of `parser_control.py`, its handlers and its worker thread |
| `RunQueue` | abstract specification: runs are answered in the order of their acceptance, each once |
| `Publication` | the durable publication channel of the standard cards, with the refresh, the rollback and the startup repair that write to it |
| `PublishedPointer` | abstract specification: only the holder of the newest number moves a pointer, whose data is there |
| `EarlyPublication` | one source's candidate, baselines and status under a publication policy that changes, and a reader |
| `ScheduleLedger` | reconciles and claims of the ledger of expected refreshes |
| `PaidRequests` | the Bright Data ledger and the requests through it |
| `MC...` | the instances TLC checks |
| `ConvergenceProofs`, `ConvergenceSafetyProofs`, `ConvergencePlannerProofs`, `ParserControlProofs`, `PublicationProofs`, `EarlyPublicationProofs`, `ScheduleLedgerProofs`, `PaidRequestsProofs` | theorems about the module in their name |

### Convergence

`chain[c]` is a row of `convergence_chains` joined with its sources; `state`
`"absent"` is "no row", `next` is `next_attempt_at`, `until` is `lease_until`,
`index` is `attempt_index`. A row of `convergence_attempts` is a record of the
set `attempts`; `reason` keeps the two ways it ends, swept or reported. Reason
codes and outcomes keep the source's labels; identifiers, digests and run
telemetry are left out.

`worker[w]` is one run of the oneshot, `pc` its place in `main`: the three lanes
in order, the `has_due` gate before the paid one, then executing and reporting.
`moment` is the time `run_once` took before the claim, which it also passes as
`finished_at`. The code takes it (`convergence_worker.py:167`) just before the
transaction of the claim, the model in the same step: the wait for the lock between
the two, a busy timeout at most, is left out. Executing and reporting are separate steps, so time, sweeps,
other workers and kills come in between. `Execute` covers any per-source
results; `ExecuteRaises` covers every exception of the executor and the
`failed/dependency` class of an incomplete result set, with usage reported as 0.

`Publish`, `Plan` and `Reconcile` are the rest of the system as the ledger sees
it; a plan's event may be up to `MaxLag` old. Two workers at once are possible
although the unit is a oneshot: a manual run, or a container that outlives its
unit (the unit file says so).

An execution of unbounded length over-approximates the code for safety. In the
paid lane the code's own bounds (20 minutes of polling, a 25-minute lease, a
25-minute unit) make a late report improbable; in the candidate lane the lease
is 10 minutes and nothing but the unit bounds the execution.

`FencedRecovery` is what this promises without clocks, leases or tables. The
mapping is direct: the chain's state is the phase, `attempt_index` is the fence,
the claim a worker holds is its grant. The code has no fence column: it compares
owner names and lease columns, and that this amounts to a fence is what the
refinement says.

### Planner

`ConvergencePlanner` opens up what `Convergence` has as `Plan`. `pass[p]` is one
run of `plan_once`: `moment` its `now`, `from` the position it reads after, `rows`
the batch and `left` what is not planned of it, `slots` the missing slots. The
cursor, the events and the slots are three reads, every row is a transaction of
its own, the cursor moves last; refreshes record attempts, other passes run and a
kill may strike in between. `Record` is `record_terminal_results`, many rows under
one `finished_at`; a telemetry write that fails is swallowed by the code and is
simply no `Record`. Attempt ids are hashes, so any order of them is possible.
`passedOver` is a history variable: the attempts committed at or behind the cursor,
a pass's position or its batch (their `finished_at` is older than a row already
read), and those older than the first pass's 24 hours. The code never looks at
them again; the window between taking `finished_at` and the commit is a busy wait
of SQLite at most, and the properties say what holds apart from it. The worker is
left out here: it never removes a chain or a source of one.

### Parser control

`ParserControl` numbers runs in the order of the list. Every store operation
holds the file lock and replaces the file whole, so it is one step; `Retained(i)`
is "run `i` is in the list", `Active(i)` "and it is queued or running". `Accept`
is the common end of `enqueue_run`, `StartAfter` the call of `start` that follows
it in the handler. `worker` is the thread: `down` no process, `off` a process whose
`start` could not read the file, `idle` the loop, `claimed` to `recording` the
steps of `process_next` with what it has in memory (`todo` results to record,
`left` sources to fetch). The two reads of the file in it that see only what the
thread itself wrote are part of the step before or after. `Summarize` keeps of a
result what later steps look at; `Resummarize` is the same function applied to a
stored summary, which has lost three flags. A scraper may return any result of
`FetchResults` or raise. `StorageError` is an access to the file that fails
inside `process_next`, `Restart` a stop of the API process at any point.
Orders the code fixes and nothing depends on (sources of a run are copied and
fetched in list order) are left open. Sections, the snapshot view and the
truncation of the request ledger at 1000 entries are left out.

`RunQueue` is what those who enqueue runs may think of: a first-in first-out
queue. The code has no such queue. It looks for the first queued run whose
dependencies have ended, in a list that drops its oldest entries, and after a
restart resumes at whatever is marked as running. The mapping takes the verdict of
a run from its status and what is being served from the thread, so a run marked
as running without a thread is one not being served. The refinement holds while
the file can be read and written (`MaxFaults = 0`): after a failed access the
thread goes on to the next run and leaves the failed one behind, until a restart.

### Publication store

`attempts` is the attempt file with the last generation, `version[v]` the
immutable file of the dataset fetched at `v`, `manifest` the pointer and the
versions it keeps, `status` and `cache` the mutable files that the API reads.
`proc[p]` is a process inside one call; its `pc` names the next durable write or
transaction. `lock` is the advisory lock across processes: a transaction with one
write is one step, one with several holds the lock from its first write on, and
`Kill` between them frees it, as the kernel does.

* `StartRefresh`, `Begin`, `Fetched`, `Publish`, `WriteManifest`, `Prune`,
  `Report`, `WriteStatus` are a refresh: `fetched_at`, the generation, the scrape,
  `validate_and_publish_standard_cards_candidate` and `promote_candidate`, then
  `reconcile_current_publication`. Whether a candidate passes the validators is
  left open, so a rejection is always possible.
* `SkipSource` is a source reported without an attempt, because the proxy was out of
  credit before its fetch or is found to be during it; `Record` the status of a
  cold failure, `Rollback` the administrator's transaction.
* `BootCheck`, `BootPointer`, `BootScan`, `BootCurrent` are
  `bootstrap_standard_cards_publication`: four transactions, each on what the
  earlier ones have read.
* `WriteFails`, the failing alternatives of `SyncCache` and `WriteStatus`, and
  `Damage` are the faults.

`given` is a history variable, the highest generation ever handed out. When the
attempt file is lost, `begin_publication_attempt` continues from the time in
nanoseconds; the model continues from `given`, which is what "later than any
attempt under way" means. It can tell a lost file from a cold store only by the
recovery flag, the status or the manifest
(`dataset_publication_store.py:360-367`), so `Damage` leaves at least one of them
(`Evidence`). It so excludes two cases, in which the code starts at 1 again and an
attempt under way may then equal a new one: all three disappear at once, or the
attempt file does alone on a store that has no manifest and no status yet. That is a
limit of the code, described in section 6.

Left out: the schema-1 manifest (read once, on migration), the candidate file
(written and read under one lock), the quarantine (nothing reads it back), the
repair of an immutable file by identical content, and the rule on versions dated
in the future.

`PublishedPointer` is what the store promises: writers take numbers, only the holder
of the last one stores and moves, and only once, a refused rollback still overtakes
what is under way, and the versions named by the pointer or the history have
their data until a fault takes it. The mapping: the last number is `given`, a
process holds its number from `begin_publication_attempt` to the pointer's move
(`Ticket`), the pointer and the history are those of a readable manifest, the data
are the intact immutable files. The code has no such token: it compares the
number with a file that may have been lost and found again, and unlinks files by
what the manifest names. The abstract `faults` are those of the model, so a kill, a
cleanup or a second writer has to do without.

### Early publication

`candidate` is the dataset file, `stable` and `dated` the two baselines, `status`
the status file; a dataset is its `at` (fetched_at), its number of rows, and
whether it is provisional and of which early window. `run` is the one refresh that
the source lock admits: `Start` captures the policy, `Fetch` is the scrape with the
validation under that policy, `Check` is `_save_dataset_with_checks` up to its
first write (policy changed, regression gate, confirmation by two observations),
and `SaveBaseline`, `SaveDated`, `SaveDataset`, `SaveStatus` are its writes in
their order, with `Kill` between any two. `Fail` is `_save_failure_status` with the
resolution of what is public. `UpdatePolicy` may replace the policy at any time and
`Tick` lets it expire. `reader` is any consumer of `load_resolved_public_dataset`:
its three reads are three steps. `newest` is a history variable, the last dataset
saved as fully valid.

The schema, freshness and content rules of the validators are one row floor here
(strict or early), since only that distinguishes the channels. Left out: the
bypass of the gate when a source's URL changed, the reset of a pool, the secondary
counts of the gate (it compares filled fields as well), the firestone collections,
the policy given by the environment, the AI review, and the SQLite copy.

### Schedule ledger

`led` is the row of `schedule_ledger_state`, `rows` the table
`schedule_source_windows`. A schedule is its sources, the times that
`enumerate_nominal_occurrences` finds, and the publication mode it needs; local
time and daylight saving only decide what the times are. `Begin` takes the moment
of a reconcile, `Materialize` is its transaction, up to `MaxWait` (the busy timeout)
later, `Abandon` a timeout or a kill. The cohort hash is represented by what is
hashed, the switches and the start of coverage, so two cohorts are equal exactly
when their hashes are. `Claim` is `claim_occurrence`, with a moment that may be
older than the step; its two reads (the time, then the sources of its rows) have no
transaction around them and are one step here, and a claim is of a row whose
sources are then complete. `claims` is a history variable, since the code does not
write a claim anywhere.

### Paid requests

`ledger` is the state file. `req[r]` is one call of `scrape_html`: `Ask` takes the
moment before the lock, `Reserve` is `reserve_request` with its rollover, its sweep
of expired reservations and its circuit breaker, `Send` the request, `Report` and
`Finish` the answer. What the provider charges (`cost`) and what the response says
of it (`known`) are separate: a response may leave it unknown, and a process may
die before or after the charge. `Unavailable` covers the calls that find a ledger
of a later month or whose reservation has expired. `SpentOnReserved(p)` counts a
charge in the month `p` of its reservation, `TotalCap` counts all of them. Left out: the configuration
changing under open requests, a corrupt file (every call then refuses), and
`open_until` empty while the failures have reached the threshold, which no
sequence of calls produces.

## 3. Runs

| run | asks |
|---|---|
| `two_workers` | two workers with one owner name, a lease of 2, a deadline at 4, one kill, paid executions: type, running attempt, refusals, paid totals, only the current claim decides, settled stays settled, and the ledger implements `FencedRecovery` |
| `lanes_and_budgets` | two sources in one chain, eligible in different lanes, four results, one kill: `has_due` answers as `claim_due` claims, budgets of alternating actions, fresh only on evidence |
| `convergence_live` | two chains, one worker at a time: every chain ends; primary success of all sources ends it fresh |
| `planner_passes` | two sources whose attempts tie, skip, fail and come late, a batch of one row, one killed pass: nothing is lost behind the cursor, every failure gets into a chain, every schedule slot is refreshed or recovered |
| `parser_queue` | panel runs and an orchestrator request over two sources, a restart, a failed access: no source is fetched by two accepted runs, queued runs do not wait in a circle, the thread's memory agrees with the file, finished runs stay and are complete |
| `parser_live` | five runs, a list of three, two pending, a restart: the list drops only what nothing unfinished needs, the store with its thread implements `RunQueue`, every accepted run finishes |
| `publication` | two processes refresh, roll back, repair and report over three versions, with a kill, a damaged file or a failed write, a start of the API: files of the manifest, newest attempt, order in time, status, agreement at rest, and the store implements `PublishedPointer` |
| `early_publication` | three sizes of dataset, two policy updates and an expiry, one kill, a reader: the stable channel keeps the last fully valid dataset, answers are current, what is public shrinks in a window only when confirmed |
| `schedule_ledger` | two reconciles, two schedules, two changes of switches or policy, a coverage gap: coverage complete, claimed rows kept, due rows unchanged |
| `paid_requests` | three requests against a limit of two over the turn of a month, one kill: the cap by month of reservation, the cover of the ledger, expiry, no burst |
| `merged_source`, `startup_repair` | expected violations: the disagreements of section 6 |

Bounds of the convergence runs: `MaxTime` bounds the clock, `PlanUntil` the
planner's openings, `MaxLag` the age of an event, `MaxSpend` the paid requests of
one execution, `MaxCrashes` the kills. Delays are 1 and 2 units, the lease 2 (1 for
probes), deadlines 3 to 5: so a lease expires before the deadline and a deadline
under a live lease, the first retry and the last one are reached, and the deadline
refuses a retry that the budget would allow. A third worker, chain or source adds
no new pair of conflicting transactions: the store's operations touch one chain
each, except the sweep, which treats every chain alike, and the ordering, which
compares two.

Planner: the batch limit is 500 in the code and 1 here, so one refresh of two
sources fills a batch in the middle of a tie; `Lookback` 1 against `MaxTime` 3 lets
an attempt be too old for the first pass; `MaxLag` 1 lets it be committed behind a
scan. The one slot's deadline is the last instant, so it never leaves the
lookback. `SlotsAreSettled` is checked where the missing slots fit the limit. In
the code they need not: the tracked schedules have about 1200 slots a day, the scan
takes the 500 oldest of the last 24 hours in every pass, and in an outage of most
of a day the newest wait for the oldest to age out. One pass at a time here;
overlapping passes are in the theorem.

Parser runs: the code keeps 50 runs and lets 20 be pending; the instances keep
the relation that matters, `MaxRecent + 1 >= 2 * MaxPending`, with 3 and 2 (4 in
`parser_queue`, where nothing is dropped: after a storage error a run that is stuck
in `running` may be dropped unfinished, see section 6). `MaxRuns` is larger than the
list where dropping is the question; two sources give overlapping, disjoint and
covering selections. With one request and two pending runs a dependency of a
dependency does not occur in `parser_queue`; that chains of any length never wait in
a circle is the theorem `QueueMoves`. The thread's agreement with the file
(`ThreadMatchesRun`) means that no source with a *recorded* result is fetched again: one
fetched but not recorded when the process was killed is. `FetchResults` is
empty where only failures are needed because results do not steer the queue.

Publication: three versions are what is published, what overtakes it and what a
repair finds; retention 2 makes every third promotion prune; one rollback, one
startup, one fault and one kill each, anywhere, over two processes, which are
interchangeable (symmetry). A third process holds the same lock. `QuietAgreement`
is stated where nothing was killed, damaged or repaired: after a failed write the
cache and the status differ until the next report, by design, and the repair
publishes without a report.

Early publication: sizes 1, 2 and 6 are below the strict floor, at it, and so large
that 2 is a collapse (the gate keeps seven tenths from two rows on); two
observations 2 apart fit into a window, and time 7 leaves room for a stable
refresh before and after it.

Schedule ledger: a horizon of 3 in a time of 5, so a pause of the service makes a
gap; one schedule for two sources at every second tick, one that needs the early
mode; a moment may be 2 old, less than the horizon (10 seconds against 48 hours in
the code).

Paid requests: the limit is lower than the number of requests, a period of 3 in a
time of 4 has one turn of the month, a reservation expires after 2, so both before
and after the turn; the circuit opens after two failures and closes after 1.

`TypeOK` of the planner, the parser queue, the publication store, early publication
and paid requests is a theorem (section 4) and in no run.

No deadlock check where the environment may stop for good: the parser queue may
stay empty (that a queue with something in it can move is `NoDeadlock`), and `Publication`, `EarlyPublication`, `ScheduleLedger` and
`PaidRequests` end when the bounds on fetches, calls or time are used up. It is
checked in every run of `MCConvergence` and in `planner_passes`: a worker or a
pass can always start again, so a state without a successor would be an error of
the model.

Fairness. `convergence_live`: the clock (`Tick`); `Reconcile`, since the planner's
timer fires every five minutes and ends every pass with it; each worker's next
step, since its timer fires every minute and every call it makes is bounded.
`planner_passes` assumes the same of a pass's next step and of the clock.
`parser_live` assumes that the worker's next step is taken (`WF_vars(WorkerStep)`):
the container restarts the process, `start` is called on startup, the loop waits at
most 30 seconds, a fetch has its own timeouts. No fairness is assumed of
publication, planning, enqueueing or of a result being good, and `WF` of `Tick` ends
at `MaxTime`, which lies after every deadline. The other models have no liveness
property: what they do next is up to their callers, and every call ends by itself.

## 4. Proofs

Every theorem is for every value of the constants that satisfies the module's
named assumption, which TLC evaluates in each run.

**`ConvergenceProofs`**: for every set of chains, sources, workers and owner names
(also shared ones) and every delay table, `Spec => []TypeOK`, `[]LeaseColumns`,
`[]RunningAttempt`. They follow from the inductive invariant `IInv`. Typing alone is
not inductive: a report reads the attempt row of its claim, so that row must exist
(`ClaimsRecorded`), and the number of attempts indexes the delays, so it must be
finite. `RunningAttempt` needs that a claim's row is unique (`AttemptNumbers`),
because `finish_attempt` changes one row and the row it changes must be the one
that was running; and it needs `LeaseColumns`, because the code compares owners,
which may be equal for two workers. The lemmas go operation by operation (sweep,
claim, report, reconcile, open), then step by step.

**`ConvergenceSafetyProofs`** builds on that invariant:

* `Refinement`: the ledger with its workers implements `FencedRecovery`, step by
  step. The point of the proof is the report: a report that is accepted has the
  chain's current attempt number, although the code compares names and leases. A
  sweep in the same transaction may withdraw any number of grants first, which is
  why the abstract `Grant` and `Improve` allow it.
* `CurrentDecides` and `SettledRemain`, the two action properties.
* `HasDueClaims`: the two queries agree in every lane.
* `RefusedPastDeadline` and `FreshNeedsEvidence` need to know what a report rests
  on until it is made. `RInv` adds that: the paid flag of a chain goes with the
  transport action (`PaidColumn`), the action of a running chain is that of its
  running attempt (`RunningActions`), the lease lies after the moment of the claim
  (`LeaseAhead`), a verdict of complete means fresh results of all claimed sources
  since the claim and paid usage a transport claim (`ReportOK`).
* `BudgetsKept`: no action of a chain is taken more often than its maximum. The
  strengthening `Budgets` distinguishes where the chain is: an open chain has taken
  its next action less often than the maximum (the running attempt apart), every
  other action at most as often. Cardinalities only change by one row at a time,
  which the counting lemmas state.

* `ClaimsAreDistinct`: two runs never hold the same attempt of a chain, although
  their workers may have the same owner name.
* `AccountsBalance`: the paid total of a chain is what its attempt rows say, and
  no more than was spent. The sum is the number of units, the pairs of a row and
  a number up to its `paid` (`PaidUnits`), so that it needs no recursion and the
  library's theorems about cardinalities apply. Each operation that rewrites rows is shown to
  keep the units of every chain apart from the one row that a report fills in.
  That the total stays below what was spent is not inductive: the
  invariant `PInv` adds that what the run of a running attempt is about to report
  still fits below what was spent (`Reserve`), and that a running attempt has
  recorded nothing yet. A late report that finds its attempt swept changes
  nothing, so what it spent stays unrecorded: hence "no more than".

**`ConvergencePlannerProofs`**: for any number of overlapping passes, any batch
limit, lookback and lag, `[]TypeOK` and `[]CursorCovers`. `CursorCovers` speaks of
the cursor only and is not inductive: the cursor moves to the last row of a batch
read several steps before. `IInv` says for each pass that what lies at or before
its position is planned (`FromCovers`), and what lies at or before a row of its
batch is planned or still to be (`RowsCover`). The scan establishes the second
because a batch is a prefix of what it saw (`BatchIsPrefix`, a counting argument on
the limit), and only because it starts where the first holds; the chains keep what
is planned because `INSERT OR IGNORE` only adds sources (`OpenFacts`). Two passes
need no more than this: the invariant of one does not mention the other.

**`ParserControlProofs`**: for every set of sources, requests, selections and
scraper results and any number of runs, restarts and storage errors, `[]TypeOK`,
`[]OneFetcher`, `[]TerminalComplete`, `[]NoDeadlock` and `TerminalStays`. `OneFetcher` needs that a
row's `executionSourceIds` are among its sources (`RowShape`), so that `Busy` and
`Covering` see them. `TerminalComplete` needs to know what the thread has still
ahead of it (`ThreadHolds`): a source without a result is in its memory or in its
list, from the copying of dependencies to the finish, also across a restart,
because `Resume` computes the list anew. One lemma covers all handlers (a new row
at most, and `start`), one all steps of the thread (a row only progresses).

`QueueMoves` states `NoDeadlock` of runs with any faults: since a run waits only
for runs accepted before it (`OlderOnly`), the oldest queued run is ready when none
is running.

`ThreadAgrees` is `ThreadMatchesRun` with any faults, as long as the list still has
the thread's run. It needs, besides `IInv`, that what is in memory has no result
in the file (`InMemory`), also after a failed write between two steps. The run is
in the list when no run is ever dropped, as in `parser_queue`
(`ThreadAgreesInList`), and when no access fails (`ThreadAlwaysAgrees`, below).

The section on the list that drops its oldest runs is for any limits with the
code's relation between them, and assumes that no access to the file fails (after
a failure a stuck run may indeed be dropped): `NeededIsKept` and
`ThreadAlwaysAgrees`. The invariant `InOrder` says that the thread takes the runs
in the order of the list (`ClaimOldest`: the oldest unfinished run is always ready,
because what it waits for is older), so all unfinished runs are among the newest
`MaxPending`, and that a run waits only for runs that were pending with it when it
was accepted. Hence a needed run is at most `2 * MaxPending - 2` back. That there
are no gaps among the pending makes the count a distance (`RoomMeansNear`).

`Refinement` rests on the same invariant: every step of the store and the thread
is a step of `RunQueue` or none. The steps to look at are the claim, which must
take the oldest run without a verdict although the code looks for a *ready* one;
the finish, which must give the served run its verdict and no other; and the
restart, after which a run marked as running is the next to be served.

**`PublicationProofs`**: for any number of processes, versions, faults and kills and
any retention of at least 2, `[]TypeOK`, `[]KeptHaveFiles`, `NewestAttemptDecides`,
`RefreshNeverGoesBack`, `StatusOnlyAdvances`, `[]QuietAgreement`. The invariant adds that the recorded
generation is the newest when there is one (`AttemptIsNewest`, with `Evidence`), and
for each process between two durable writes that it holds the lock and that what
it checked before the first write still holds (`ProcOK`): its attempt is the newest
and its file is there. A kill drops the lock and leaves nothing that the next
transaction relies on.

`QuietAgreement` speaks of a moment at which nobody is inside a call; the second
invariant (`QInv`) says what holds on the way there, while nothing was killed,
refused, damaged or repaired. Cache and status are written after the pointer,
each in its own step, and the reports of overlapping refreshes may be made in any
order, so at most moments the three differ. Then some process still owes the rest
(`Owes`): the one that has moved the pointer and has not reported, or one that follows it. Every report, also that of a failed or older
attempt, writes the cache of the pointer as it is then and names it in the status,
under the lock from the first to the second write.

`Refinement` maps every step to a step of `PublishedPointer` or to none, with faults
and kills. The steps to look at are the promotion (what was checked in `Publish` is
used in `WriteManifest`, after another durable write: `ProcOK`), the new history,
which must name intact files only, and the cleanup, which may unlink nothing that
the history names.

**`EarlyPublicationProofs`**: for any sizes, floors, gate and number of policy
updates and kills, `[]StableChannelIsNewest`, `[]AnswersAreCurrent`,
`ShrinkIsConfirmed`. The invariant says where the last fully valid dataset is at
each step of the writes (`ChannelOK`, `ReplaceOK`: an early snapshot replaces it
only after it was put into the stable channel), what a reader between two reads may
rely on (`ReaderOK`), and that a run past its check has been vetted against what is
public now, not only against what it saw (`Vetted`).

**`ScheduleLedgerProofs`**: for any schedules, horizon and number of processes with
`MaxWait < Horizon`, `[]TypeOK`, `[]CoverageComplete`, `[]ClaimsKeepRows`,
`OldRowsStay`. The invariant adds that no row lies at or behind the end of coverage
(`RowsBelow`), rows are nominal occurrences, moments are recent (`MomentsRecent`) and
claims are past (`ClaimsPast`); the assumption on `MaxWait` is used there: an old
moment never opens a gap that a newer one has closed.

**`PaidRequestsProofs`**: for any limit, threshold, cooldown, expiry and number of
requests and kills, `[]ReservationsCapped`, `[]TotalCap`, `[]LedgerCovers`,
`[]OnlyExpiryTakesAway`, `[]NoBurst`. The cap follows from an inequality that is
inductive: what was charged for the requests reserved in the ledger's period, apart
from the open reservations, is billed, and billed and reserved together stay within
the limit. For an earlier period it follows that what was reserved in it, charged or
still to be, was within the limit when the ledger rolled over, and since a
reservation with an old moment is refused, no more requests are reserved in it.
`TotalCap` adds up the months (`Before` in the invariant); it is in no run.

Only model-checked is liveness: `EventuallySettled`, `PrimaryCloses`,
`FailuresArePlanned`, `SlotsAreSettled`, `AcceptedRunsFinish`. The prover does not
reason about fairness. What they need of the state is proved where it can be stated
without it: a queue with something in it has a ready run (`QueueMoves`), the two
queries of the ledger agree (`HasDueClaims`), the cursor leaves no failure behind
(`NothingLostBehindCursor`). The two expected violations are counterexamples.

## 5. Plan

Done: ledger, worker, policy, planner, parser control, publication store, early
publication, schedule ledger, paid requests; the refinements of `FencedRecovery`,
`RunQueue` and `PublishedPointer`, and every safety property that a passing run
checks, as theorems (those of the run list under the conditions of section 4).

Left, in this order:

1. Planner, worker and schedule ledger on one ledger: a late failure that joins a
   chain opened for its slot, and rows of a cohort that ends while a chain is open.
2. The key pools (`scrapfly_keys.py`, `firecrawl_keys.py`) as a second, soft-limit
   variant of `PaidRequests`; `StaleWhileRevalidate` and `JobRun`.
3. An abstract specification of the paid requests (a budget that is reserved before
   it is spent) and of the schedule ledger (obligations that are fixed when due),
   and their refinements.

## 6. Disagreements found

With a run:

* `merged_source`: a source that fails later is merged into a chain that is
  already fresh; nothing recovers it, while the chain says fresh.
* `startup_repair`: the repair of the standard cards at startup decides that
  nothing healthy is published, scans for candidates and publishes in separate
  transactions; a refresh that publishes in between is replaced by something older
  (`main.py:408` passes its own `validated_previous`, so the store does not look
  again). The docstring says it never replaces a healthy publication.

Without a run of their own; each was met while translating the code:

* An executor that fails after spending is recorded as having spent nothing; the
  documentation says unknown cost never becomes zero
  (`convergence_worker.py:190`). The models keep it: `PaidAccounts` says "no more
  than was spent", not "exactly".
* The expired-lease check of `finish_attempt` never fires for the worker, because
  the report carries the time of its claim (`convergence_worker.py:205`); for the
  same reason a retry's delay runs from the claim, not from the finish that
  `test_convergence_store.py` uses. What does hold is `RefusedOnlyPastDeadline`.
* A provisional result that another run takes over is classified again from its
  summary, without its flag, and counts as fresh (`parser_control.py:1353`); it has
  also lost its paid usage, so a recovery that copies it fails for lack of exact
  usage.
* A recovery is answered with an active panel run of the same sources
  (`parser_control.py:1161`), which its executor then refuses.
* After a storage error in the middle of a run the run stays running, and its
  sources unavailable, until the process restarts (`parser_control.py:2199`).
* When the early window has ended, the regression gate compares a stable refresh
  with the provisional dataset that is still in the file (`fetcher.py:1852`), not
  with the stable baseline that is public; `docs/CURRENT_PATCH_REFRESH.md:41-43` and
  the docstring at `post_patch_policy.py:360` speak of the strict contract.
  `ShrinkIsConfirmed` is therefore about refreshes in the window.
* A policy that is switched between the check and the writes still lets the
  provisional dataset be saved; the resolution of what is public hides it. A new
  window also serves the early rows of an old one until its first refresh.
* A reconcile takes its moment before it waits for the database
  (`schedule_ledger.py:453`): a row that has become due meanwhile lies after that
  moment and may be deleted and decided again, while
  `tests/test_schedule_ledger.py:226` (`..._keeps_due_decision`) has moments in
  order. `OldRowsStay` is stated from the oldest running moment.
* The charges made within a month may exceed its limit. A request reserved before
  the turn of the month may be sent and charged after it, and `finish_request` bills it to
  the ledger it finds, without a rollover (`brightdata_state.py:479`). In the instance:
  two requests are reserved at 2, in month 0, sent and charged at 3, in month 1, and
  reported to the ledger, which is still of month 0; the third then rolls the ledger over,
  with nothing billed, and is charged at 3. The provider has charged three requests
  in month 1 against a limit of two. The comment at `brightdata_state.py:241-242`
  speaks of the hard monthly cap, `docs/SCRAPE_PROVIDERS.md:403` of a local ceiling of
  requests per UTC month. What does hold is `ReservationsCapped`, which counts a charge in
  the month of its reservation, and `TotalCap`, that late charges only use what an
  earlier month left unspent.
* Rows of the schedule ledger keep the publication mode they were inserted with,
  up to 48 hours ahead, because the mode is not part of the cohort hash. Two first
  reconciles that overlap insert rows before the start of coverage, although
  the docstring at line 298 speaks of no obligations before activation. An occurrence exactly at the start of a new
  cohort keeps its row of the old one.
* The numbering of publication attempts begins again at 1 when the attempt file,
  the manifest and the status are all lost at once, or the attempt file alone before
  the first manifest or status
  (`dataset_publication_store.py:366-367`), while an attempt may be under way; the
  comment there says that the clock never moves behind one.

## 7. Not modelled

* Parsing of sources, validators, reports and read-only API handlers are data
  without a protocol: most of the repository's lines. A validator appears only as
  the choice between a valid and an invalid candidate, or as a row floor.
* The key pools have soft limits, checked when a key is leased and charged when a
  request ends, so concurrent leases may overshoot; no property is promised.
* Job progress is written for display; nothing reads it back to decide. The
  in-process caches and Redis are best effort: a lost or stale entry costs time.
  The source lock is used as an assumption (one refresh of a source at a time).
* API token limits and the budget of meta intelligence are one transaction each
  and nothing follows from a refusal.
* Panels, SDKs, plugins and the orchestration client are users of the API; the
  client's repeated requests are `EnqueueRequest` and `RepeatRequest`.

`PROJECT.json` lists every component with its status, and the source lines of each
definition.
