# wallet-scan: a TLA+ verification project

`wallet-scan` is a Go program that reads native balances of public wallet addresses.
Its database mode scans imported addresses in checkpointed runs kept in PostgreSQL,
retries failed queries, cleans up empty addresses and reports positive balances over a
webhook; its service mode answers balance queries over HTTP behind an adaptive limiter.
This directory models the parts of it that are stateful and concurrent, checks them with
TLC on small instances, and proves the most important results with TLAPS for all sizes.
Paths and line numbers refer to the repository under `src/`.

## Inventory

| Component | State | Operations | Hard because |
| --- | --- | --- | --- |
| Durable scan (`scanner.go` `RunOnce`, `run`; `store.go`) | `scan_runs` (range, cursor, status, counters), locals of the process | resume or create a run, read a page, persist results, pause, checkpoint, complete | each statement is its own transaction; several processes; crashes between any two statements |
| Imports (`store.go` `insertAddressesWithIDs`) | `wallet_addresses`, the id sequence | insert rows, commit, roll back | ids are handed out at insertion and become visible at commit |
| Cleanup (`cleanup.go`) | reads three tables, deletes from `wallet_addresses` | delete one batch | infers "empty" from the absence of rows while scans and imports run |
| Batch workers (`scanner.go` `processBatch` to `checkWithRetry`) | channels, semaphores, attempts | feed, query with retries, collect | goroutines, two kinds of channels, cancellation |
| Health tracker (`health.go`) | failures, unhealthy, alertSent per chain | `Failure`, `Success`, `IsUnhealthy`, `TakeAlert` | separate critical sections called by all workers |
| Retry command (`main.go` `retryFailed`, `scanner.go` `RetryFailed`) | `retry_queue` | loop until no progress, query, resolve or put off | crash between resolving and saving; its queue is shared |
| Outbox (`outbox.go`, `store.go`) | `notification_events`, `positive_findings` | save finding with event, load, send, mark, drain | unreliable webhook, concurrent deliveries, stale messages |
| Adaptive limiter (`limiter.go`) | limits, slots and statistics, global and per chain | `Acquire`, `release`, `adjust` | polling clients, integer arithmetic on limits, feedback |
| Chain providers (`providers`) | none | one request, decode, classify errors | six formats of answers; what is not understood may pass for zero |
| Startup check (`startupcheck`) | `wallet_balance_checks` | insert four addresses, six concurrent queries, save each row | uses the limiter; must return before the server listens; single saves fail |
| Balance API (`httpserver`) | none besides the limiter | check the request, take a slot, query, answer | slots given back by hand on every path; clients go away; the process ends under running handlers |
| Balance client (`balanceclient`, `generate --scan`) | six results | six requests at once, one exit code | lost answers, timeouts, partial failure |
| CSV importer, configuration, wallet generation, command line | none | parse, validate, derive, print | mostly pure |

Interactions: all database-mode commands are separate processes that meet only in the
tables. Inside a scan process the loop of `run` calls `processBatch`, whose workers share
the semaphores and the health tracker; the results come back over a channel and are
persisted by one goroutine. Findings are saved together with an event, which the same
process tries to deliver at once; `retry-failed` drains what is left. Inside the service
the startup check and, once it has returned and the server listens, the HTTP handlers send
their queries through the same limiter; `generate --scan` is a client of that server.

What makes each part correct: a scan leaves no address of its range without an outcome on
record, counts each address once and ends; the cleanup deletes only what was confirmed
empty; a batch returns one result per address and never leaves an unhealthy chain
unnoticed; a balance found is saved, and what is reported last is the present balance;
the limiter neither leaks slots nor exceeds the hard cap nor shuts itself; the service
reports as a balance only what a node said, stores or reports every failure, and answers
everybody who waits.

## Modules

| Module | Models | Composes / extends |
| --- | --- | --- |
| `Domain` | address types, chains, `chainsFor` (`domain.go`, `scanner.go`) | |
| `ScanRuns` | durable scan, imports, cleanup | `Domain` |
| `BatchWorkers` | one batch: workers, semaphores, health tracker | `Domain` |
| `RetryFailed` | `retry-failed` command, outbox | |
| `InFlight` | abstract: a cap on requests in flight | |
| `Limiter` | adaptive limiter | instantiates `InFlight` |
| `Providers` | what the providers make of their nodes' answers | `Domain` |
| `Service` | `wallet-scan run`: startup check and balance API; its client | extends `Providers`, instantiates `Limiter` |
| `ScanRunsProofs`, `LimiterProofs`, `BatchWorkersProofs`, `RetryFailedProofs`, `ServiceProofs` | theorems | extend their component; the last instantiates `LimiterProofs` |
| `ScanAloneProofs` | theorems about one scan at a time | extends `ScanRunsProofs` |
| `MCScanRuns`, `MCBatchWorkers`, `MCRetryFailed`, `MCLimiter`, `MCService` | constants and symmetry for TLC | extend their component |

### ScanRuns

One action is one SQL statement or transaction. `addresses`, `runs`, `retry` and `findings`
are the tables; `rows[i]` holds what import `i` has inserted and not committed, and
`nextId` is the sequence, which never goes back, not even for a conflict or a rollback.
`pc[p]` names the statement a scan process executes next and `job[p]`, `res[p]` are the
locals of `RunOnce` and `run`. The paths are those of the code: `ActiveScan` picks the
oldest active run; `ReadLastEnd` and `ReadRange` are the two statements of
`UnscannedRange`; `NextAddresses` pages by the cursor in memory, not the stored one;
`TakeResult` takes a result of the batch in any order and adds to the counters;
`RecordRetry`, `CloseRetry` and `SavePositiveFindings` persist it chain by chain in the
order of the slice; `PauseScan`, `AdvanceScan` and `CompleteScan` have an effect only in
the status their `WHERE` demands. `Crash` is a kill or the error of any statement.
`CleanupRun` is one `DELETE`, and `RetentionElapses` lets a run become old enough for it.
`high`, `late` and `zeros` are history variables: the highest id ever visible, the ids
that became visible below it, and the zero answers, which the code does not store.

Abstracted: balances (positive or zero), error codes (only `invalid_address` matters here),
timestamps (runs are numbered by `started_at`; a run is old or not). The rows a scan adds
to `node_incidents` and `notification_events` are left out, since no scan reads them;
they and their deliveries are in `RetryFailed`. A statement is taken as atomic: that includes the
`DELETE` of the cleanup, which in PostgreSQL evaluates its candidates on a snapshot, and
the multi-row transaction of `SavePositiveFindings`. An import whose row conflicts with an
uncommitted one waits in PostgreSQL; here it simply has not taken its step yet.

### BatchWorkers

`next` is the feeder's position (it blocks on an unbuffered channel, so handing over an
address is one step with the worker that receives it), `pc[w]` and `work[w]` are a worker
in `checkAddress` and `checkWithRetry`, `slots` the per-chain semaphores and `health` the
tracker. Every method of the tracker is an action of its own. A cancelled context is seen
at the two `select`s of the code and nowhere else. The tracker survives from batch to
batch (`NextBatch`) and is new in a new process (`NewProcess`). Failure counts saturate
at the threshold. What `run` may assume of a batch, and `TakeResult` of `ScanRuns` does
assume, is `BatchContract`.

### RetryFailed

`queue` holds for each row whether it waits, is ready or is resolved; `finding` the stored
balance; `events` the outbox. A process goes through the loop of `retryFailed`: count open
rows, `NextRetries`, for each row a query and then either `RecordRetry` or `CloseRetry`
followed by `SavePositiveFindings` and `Deliver`; then `Drain`; count again. `Deliver` is
three steps (load the present balance, send, mark), so that other processes come in
between; a send that fails may still have reached the webhook, and a mark may fail. An
idle process may also be a scan that saves a balance and delivers its event
(`ScanSaves`), or one with a node alert, which records the incident and in a second
statement its event (`CreateNodeIncident`, `CreateNodeNotificationEvent`). An event is
about an item or about an incident, and `Deliver` loads and sends accordingly. Three
variables are history: `told` is what reached the webhook about each item and each
incident; `owed` is the balance with which a row was last closed, until
`positive_findings` holds it; `lost` is what processes held that ended between two
statements that belong together, `CloseRetry` and `SavePositiveFindings` or the two
INSERTs of an incident (`Abandon`, in `Crash` and in `SaveConflict`). Abstracted:
`checkWithRetry` is one step (it is modelled in `BatchWorkers`), each row has an address of
its own, the message about an incident does not say more than that it is about it, every
chain has a provider (`buildProviders` sets up all six).

### Limiter and InFlight

One action is one critical section of the mutex, or a wait outside of it. Time is
abstract: a deadline may pass and an adjustment interval elapse at any moment. Of the
sample count only "at least `MinSamples`" matters (10 in the code) and of the failures
only whether there are any. `InFlight` is what callers rely on: calls are granted or
denied, and at most `Max` are granted at a time. The refinement mapping takes a client
that polls, sleeps or is about to be denied for pending.

### Providers

Pure operators. A node's reply is one of twelve kinds, the cases the code tells apart or
should: a balance, no balance, an error in the body, an unreadable body, the classes of
HTTP status, a timeout, a broken connection. `request` is the part all providers share and
`CheckEVM`, `CheckSolana`, `CheckBTC`, `CheckTRON` what each reads in a body; `Check` gives
a balance or an error with its code, whether it is temporary, and Retry-After. `Says` is
the reference: what the node said of the balance.

### Service

One lifetime of `runService`. `phase` is where its main goroutine is: registering chains,
inserting the wallet, waiting for the queries, saving, serving, gone. The goroutine named
after a chain is first that of the startup check and later the handler of the command's
request for that chain. Its way through `Acquire` and `release` is that of
`INSTANCE Limiter WITH Clients <- ChainNames`, step by step, so limits, polling, deadlines
and cancellation are those of the limiter's own model; what surrounds it is here: the row
`check` makes of an answer (`RowOf`), the saves one by one (`SaveWalletBalanceCheck`), the
checks of `HandleBalance` in their order (`Rejection`) and the answer it writes
(`AnswerOf`), the client's results and its exit. The signal can come at any moment; before
the server listens it cancels the startup check's context, afterwards `runService` returns
without waiting for handlers (`Stop`), which is also what a kill does. `said` is a history
variable: the last reply of the node of each chain.

Abstracted: one command, sending one request per chain; a request that finds nobody
listening is one that cannot be delivered. Delays are whole milliseconds: `durationMillis`
rounds a positive delay below one up, and a Retry-After so large that the rounding
overflows is left out. `buildProviders` configures all six chains and the limiter is never
nil, so `provider_unconfigured` and `capacity_unavailable` cannot be reached. The rows are
forgotten when `RunOnce` returns, since the process does not read them again; the insert
into `wallet_addresses` is one step here and an import in `ScanRuns`.

## Runs

Every passing run is exhaustive. All constants of the code that TLC has to enumerate are
bounded by a named constant: `MaxId`, `MaxRuns`, `MaxCount` (counters saturate), `NItems`,
`NEvents`, `NIncidents`, `Reopens`, `BatchLength`, `MaxRetries`.

| Run | Instance | Shows |
| --- | --- | --- |
| `scan_alone` | 1 scan, 1 import, 3 ids, 3 runs, pages of 2, fairness | crash, pause and restart at every statement: `CountedOnce`, `CheckpointMonotonic`, `CompletedAtEnd`, `ScanReturns`, `TypeOK` |
| `scan_chains` | a SOL and an EVM address, 2 runs | failures of single chains: `CompletedRunsSettled`, `CleanupOnlyConfirmedEmpty` |
| `scan_shared` | 2 scans, 2 imports, 2 ids, 2 runs, pages of 1 | shared and overlapping runs, cursor moved back, cleanup racing a scan, out-of-order commits: `OnTimeAddressesSettled`, `CleanupSparesUnscanned`, `SchemaChecksHold` |
| `batch` | 2 workers, 4 addresses, one with 3 chains, one chain without provider, threshold 1, fairness | `BatchContract`, `UnhealthyPauses`, `AtMostOneAlertPerEpisode`, `BatchReturns`, `TypeOK` |
| `retry_outbox` | 2 processes that may end anywhere, 1 row, 2 events, 2 balances, 2 incidents | `NotifiedOfLatest`, `OutagesReported`, `OnlyAbandonedLost`, `TypeOK` |
| `retry_alone` | 1 process with crashes, 2 rows, one of them reopened by a scan, 2 events, fairness | `NotifiedOfLatest`, `SentIsFinal`, `RetryReturns` |
| `limiter` | 2 clients, 1 chain, cap 3, fairness | `SlotsAccounted`, `NeverLockedOut`, `AcquireReturns`, `RecoversUnderLoad`, `TypeOK` |
| `service` | 2 chains, 1 slot, 1 command with and without its key, fairness | startup: `AllResultsStored`, `StartupUsesItsSlots`, `StartupReturns`; API and client: `HintsHonoured`, `ExitMeansAllKnown`, `CallersAnswered`; both: `NoFalseZero`, `ImplementsLimiter`, `ImplementsInFlight`, `TypeOK` |

Why the bounds are enough: two processes suffice for every race in the code, since each
statement compares a process with the tables and not with a third process; three ids give
a page of two and a page of one, and two runs with a gap between them; three runs let a
run follow a completed and an interrupted one; two ids are enough for a late one. Three
addresses on one chain let it become unhealthy, recover and become unhealthy again in one
batch, and the fourth adds chains that fail independently. Two clients suffice to contend
for the last slot, and a cap of three to halve a limit and to raise it twice; that more
clients on more chains change nothing for the slots is proved. One slot for two chains is
the least for which a query of the startup check is given up; the chains are an EVM one,
whose errors are permanent, and Solana, whose errors are temporary, and the five kinds of
replies reach every branch of `RowOf` and `AnswerOf` but those for a negative balance.
Of the kinds a provider does not recognise only TRON's error in a body is in a run,
`bug_false_zero`. The others, among them an EVM answer that has neither result nor error
(`evm.go:49`), are in no run; the theorem `OnlyUnrecognisedMislead` lists them all. Two
events for one row are the least for which a message can be stale, and two incidents for
which one message could pass for another's. A scan pages by the cursor in its own memory, so other scans do not bear on
`ScanReturns`, and one process is enough for it. `CountedOnce` and `CompletedAtEnd` are
claims about one scan at a time: the code does not lock a run, and with two scans on one
run they fail (see below).

Symmetry is used over processes, imports, clients and chains in runs without liveness
properties. `retry_outbox` lets processes end at every statement. What the tables do not
hold then is gone, and the two properties about it say exactly what: an incident has no
event if and only if its process ended between the two INSERTs, and a balance with which a
row was closed is missing only if a process that held it ended, killed or by an error,
between `CloseRetry` and the commit of `SavePositiveFindings`. `ClosedPositivesSaved`, which
has no such exception, is what `bug_lost_finding` refutes. `service` checks no deadlock because process and command both end.

### Disagreements between code and documentation

| Run | What the code does | What is said |
| --- | --- | --- |
| `bug_cleanup_late` | an address committed below the end of a run that has passed its id is never scanned, and is later deleted although no provider was asked | `cleanup.go:11` "removes only confirmed-empty addresses"; README "scans each imported address once" |
| `bug_lost_finding` | a crash or an error after `CloseRetry` and before the commit of `SavePositiveFindings` loses the balance | README "Positive findings are retained." |
| `bug_stuck_event` | with an empty queue `retry-failed` returns before it drains the outbox | `outbox.go:11` "delivers persisted notification events and retries failures" |
| `bug_false_zero` | an error in a TRON answer with status 200 is read as a balance of zero and stored as checked | README "A provider timeout, rate limit, or RPC error is never treated as a zero balance." |

In `bug_false_zero` the node is a TRON one; the Bitcoin provider, whose answer type has no
error member either, and the EVM provider with an answer that has neither result nor error
(`evm.go:49`) behave alike. The API, unlike the startup check, also accepts a negative
balance (`balance.go:142`, `check.go:145`), which the hexadecimal parser would take.

`bug_lost_finding` shows the crash. The same balance is lost without one when two
processes save the first finding of an address at once: `SELECT ... FOR UPDATE`
(`store.go:310`) locks nothing while there is no row, both insert, and the one that breaks
the unique constraint returns the error with its retry row resolved (`SaveConflict`).

`bug_stuck_event` is checked under `OperatedSpec`: the operator keeps running the command,
delays elapse, and from some moment on neither the database nor the webhook fails.

Two more things hold for one scan at a time only, since nothing locks a run. With two
scans on one run the slower one moves the stored cursor back and the faster one may then
complete the run with its cursor behind its end (`store.go:212` says "after its cursor
reaches the end"), and both count their addresses. By `OnTimeSettled` no address is left
out by this.

Three more disagreements have no run of their own. With a limit below six
(`API_INITIAL_CONCURRENCY`) a startup query that finds no slot within the queue wait is never
sent and its row is stored as `failed` with code `capacity_exhausted` (`check.go:122-129`);
`check.go:46` says that `RunOnce` "queries all six targets exactly once", and the
repository's README (line 63) that the service "queries its six native-balance targets
once", neither with a condition. What does hold, and `service` checks with one slot for two
targets, is that a query is given up only if as many others as the limit allows got their
slot (`StartupUsesItsSlots`).

If a scan ends between the two INSERTs for a node alert (`scanner.go:148-152`), the
incident is on record without an event, and nothing looks for it; `store.go:401` says that
`CreateNodeNotificationEvent` "adds a node incident to the notification outbox", and no
code does it later. `OutagesReported` says that these are the only ones.

`health.go:54` says that `TakeAlert` "returns
true once for each transition into an unhealthy state"; `checkAddress` ignores the result
of `Failure` and asks `IsUnhealthy` and `TakeAlert` in later critical sections, so a
success of another worker in between hides a transition, with neither alert nor pause.
What does hold, and `batch` checks, is that no transition is alerted twice and that a chain
that is still unhealthy when the batch ends has been alerted (`AtMostOneAlertPerEpisode`,
`UnhealthyPauses`).

### Fairness

`FairSpec` of `ScanRuns`, `BatchWorkers` and `RetryFailed` gives each started process or
worker weak fairness of its steps: goroutines are scheduled, statements end, a provider
query is bounded by `REQUEST_TIMEOUT` and by `MAX_RETRIES`. Nothing makes a process start.
`Limiter` assumes that goroutines inside `Acquire` are scheduled, that timers and deadlines
come and that intervals elapse; it assumes nothing of callers and providers, so a query may
take for ever, and `RecoversUnderLoad` states its load as a hypothesis. `Service` adds that
a query ends, since the providers' HTTP client has a timeout (`REQUEST_TIMEOUT_SECONDS`,
which `Load` demands to be positive), that the database answers, and that the connection to
a process that is gone breaks; the client's own timeout is not assumed. Neither signal nor
command need ever come.

## Proofs

The theorems hold for every value of the constants allowed by the named assumptions, which
say that sizes are natural numbers, a page has at least one row, balances are positive,
answers, address types and providers are those of the code, and clients, workers and
processes are finitely many. For the service they add what `config.Load` accepts, and that
an adjustment of the limits needs more samples than there are chains (10 against 6 in the
code). The configuration of the limiter alone is not assumed to be sensible: `New` clamps
it. Where a theorem needs more, it is a hypothesis in its statement:

| Hypothesis | Of | Without it |
| --- | --- | --- |
| `SerialImports`: at most one importing connection | `SerialImportsScanned`, `SerialCleanupConfirmed`, `EachAddressCountedOnce` | `bug_cleanup_late`; a late address is behind the cursor uncounted |
| `OneScan`: at most one scan process | the theorems of `ScanAloneProofs` | two scans on one run move its cursor back and count twice |
| `CountsFit`: the cap of the model's counters is not reached | `EachAddressCountedOnce` | the code has no cap; the model's would show |
| one process | `SentStaysSent` | a failed delivery overwrites the mark of a successful one |
| `RecognisedReplies`: no reply whose lack of a balance the provider misses | `NoZeroInvented`, `ExitIsHonest` | `bug_false_zero` |

The instances of the passing runs satisfy the hypotheses of the properties they check
(`scan_alone` has one process, one import and `MaxCount = MaxId`; `retry_alone` has one
process; `service` has recognised replies only). Every inductive invariant was checked with
TLC on instances like those of the runs before it was proved.

`ScanRunsProofs`:

- `TypeCorrect`: `TypeOK`.
- `OnTimeSettled`: `OnTimeAddressesSettled`. The property is not inductive: it says nothing
  of a run that is not completed. The invariant `IInv` says that every cursor, in a table
  or in the memory of any process, and every end of a completed run is a mark below which
  all on-time addresses are settled (`Covered`), and that no mark exceeds `high`
  (`RunOK`, `ProcOK`, `IdsOK`). A commit adds only addresses above `high` or late ones,
  so marks stay marks whatever others do (`TableStep`, `StepOthers`); this is why moving
  the shared cursor back or completing early does no harm. Within a batch, an address is
  settled, still to come, or being persisted (`BatchCovered`, `ResultCovered`).
- `CleanupSafe`: `CleanupSparesUnscanned`, from `IInv`: a candidate lies below a mark and
  has neither finding nor retry row, so all its chains answered zero.
- `SchemaChecks`: `SchemaChecksHold`, from `IInv`.
- `SerialImportsScanned`, `SerialCleanupConfirmed`: with at most one importing connection
  no address is late (`SerialInv`: what is not committed is above `high`), so
  `CompletedRunsSettled` and `CleanupOnlyConfirmedEmpty` hold without exception. They name
  the condition under which the promises of the repository's README and of the comment on
  `Cleaner` are kept.

`ScanAloneProofs`, on top of it:

- `CompletedRunsReachedEnd` (`CompletedAtEnd`) and `CheckpointsAdvance`
  (`CheckpointMonotonic`). `AloneInv` says that only the newest run is not completed and the
  ranges of the runs follow each other (`RunsInOrder`), that an active run still has its last
  address (`AloneRun`), and that the cursor in memory is the stored one (`AloneProc`). The
  middle part is what makes an empty page mean that the cursor is at the end: the
  cleanup deletes only within old completed runs, whose ranges are apart from that of the
  active one (`RangesApart`, `DeletedIsOld`).
- `EachAddressCountedOnce` (`CountedOnce`). `CountInv`: the counter of a run is the number of
  addresses between its start and its cursor, and the tally of a batch the number of
  addresses of the batch whose result was taken. A checkpoint joins two disjoint sets; a
  crash forgets the tally and leaves the cursor.

`BatchWorkersProofs`:

- `TypesHold`: `TypeOK`, with `SlotsCounted` (each token in a semaphore is a query under way).
- `BatchContractHolds`: `BatchContract`, from `OnceEach` (an address handed out is with one
  worker or in one result, never both) and `SoundWork` (what a worker has gathered fits the
  chains of its address at every place of the loop).
- `UnhealthyChainsPause`: `UnhealthyPauses`, from `Watched`: of every chain that is unhealthy
  some worker or some result knows, and its alert has been taken or a worker will still ask
  for it. The property alone speaks of the end of a batch only.
- `OneAlertPerEpisode`: `AtMostOneAlertPerEpisode`, from `AlertsCounted`: alerts in results,
  alerts with workers and the one that may still be taken are together no more than the
  episodes.

`RetryFailedProofs`:

- `TypesHold`: `TypeOK`, with what the code relies on of its locals (`Locals`).
- `LatestIsAnnounced`: `NotifiedOfLatest`. Messages may be stale, so the invariant
  `LatestSpeaks` is about the latest event of an item only: whoever sends it sends the
  present balance, since a change of the balance adds a later event in the same transaction,
  and it is marked sent only after that balance reached the webhook.
- `OutagesAreReported`: `OutagesReported`, with crashes. `OutagesKnown` says of each incident
  on record that it has an event, is in the hands of exactly one process, or is in `lost`,
  and that these exclude each other; `OutagesTold` that whoever sends or marks
  an event of an incident carries a message about that incident.
- `OnlyAbandonedAreLost`: `OnlyAbandonedLost`, with crashes and conflicting inserts. The
  property is preserved as it stands, given the types: a save of the balance at hand clears
  what is owed, a save of another one leaves its holder where it is, and a process leaves
  `save` without saving only by `Abandon`.
- `SentStaysSent`: `SentIsFinal` with one process: what is to be drained is not the event at
  hand, and neither is sent (`NotSentYet`).

`LimiterProofs`: `IInv` is `TypeOK`, `SlotsAccounted` and `LimitsOK` (the global limit is
at least 1 and equals that of the global state; an absent chain has nothing in flight).
From it `LimiterTypes`, `NoSlotLeaks`, `ServiceStaysOpen` (`NeverLockedOut`) and
`Refinement` (`ImplementsInFlight`: every step is a step of `InFlight` or a stutter; a
grant needs fewer than `globalLimit <= ClampMax` holders).

`ServiceProofs`: `UsesLimiter` shows that `Service` implements `Limiter`
(`ImplementsLimiter`). Every action is a step of the limiter or leaves its variables alone
(`StepRefines`, one step per action); the end of a query is a `Release` whatever the node
said, because `Check` classifies every reply (`TemporaryType`, `AnsweredReleases`). The
theorems of `LimiterProofs`, instantiated with the chains as clients, then carry over:
`SlotsNeverLeak` and `HardLimit`. Their assumptions follow from what `config.Load` accepts
(`LimiterConfigured`).

The invariant of `Service` itself says what each phase leaves for the next (`PhaseInv`),
that a goroutine in the limiter or at a node has not had its answer, so that what a node
said last is what its row was made of (`QueryInv`), and that a row which claims a balance
has it from that reply (`RowInv`). From it `TypesHold`, `RowsAreStored`
(`AllResultsStored`), `HintsAreHonoured`, and about balances:

- `OnlyUnrecognisedMislead`, without hypothesis: a balance that is stored or answered is
  what the node said, or the reply was one of the kinds `Unrecognised` lists for the chain.
  Timeouts, broken connections, rate limits and HTTP errors are in none of the lists, RPC
  errors in those of Bitcoin and TRON only.
- `NoZeroInvented` (`NoFalseZero`) and `ExitIsHonest` (`ExitMeansAllKnown`), under
  `RecognisedReplies`.

`SlotsAreUsed` (`StartupUsesItsSlots`) needs `SlotsInv`: the startup check has too few
samples to move a limit, so a query that is refused finds `Initial` others that have or had
a slot.

Only model-checked: liveness (`ScanReturns`, `BatchReturns`, `RetryReturns`,
`AcquireReturns`, `RecoversUnderLoad`, `StartupReturns`, `CallersAnswered`,
`EventsDelivered`), which TLAPS does not reach. Every invariant and every action property of
the passing runs is stated by a theorem.

## Not modelled

- Wallet generation: cryptography without state, out of the reach of a model checker.
- `ParseCSV`, `Migrate`, flags and dispatch of the command line, reading the environment:
  sequential input handling without state between calls. Of the configuration, what `Load`
  accepts for the API is an assumption of `Service`.
- `/v1/capacity`, `/status`, `/healthz`, `status` and export: they only read.
- The text of notifications and the formatting of amounts.
- Row locks of PostgreSQL: a transaction that waits has not taken its step yet, and one
  that is ended by a deadlock is rolled back.

## Plan

1. Done: `ScanRuns`, `Limiter` with `InFlight`, `BatchWorkers`, `RetryFailed`, `Providers`,
   `Service`; proofs of the safety properties of all of them.
2. Done: what remains after a crash in `RetryFailed` (`OutagesAreReported`,
   `OnlyAbandonedAreLost`).
3. With several scans on one run: whether the counters can fall below the number of
   addresses up to the cursor, or only exceed it.
4. That a batch as `BatchWorkers` returns it is one `TakeResult` of `ScanRuns` can take
   (`BatchContract` against `TakeAnswer`), as a theorem about both modules.
