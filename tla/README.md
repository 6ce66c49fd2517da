# Formal models of react-native-upload-queue

TLA+ models of the queue in `src/core` and of the storage statements it relies
on, TLC configurations that check them on small instances, and TLAPS proofs of
their safety properties for every instance. Paths below are relative to the
repository root.

## 1. The system

An application enqueues files. Each upload is a row in a table (SQLite, or a
map in memory). A queue instance takes pending rows, claims them one by one,
sends the file once per claim, and writes the outcome back. Several processes
may open the same database, and a process may die at any moment.

| Component | Source | State it keeps | Operations | Talks to |
|---|---|---|---|---|
| Queue commands | `core/queue/upload-queue.ts` | `started`, `shuttingDown`, `rerunRequested`, `initialization`, `controllers`, `wasOffline` | enqueue, start, stop, process, pause, resume, cancel, retry, purgeCompleted, destroy, initialize | everything below |
| Coordinator | `core/queue/queue-coordinator.ts` | `running` | runExclusive | runner |
| Runner | `core/queue/queue-runner.ts`, `concurrency-controller.ts` | `batch`; per pass `inFlight`, `stalled`, active count | run, drain | storage, processor |
| Wake scheduler | `core/queue/wake-scheduler.ts` | `timer` | schedule, cancel | storage; calls process() back |
| Processor | `core/processor/upload-processor.ts` | per attempt: token, claimed row, progress chain | process | storage, transport, files, connectivity |
| State machine | `core/queue/upload-state-machine.ts` | none | canTransition | - |
| Storage | `adapters/memory`, `adapters/sqlite` | the table | insert, update, updateOwned, updateProgress, claim, getPending, recoverAbandoned, ... | SQLite driver |
| Error classification | `errors/classify.ts` | none | classifyHttpStatus, toUploadError | - |
| Retry strategies | `core/retry` | none | nextDelayMs | - |
| HTTP transport | `adapters/http` | per request: deadline timer, combined signal | upload | `fetch` |
| SQLite opening | `sqlite-upload-storage.ts`, `migrations.ts` | `driverPromise`, `schemaPromise`; the database file | ensureReady, applyMigrations, close | SQLite driver |
| Connectivity | `adapters/netinfo` | online, listeners | isOnline, subscribe | queue (callback) |
| Events | `core/events` | listeners | emit, subscribe | application |

What is hard: every `await` lets other calls run. A command reads a row, awaits,
and writes the row it read. An attempt reads at its claim and writes minutes
later. `stop()` shares flags with attempts that unwind. A trigger that finds a
pass running leaves a one-bit note. A storage fault may strike between any two
statements. Two processes share one table with no lock but the rows. `hazards` in
`PROJECT.json` lists these at their lines.

What makes the parts correct:

* **claim protocol** - one claim at a time per upload, only its holder's verdict
  lands, a user decision is final for the attempt it interrupts, claims end;
* **attempt accounting** - no upload is sent more than `maxAttempts` times and
  once more for each claim that recovery or a release gave back, which costs no
  attempt; a shutdown never fails an upload;
* **recovery** - abandoned claims come back, live ones are left alone until
  `processingTimeoutMs`;
* **draining** - one pass at a time, a hard cap on concurrency, no upload twice
  in a pass, nothing due forgotten, every call returns;
* **wake-up** - a started queue at rest has a timer for every scheduled retry;
* **shutdown** - `stop()` returns, and with nothing in flight;
* **requests** - what ended a request is what its caller is told, an abort reaches
  it, and no timer or listener outlives it;
* **waiting** - no retry before the backoff or the server's `Retry-After` is over,
  provided a Date can represent that instant, and none forgotten;
* **set-up** - one initialisation and one listener at a time, a recorded schema
  version that tells the truth, a failure that does not outlast its cause;
* **storage** - both adapters are one contract.

## 2. Modules

| Module | Models | How |
|---|---|---|
| `UploadError` | `errors/classify.ts` | pure operators |
| `UploadTask` | the row, the transition table, the rows written with `cloneTask`, the conditional statements of both adapters | pure operators on records |
| `UploadContract` | nothing in the code: what the queue promises about an upload | abstract specification |
| `UploadLifecycle` | processor, user commands, `stop()`, recovery, crashes; any number of processes on one table | state machine, refines `UploadContract` |
| `UploadSends` | how often `transport.upload` is called for a row | two history variables on `UploadLifecycle` |
| `MCUploadLifecycle`, `MCUploadSends` | - | symmetry for TLC |
| `UploadLifecycleProofs` | - | theorems about `UploadLifecycle`: its invariant and the claim protocol |
| `UploadOutcomeProofs` | - | theorems about what an attempt costs: attempts, sends, double sends, shutdown |
| `UploadContractProofs` | - | the refinement of `UploadContract`, step by step |
| `WakeScheduler` | `wake-scheduler.ts` | parts of actions, used by QueueRunner |
| `QueueRunner` | triggers, process(), coordinator, runner, timer of one instance | state machine |
| `QueueRunnerProofs` | - | theorems about `QueueRunner` |
| `RetryDelay` | `core/retry`, `resolveRetryStrategy`, `parseRetryAfterHeader`, the range of a Date | pure operators; `Backoff` is the reference |
| `HttpTransport` | one call of `upload()` of `http-upload-transport.ts` | state machine without a specification of its own |
| `RetryCycle`, `MCRetryCycle` | one upload of one queue from answer to answer | composes `HttpTransport`, `RetryDelay`, `UploadTask` |
| `RetryCycleProofs` | - | theorems about `RetryCycle`: transport, backoff, waiting |
| `InductionLemmas` | - | induction over the naturals, and iteration, as the provers can use them |
| `SqliteOpening` | `resolveDriver`, `ensureReady`, `applyMigrations`, `close`, in several processes | state machine without a specification of its own |
| `QueueSetup`, `MCQueueSetup` | `initialize`, `start`, `destroy`, the connectivity listener, `resolveOnline` | composes `SqliteOpening` |
| `QueueSetupProofs` | - | theorems about `QueueSetup` and `SqliteOpening` |
| `StoredTask` | `UploadTask` as the adapters pass it, `cloneTask`, the places of an adapter and how a listing is made from them | pure operators |
| `MemoryStorage` | the memory adapter | abstract specification of a storage adapter |
| `SqliteStorage`, `MCSqliteStorage` | the SQLite adapter, its columns and row mapping | implements `MemoryStorage` |
| `SqliteStorageProofs` | - | theorems about `SqliteStorage`: its invariant, and that it implements `MemoryStorage` |

`UploadLifecycle` and `QueueRunner` look at the same system from two sides.
`UploadLifecycle` looks inside an attempt and takes launches as given: any
process may launch any due row at any time. That is more than the runner ever
does, so what holds there holds for every runner, save that one instance never
works on the same upload twice at once (see section 7). `QueueRunner` looks at
which rows are launched and takes an attempt as claim, outcome, settlement.

An operator whose comment begins with "Mutation" is not part of the model. It
is a plausible bug in the definition next to it, kept to show that a property
can fail.

### UploadLifecycle and the code

| Variable | Code |
|---|---|
| `rows` | table `upload_queue` |
| `att[i][u]` | the promise in `inFlight`: where `UploadProcessor.process` awaits, its `token`, the `nowIso` it passed to `claim()` (`at`), the row it claimed (`task`), the row it wants to write (`next`), whether its signal is aborted |
| `controllers`, `shuttingDown`, `up` | the variables of `createUploadQueue`; `up` is `initialization` |
| `cmd` | a user command between its `get` and its `update` |
| `stop` | a `stop()` that awaits `drain()` |
| `nextToken` | `createId()` |

| Actions | Code |
|---|---|
| `Launch`, `ClaimRow`, `ReadBack` | `launch()`, and the UPDATE and SELECT of `claim()`; the memory adapter does both at once, which is one of the interleavings |
| `ReleaseOffline`, `FileMissing`, `StartUpload` | `runClaimed` up to the transport |
| `PersistProgress` | one link of `persistChain` |
| `Respond`, `TransportThrows`, `AbortError` | how `transport.upload` ends |
| `CheckDecision`, `ResolveAbort` | the re-reads after an abort, then `isShuttingDown()`; the two consecutive `get()` ask the same question and are one read |
| `Commit` | `updateOwned` and the promise settling |
| `ClaimFault`, `AttemptFault`, `ReleaseFault` | anything awaited throws |
| `CommandRead`, `CommandWrite` | pause, resume, cancel, retry; the abort follows the update in the same continuation |
| `StopBegin`, `StopEnd` | `stop()` before and after `drain()` |
| `Initialize`, `Crash` | recovery, once per process; death |

### QueueRunner and the code

`calls[c]` is one call of `process()`; its `wakes` says whether `scheduleWake()`
follows. `att[gen]` are the attempts of the pass that runs now. When a pass dies
of a fault, `gen` moves on and its attempts stay behind as the orphans the
`finally` clause of `run()` makes of them. `stalled`, `limit`, `fetched`, `raced`
are the local variables of `run()`. `taken` and `overtaken` are history: which
uploads the pass has claimed that the user has not moved since, for `OncePerPass`,
and whether an attempt has settled since `limit` was computed, for
`StalledHideNobody`. A fault may strike either statement of `claim()`, the read
after a `claim()` that returned null, anything `runClaimed` awaits, and the write
that releases a claim, whose failure is swallowed: after claim()'s UPDATE
(`sqlite-upload-storage.ts:227`) and in that write (`upload-processor.ts:434`) it
leaves a row that says uploading with no attempt.
`ArmTimer` is the query of `WakeScheduler.schedule` with its continuation, which
sets the timer. `park` stands for pause and cancel, `unpark` for resume and
retry. `autoProcessOnReconnect` has its default.

`Interrupt` lets an attempt be released whenever the queue is shutting down, and
`Finish` deferred whenever it is offline, more often than an abort or a check
really meets it; whether it does is `UploadLifecycle`'s matter.

### RetryCycle, HttpTransport and the code

`pc` is where `upload()` awaits: `token` and `body` before the signals are
combined, `fetch` and `text` after; `rejected` is the moment between a rejection
and the `catch` clause, in which a deadline or an abort may still come.
`combined` is the closure of `combineSignals`: its controller, its timer,
`timedOut`, its listener. `outcome` is what `upload()` returned or threw.
`cycle` follows the one call of `process()` that matters here: `process`,
`attempt`, and `query` for `scheduleWake()`. `Settle` is `runClaimed` after the
transport in one step, for its awaits are `UploadLifecycle`'s. A time is a
number of ticks, `Second` of them a second; `TimerMax` is the longest delay
`setTimeout` keeps, `DateMax` the last instant of a Date. `asked` is history:
what the last answer asked for, computed by `ServerAsks` and `BackoffAsks`
without the code's helpers and without regard to what the code writes.

### QueueSetup, SqliteOpening and the code

`initialization[p]` and `schema[p]` hold a promise: none, done, or the slot that
will settle it, so that a promise replaced while it is pending still settles
those who await it. `runs[p][r]` is one execution of the function in
`initialize()`, `migrators[p][m]` one of `applyMigrations()` with the entry and the
statement it is about to run, on a handle that `close()` may close. `db` is the file.
`attended` is history: `process()` was called since the network came back.

### SqliteStorage, MemoryStorage and the code

`table` is a function from the rowids in use to the columns of their rows, `tasks`
one from the places of the Map, which iterates in order of insertion, to tasks; the
refinement maps the one to the other with `MapUploadRow`, so what a column cannot
hold or a conversion loses is a difference. `Encode` is `COLUMN_VALUES`, column by
column. `call` and `answer` are the last call and its
result. `copies` is what a caller still holds of a row: `update` and
`updateOwned` write tasks made from it with `cloneTask`, however old it is. The
engine's `WHERE`, `SET`, `ORDER BY`, `LIMIT`, `COALESCE` are operators.

## 3. Runs

| Run | Instance | Shows |
|---|---|---|
| `LifecycleShared` | 2 processes, 1 upload, 1 client, all commands, 2 claims, 2 faults, 1 crash, clock 0..2 | the inductive invariant, no lost update by a holder, user decisions stick, refinement of the contract |
| `LifecycleCrash` | 2 processes, 1 crash, 1 stopper, 3 claims, 1 fault, clock 0..3 | simultaneous sends only after the timeout, sends accounted for, shutdown fails nothing, refinement |
| `LifecycleSettles` | 1 process, 1 client, 1 stopper, fair | claims end, stop() returns, the safety of stop() with user commands, and no work for an upload whose counted attempts are used up |
| `RunnerSafe` | 2 uploads, 2 calls of process(), 1 retry, 3 application calls, clock 0..1 | single flight, hard cap, once per pass, none hidden behind a stalled one, timers for retries |
| `RunnerShutdown` | 2 uploads, 2 at a time, 2 calls, stop(), an outage, a fault | the inductive invariant, the lock is released, only faults of their own leave claims without an attempt, no spinning |
| `RunnerDrains` | 3 uploads, 2 at a time, fair | everything enqueued is taken, process() returns |
| `RunnerRetries` | 2 uploads, 2 retries, clock 0..2, fair | retries that come due are taken |
| `RetryCycle` | 1 upload, 3 attempts, 2 backoffs, 2 transports, 2 destinations, 4 statuses, 5 headers, 3 application calls, clock 0..5, fair | no request early (where dates fit), no retry lost, nothing leaks, aborts arrive, errors name their cause |
| `SetupShared` | 2 processes, 2 migrations of 3 statements, 3 NetInfo states, 4 application calls, 2 network changes, 1 fault in each process, 1 crash | schema and version agree, failures end with their cause, reconnections are noticed, one listener |
| `StorageConforms` | 2 uploads, 3 tokens, clock 0..3, every sequence of 7 calls | the inductive invariant of the table; the SQLite adapter implements the memory adapter |

`CHECK_DEADLOCK FALSE` in every run: a queue with nothing to do rests, and a
bound may be used up.

**Bounds.** `MaxClaims`, `MaxTime`, `MaxCrashes`, `MaxFaults`, `MaxCalls`,
`MaxOutages`, `MaxRetries`, `MaxChanges`, `JitterSteps`, `Slots`, `Callers`,
`Handles` are bounds of the model and not of the code. They are enough for the interesting cases: two claims
make a late writer and a new holder; the third claim of `LifecycleCrash` is a
recovery after a failed attempt; with `Timeout` 1 a clock that reaches 3 lets a
claim age, be recovered and age again. Two uploads make one stalled at the head
of the queue and one behind it; three with two slots make a batch and a rest.
Two calls make a pass and a trigger it absorbs; a third call would only set a
flag that is set. `LifecycleShared` has user commands around the crash of a
process, `LifecycleCrash` has a crash with stop() and no user commands; the three
together are covered by the proofs only.

In `RetryCycle` three attempts make two waits, one of which grows with the
multiplier; with `TimerMax` 2 the longer ones overflow the timer. `DateMax` is 23,
the last instant the run can name, for at 22 a `Retry-After` is lost (section 5);
the proofs of types have no such bound. Of the two transports one has a token, a body
and a deadline, the other none of them. In `SetupShared` four calls make an
initialisation, its repetition after a failure, a destroy() and a new beginning;
two migrations make an upgrade that can stop in the middle. `Replays` says that a
new listener is told the present state, as NetInfo does. Seven calls in
`StorageConforms` reach an upload claimed twice by different tokens with a stale
copy from before; its `VIEW` leaves out the last call and answer, on which no
step depends, and every step is still compared with the memory adapter.

**Fairness.** Weak fairness on each attempt, each call of `process()`, each
command's update, `stop()` after its drain, and due timers: a promise whose
storage or transport has answered runs its continuation, and a request ends, for
the transport is given a deadline. Nothing is assumed of the application, the
network, faults or crashes. `RestartSpec` adds that a dead process is started
again and that time passes. `RetryCycle` has weak fairness on promises that are
settled, on due timers, on the clock and on what `TransportOwes` names: a token or
body that arrives, an aborted request that is rejected, a deadline that passes.
The server owes no answer; a transport without a deadline may wait for ever, and
`RetryTaken` does not depend on it. `SetupShared` and `StorageConforms` check
safety only.

**Liveness under what conditions.** `LifecycleSettles` has neither faults nor
crashes: with them a row does stay claimed (section 5). `RunnerDrains` and
`RunnerRetries` have no outages, pauses or stops, for the same reason.
`RunnerRetries` has one call of `process()` at a time; a retry that comes due
during a pass is the last entry of section 5.

## 4. Where the code disagrees with its documentation (runs that fail)

| Run | Property | What happens |
|---|---|---|
| `LifecycleStaleCommand` | `TerminalIsFinal` | pause() reads `uploading`, the attempt completes, pause() writes its copy over the completed row with the unfenced `update()`. `docs/architecture.md:84`: completed is final |
| `RunnerLateLaunch` | `StopQuiesces` | stop() arrives while the pass awaits `isOnline()` or `getPending()`: with nothing in flight it awaits an empty batch, the pass launches meanwhile, and stop() returns with that attempt in flight. `CHANGELOG.md:55`: stop() waits for in-flight attempts before it returns |

## 5. Further disagreements, and the constants that show them

These are further consequences of the same definitions. TLC shows each of them
with the configuration named, its properties replaced by the one listed and its
constants changed as listed.

| Property | Start from | Change | What happens |
|---|---|---|---|
| `ProcessReturns` | `RunnerDrains` | 1 upload, concurrency 1, `MaxOutages = 1` | a busy trigger sets the rerun flag, the network goes; `run()` returns offline without consuming the flag, and `process()` calls it again at once, until the network is back (`README.md:390`) |
| `DueIsTaken` | `RunnerDrains` | 1 upload, concurrency 1, `MaxOutages = 1` | an upload deferred offline is stalled in its pass, and the reconnect trigger during that pass absorbed: it stays pending with no timer (`README.md:560`) |
| `HardCap` | `RunnerDrains` | `MaxFaults = 1` | `getPending()` throws while attempts run; the next pass starts with an empty count (`README.md:132`) |
| `DueIsTaken` | `RunnerDrains` | 1 upload, concurrency 1; start, park, unpark; `MaxCalls = 3` | an upload paused and resumed in flight is stalled, and resume()'s trigger absorbed (`README.md:403`) |
| `ProcessReturns` | `RunnerDrains` | 2 uploads, 1 retry, delay 0, 2 handles | a retry due within its own pass: timer and rerun lap chase each other for ever (`CHANGELOG.md:58`) |
| `OneTimer` | `RunnerLateLaunch` | 2 callers, 1 retry, delay 1, only start, 2 handles | two scheduleWake() overlap and both set a timer (`docs/architecture.md:14`) |
| `TimersOnlyWhileStarted` | `RunnerLateLaunch` | 1 retry, delay 1, 2 handles | stop() during scheduleWake()'s query: the timer is set afterwards (`README.md:384`) |
| a launch in place of the claim in `OncePerPass` | `RunnerSafe` | concurrency 2 | the list of `getPending()` may be older than the attempt that settled while it was awaited: the pass launches that upload again, and `claim()` refuses it (`queue-runner.ts:48`, "attempted") |
| `StalledHideNobody` without `~overtaken` | `RunnerSafe` | concurrency 2 | the limit of `getPending()` is computed before the await; uploads stalled during it fill the answer, hide a due one behind them, and the pass may end (`queue-runner.ts:154`, "starve") |
| `RetriesHaveTimer` | `RunnerLateLaunch` | 2 callers, 1 retry, delay 1, start and process, 2 handles | the pass of a direct process() absorbs start() and schedules a retry; nobody arms a timer (`README.md:382`) |
| `AbandonedRecovered` | `LifecycleStaleCommand` | `RestartSpec`, no clients or commands, `Timeout = 2`, `MaxClaims = 2`, `MaxTime = 4`, `MaxCrashes = 1` | a process restarted before the timeout has run its only recovery: the row stays uploading (`README.md:140`) |
| `ShutdownFailsNothing` | `LifecycleStaleCommand` | 2 uploads, no clients or commands, 2 stoppers, `MaxClaims = 2` | of two overlapping stop() or destroy(), the first to return clears `shuttingDown` and the other's attempt is failed (`upload-queue.ts:349`) |
| `WaitsAsAsked` | `RetryCycle` | `DateMax = 22` (or 7) | a 429 names an instant that `toISOString()` cannot write: the exception releases the claim, `Retry-After` is forgotten, and the upload is sent again at once (`README.md:580`, `docs/retries.md:28`) |
| `AttemptsLeft` | `LifecycleStaleCommand` | `Commands = {"resume"}`, `HttpCodes = {503}`, `MaxAttempts = 1`, `MaxClaims = 2` | resume() on a failed upload sends it again with no attempts left (`README.md:350`) |
| `ThrownSaysWhoEndedIt` | `RetryCycle` | `Rejections = {"AbortError"}` | a getAccessToken() or buildBody() that was aborted by its own signal looks like the user's abort: the upload fails for good as cancelled |
| `NoStaleFailure` | `SetupShared` | none | a rejected `openDriver()` is remembered: initialize(), which forgets its own failures, rejects for it for ever (`sqlite-upload-storage.ts:53`) |
| `NoStaleFailure` | `SetupShared` | `Rejections = FALSE`, `MaxFaults = 0`, `Rerunnable` without `"later index"` | a migration with an `ALTER TABLE`, cut short by a crash or run by two processes at once, can never be run again (`migrations.ts:50` "runs exactly once", `migrations.ts:76` "resumes where it stopped") |
| `ReconnectNoticed` | `SetupShared` | `Replays = FALSE` | with a provider that does not replay, as createManualConnectivity(), a change between isOnline() and subscribe() is lost (`README.md:560`) |
| `OneListener` | `SetupShared` | `Overlap = TRUE`, `Rejections = FALSE` | destroy() during initialize() leaves the listener of a destroyed queue behind |
| `ReconnectNoticed`, `NoStaleSchema` (one run each) | `SetupShared` | `Overlap = TRUE` | destroy() during start() or initialize(): the queue runs on without the listener that destroy() took away, or migrates on the handle that it closed |
| `ImplementsMemory` | `StorageConforms` | `Reports = FALSE` | a driver that leaves out the optional `rowsAffected`: claim() marks the row and returns null, update() of a missing row succeeds (`README.md:458`) |
| `ImplementsMemory` | `StorageConforms` | `DefaultLimit = 1` | getRecoverable() without a limit stops at 500 rows in one adapter only |
| `ImplementsMemory` | `StorageConforms` | `SameInstant = TRUE` | uploads created in one millisecond: insertion order in memory, the engine's in SQLite |

Seen in reading, without a run:

* a 403 is blocked, while `README.md:574` and `docs/retries.md:15` say failed;
* `README.md:384` says in-flight attempts finish at stop(), which aborts them;
* a missing file counts an attempt (`upload-processor.ts:136`), while
  `README.md:134` says only a real try does;
* `Retry-After` is dropped unless the status is 429 (`classify.ts:40`), also for
  a 503, where servers send it; `README.md:580` says it always beats the local
  strategy;
* jitter is applied after the cap, so a delay may be half as much again as
  `maxDelayMs` (`exponential-backoff.ts:34`);
* destroy() after an initialize() that failed does not close the driver that
  initialize() had opened (`upload-queue.ts:516`).

## 6. Proofs

All theorems hold for any sets of processes, uploads, callers, clients and
stoppers, any migrations and configurations, and any bounds. They rest on the
named assumptions of the modules, which say that constants have their types and
that NULL is none of the values it is compared with, and on what the third column says.

| Theorem | Statement | Assumes besides |
|---|---|---|
| **`UploadLifecycleProofs`** | | |
| `TypeCorrect` | `Spec => []TypeOK` | |
| `Invariant` | `Spec => []IInv` | |
| `ClaimsAreMarked` | `Spec => []ClaimIffUploading` | |
| `NoLostUpdateByHolder` | `Spec => []HolderSeesTruth` | |
| `DecisionsStick` | `Spec => UserDecisionSticks` | |
| **`UploadOutcomeProofs`** | | |
| `AttemptsBounded` | `Spec => []AttemptsLeft` | nobody calls resume(), `MaxAttempts > 0` |
| `SendsAccounted` | `SendsSpec => []SendsBounded` | no user commands, `MaxAttempts > 0` |
| `DoubleSendNeedsTimeout` | `Spec => []DoubleSendOnlyAfterTimeout` | no user commands |
| `ShutdownNeverFails` | `Spec /\ []OneStopEach => []ShutdownFailsNothing` | (in the statement) stop() calls of one process do not overlap |
| **`UploadContractProofs`** | | |
| `ImplementsContract` | `Spec => KeepsContract` | |
| **`QueueRunnerProofs`** | | |
| `Invariant` | `Spec => []IInv` | |
| `TypeCorrect` | `Spec => []TypeOK` | |
| `OnePassAtATime` | `Spec => []SingleFlight` | |
| `EveryClaimAttended` | `Spec => []ClaimsAttended` | |
| `ConcurrencyIsHardCap` | `Spec => []HardCap` | nothing throws (`MaxFaults = 0`) |
| `CapPerRejection` | `Spec => []`(uploads in flight, over all passes, `<= Concurrency * (gen + 1)`) | |
| `ClaimedOncePerPass` | `Spec => OncePerPass` | |
| `NobodyHidden` | `Spec => StalledHideNobody` | |
| `NoRetryForgotten` | `Spec => []RetriesHaveTimer` | nothing throws, the application calls no process() of its own |
| **`QueueSetupProofs`** | | |
| `Invariant` | `Spec => []SetupInv` | |
| `TypeCorrect` | `Spec => []SetupType` | |
| `RecordedVersionTruthful` | `Spec => []SchemaTruthful` | |
| `OneListenerEach` | `Spec => []OneListener` | `~Overlap` |
| `ReconnectAttended` | `Spec => []ReconnectNoticed` | `~Overlap`, `Replays` |
| `FailureIsFresh` | `Spec => NoStaleSchema` | `~Overlap`, every statement may run twice |
| **`RetryCycleProofs`** | | |
| `NothingLeaksEver` | `Spec => []NothingLeaks` | |
| `AbortsArrive` | `Spec => []AbortReachesRequest` | |
| `ErrorsNameTheirCause` | `Spec => ThrownSaysWhoEndedIt` | `"AbortError" \notin Rejections`, NULL is neither error |
| `TypeCorrect` | `Spec => []CycleType` | |
| `Invariant` | `Spec => []CycleInv` | |
| `DelaysInRange` | a delay of `NextDelays` is `Backoff` without jitter, and with it between half and one and a half times `Backoff`, which `max` caps | |
| `RequestsWait` | `Spec /\ []DatesFit => WaitsAsAsked` | (in the statement) a Date can represent every instant an attempt may have to write |
| **`SqliteStorageProofs`** | | |
| `Invariant` | `Spec => []StorageInv` | |
| `Refinement` | `Spec /\ []FitsLimit => ImplementsMemory` | `Reports`, `~SameInstant`; (in the statement) no more rows than `DefaultLimit` |
| `OnlyListingsDiffer` | `Spec =>` every step is one of `MemoryStorage` or a listing | `Reports` |

An assumption in the third column is there because TLC refutes the property
without it: section 5 has resume() for `AttemptsLeft`, overlapping stop() calls
for `ShutdownFailsNothing`, a fault for `HardCap`, a direct process() for
`RetriesHaveTimer`, a date out of range for `WaitsAsAsked`, `Overlap`, `Replays`
and the `ALTER TABLE`, a token
provider that aborts, and for `ImplementsMemory` a driver that reports nothing,
uploads of one millisecond and a table beyond the default limit. `OnlyListingsDiffer`
says that the last two touch no call but the three listings. That user commands let two processes send one upload is
what the clause "no user command took it" of `DoubleSendOnlyAfterTimeout` says: a
pause and a resume give it to another process while the first is still sending.

**Argument (UploadLifecycle).** None of the properties is inductive alone. That a holder has seen
the whole row needs that no one else can have written with its token:
tokens on attempts are issued (`TokensIssued`) and distinct (`TokensDistinct`),
a row's token belongs to an attempt on that row which is past its claim
(`TokensPlaced`), and every row an attempt is about to write gives the claim back
(`WritesLetGo`). Their conjunction with `ClaimIffUploading`, `HolderSeesTruth` and
`TypeOK` is `IInv`. Nearly every step is quiet: the rows it changes end up claimed
by nobody, and the attempts it changes end or keep their claim. One lemma settles
quiet steps, and the four that are not (launching, claiming, reading back,
reporting progress) have one each. That commands write stale rows does no harm,
for every row a command writes carries no token. `DecisionsStick` follows from the
fence and `ClaimIffUploading`.

**Argument (attempts, double sends, shutdown).** Each property has an invariant of
its own on top of `IInv`. `AttemptsInv`: not only the row but every copy of it that
may yet be written back, in an attempt or in a pause, has attempts left; resume()
is the one command that writes a waiting status over a copy that has none.
`AttemptsLeft` bounds the counter on the row; how often the server is sent an upload
it does not say, for recovery and `releaseClaim()` leave the counter as it was.
`SendsInv` counts the claims made so far (`Claims`): those counted as attempts, those
given back, and the one that is held; what has been sent, and the attempts that have
claimed and may yet send (`Unsent`), are never more. Every outcome of an attempt that
holds its row costs an attempt, or gives the claim back, or was a deferral, before
which nothing was sent (`Costs`, part of `AttemptFate`); one that has lost its row
writes nothing. Together with `AttemptsInv`, which stops the counter, that is
`SendsBounded`. User commands are excluded because a stale one writes back an older
counter.
`TransferInv`: an attempt that sends holds its row, or its claim is past the
timeout, for recovery is all that takes a row away where there are no commands; two
processes cannot both hold it. `ShutdownInv`: an aborted attempt that still holds
its row is in the batch of a stop() that waits for it, so `shuttingDown` is up when
the attempt asks, and who writes `failed` for an abort has lost the row to a user
command and writes nothing.

**Argument (UploadContract).** The contract sees a row's status, the token on it,
the tokens issued and those still waiting to claim. One lemma per step of the
contract says what a change of one row has to leave; every action of the lifecycle
is then one of those steps or a stutter. Writes of the holder are steps of the
contract only because they are fenced, and stale commands because they take the
token away.

**Argument (QueueRunner).** That a pass is alone needs the lock; that a call gives
back no lock it does not hold needs the same. A rejected pass moves `gen` on, so
batches have to be counted against faults (`BatchesCounted`), and the batch of the
present pass drained by somebody (`BatchDrained`). Each batch keeps under the
limit (`PassCap`), and with no faults there is one batch: `HardCap`. With faults the
batches add up, by induction over them: `CapPerRejection`. `ClaimsAttended` counts
the rows that say uploading with no attempt that will let them go against the faults
that rejected no pass: a step that adds one to the former (a claim whose SELECT
throws, a release that fails) spends a fault, and every other end of an attempt
writes the row it owns or owns none; no step that does not throw spends a fault
(`FaultsKept`). `TakenSpent`
says of an upload the pass has claimed why it cannot claim it again: the attempt is
at work, or about to report pending, or the user has parked the row, or it is
stalled; that is `OncePerPass`. For `NobodyHidden`, `LimitStands` has the limit as
it was computed while nothing has settled, so that an answer which holds only
stalled uploads is shorter than its limit and leaves out nothing that is due; the
count is the cardinality argument of the module. `WakeInv` adds that every call of
process() which is not at rest will go through scheduleWake().

**Argument (QueueSetup).** A migrator at work has executed all that comes before its
place (`Executed`): it read a version that told the truth, and nothing is ever
undone, so what the other processes record meanwhile cannot falsify it. With it
`SchemaTruthful` is inductive. Where initialize() and destroy() do not overlap,
`SequentialInv` has at most the one run that `initialization` remembers, a listener
exactly while it is done, and no closed handle or rejected promise left for later;
then `NetworkInv`, that a listener has seen the present state, gives
`ReconnectNoticed`, and a run that is rejected has met a fault of its own.

**Argument (RetryCycle).** That an abort reaches the request is not inductive: the
abort after the signals were combined gets through because the combined
controller, if it is not aborted, still listens (`Listening`); the one before,
because the signals are combined from the caller's as it is then. That an error
names its cause needs that nobody but the caller and the deadline aborts a request
(`AbortsHaveCause`), also between the rejection and the catch clause. With the
types of the signals, `NothingLeaks` and `FreshAtRest` these make `RequestInv`. For
the waiting, `CycleInv` has what was asked in the answer (`AnswerSaysWhatIsAsked`), and
from there it gets into the row (`RowWaitsAsAsked`), where the guard of the next
attempt meets it; that last step needs that the instant can be written (`DatesFit`). That the delay the code computes, a capped power with
jitter, is not below the reference recursion is arithmetic for every
configuration and attempt: `PowerLaws` and `CappedIsBackoff`, by induction over the
attempts; `DelaysInRange` bounds it from both sides (`docs/retries.md:21`).

**Argument (SqliteStorage).** The two adapters can differ only in what a column loses
or in which rows a statement selects. The first is `StorageInv`: a table whose rows
all come from tasks of the right type, each id once, the token and the time of a
claim together. Stale copies are in it too, for `update` writes them back whole: a
copy has the id and the time of creation of its row, so writing it changes neither
and makes no two rows share an instant. Between `Encode` and `MapUploadRow` such a
row loses nothing, so an UPDATE of columns is a `cloneTask` of fields, a condition on
columns one on fields, and each call has a lemma that its answer and the table it
leaves are the memory adapter's. For the listings, both sort the same rows by the
same key; where instants differ there is only one such sequence, and where the limit
suffices it is the whole of it.

**Induction.** The library's induction theorems take a predicate, which the provers
cannot instantiate. `InductionLemmas` proves induction for a set in place of a
predicate, from the least element of a set of naturals (`WFMin`,
`NatLessThanWellFounded`), and from it that a step can be iterated, which is what a
recursive function needs to exist.

**Only model-checked.** Liveness, for TLAPS does not treat fairness here: `DueIsTaken`,
`ProcessReturns`, `ClaimsEnd`, `StopReturns`, `RetryTaken`; and the two properties of
section 4, which fail. Every other property of a run is stated by a theorem.

## 7. Not modelled

* Two attempts of one instance on the same upload. They arise after a fault has
  orphaned a batch; `QueueRunner` has them, `UploadLifecycle` does not.
* A queue that is destroyed while an orphaned attempt is running: `QueueSetup`
  takes a stop() to have left nothing in flight.
* In `RetryCycle`, a second upload or a second call of `process()` at once
  (`QueueRunner`), and reads and writes of the row between the answer and the
  verdict (`UploadLifecycle`).
* In `SqliteStorage`, calls between the two statements of claim(), which
  `UploadLifecycle` has; failing statements, which end a call without a change.
* Fractions and infinities in the backoff, and dates before the epoch.
* The text of messages, URLs, headers, answers and SQL; event delivery; metadata;
  multipart bodies; the example application.
* In `QueueRunner`, overlapping stop() calls.

## 8. Plan

1. *Composition*: `HttpTransport` in place of the transport actions of
   `UploadLifecycle`, with the clock abstracted away.
2. *Two attempts of one instance on one upload* in `UploadLifecycle`, after a fault
   has orphaned a batch.
