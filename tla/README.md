# Verification of mitools

mitools is a TypeScript library of building blocks on Effect 4: file locks, subprocess
execution, an embedded document store, a cron scheduler, a debouncer, a logger, probes of
ports and processes, two HTTP clients, settings, a `runMain` for programs, and a number of
pure helpers. This directory holds TLA+ models of the parts that
run concurrently, fail halfway or depend on time, the TLC configurations that check them
on small instances, and TLAPS proofs of the main results for every instance.

Source paths below are relative to the repository (`src/locks/index.ts`).
`PROJECT.json` maps every definition to the lines it models, lists the runs, the mutants
that show that each property can fail, the hazards of the code and the theorems.

Contents: [inventory](#inventory), [plan](#plan-and-order), [modules](#the-modules),
[runs](#the-runs), [fairness](#fairness), [proofs](#the-proofs),
[disagreements](#where-the-code-and-its-documentation-disagree),
[boundaries](#boundaries-worth-knowing), [not modelled](#what-is-not-modelled),
[commands](#commands).

## Inventory

| component | source | state it keeps | operations | talks to | what is hard | what makes it correct |
|---|---|---|---|---|---|---|
| file locks | `locks/index.ts`, `lockContention` of `async/index.ts` | one file per lock (its existence, metadata, mtime), a closed flag per handle | `tryAcquireLock`, `acquireLock`, `withLock`, `phase`, `release`, `lockStatus` | file system, pids, clock | processes interleave between system calls; crashes; pid reuse; suspended holders; failed writes | one holder at a time; a release removes only its own file; no leftover file blocks for good; every acquire ends |
| captured runs | `proc/index.ts` (`run`, `runOk`, `runQuiet`) | permits of `ProcConcurrency`, a child, two captures, a timeout flag | queue, spawn, join, terminate, budget, abort | kernel, `AbortSignal`, Effect scopes | exit, stream ends, budget, abort and interruption race; descendants hold pipes | permits are slots; ended means joined; cut output is marked; cancelled calls end |
| streamed runs | `proc/index.ts` (`runStreaming`, `streamLines`, `terminateSubprocess`) | two line buffers, drains, a deadline | data, end, read error, deadline, termination | kernel, `onLine` callback | chunks cut lines anywhere; exit before end of stream; a callback that throws | every line once; none after the call; termination ends |
| document store | `persistence/docstore.ts`, `persistence/sqlite.ts` | the table `blobs` | reads, upsert, touch, deletes, cleanup, transactions | SQLite in WAL mode, clock | several processes; time sampled before the statement; snapshots that go stale | a map of live documents; no lost update; cleanup nobody can see |
| entities | `persistence/entities.ts` | a registry of entities | the store's operations by key parts, `update`, `patch`, `migrate`, `migrateAll` | document store | migration reads outside its transaction; keys collide while they move; programs of different ages share the rows | nothing lost; a payload is upgraded through the versions its row claims; a second run rests |
| tables | `persistence/table.ts` | a table, its indexes and rows | `make`, `insert`, `upsert`, `clear` | SQLite | versions of a program that declare different indexes on one table; `IF NOT EXISTS` | a unique index that was made is enforced |
| scheduler | `scheduling/Scheduler.ts` | registered tasks, a Ref of fibers | `register`, `start`, `shutdown`, scope close | Effect fibers, cron | start and shutdown overlap; runs that never end | no overlap of runs; no loop escapes; no task starves another |
| debounce | `async/debounce.ts` | pending fiber, disposed flag, a semaphore | `trigger`, `cancel`, scope close | Effect fibers | timers race triggers, cancels, interruptions | one pending fire; the last trigger wins; calls end |
| logging | `logging/Logger.ts`, `logging/sinks.ts` | a set of hook fibers, a queue, a writer, the day's file | `emit`, `emitUnsafe`, `flush`, scope close | hooks, sinks, file system | hooks log themselves; flush and close race lines in flight | flush waits for what it promises; order; no recursion |
| section log files | `services/logfile.ts` | a truncated flag, a one-permit semaphore | `section`, timestamped files | file system, abort signals | the flag is set before the write it guards succeeds; interruption frees the permit before the operating system is done | a written section stays, whole; the old contents go once |
| retries | `async/index.ts` | the schedule's count | `retrySchedule`, `withRetry` | Effect schedules | a retry of what was done already | attempts bounded, only what `shouldRetry` accepts |
| http clients | `http/index.ts`, `karakeep/index.ts`, `services/pushover.ts` | none; the servers' bookmarks and messages | `createBookmark`, `attachTags`, `addBookmark`, `notify` | network, servers | lost and late POSTs are repeated; partial failure of `addBookmark` | an answer is about a bookmark that is there, with its tags; a message said to be sent was delivered |
| probes | `probes/index.ts` | a socket; the attempt | `probePort`, `portInUse`, `listeningProcesses`, `processCwds` | sockets, `lsof` under `run` | a timer races a connect that has landed; a scan that was cut short | what is reported was so during the call; a scan that its budget ended is no answer |
| cli | `cli/index.ts` | the program's fiber, exit code | `runMain` | process signals, whatever the program uses | a signal at any moment of an operation, its cleanup or the flush | the exit tells what happened; nothing is left behind; the process ends |
| streams | `streams/index.ts` | a buffer, listeners, a descriptor | `streamToBuffer`, `readFileSlice`, `readFdSlice` | Node streams, file system | end, error, interruption and destruction by others race | a buffer is the whole stream; nothing stays open |
| boundaries, react | `boundary/index.ts`, `react/index.ts` | none of their own | adapters | React, Promises | | [not modelled](#what-is-not-modelled) |
| configuration | `config/toml.ts`, `aliases.ts`, `errors.ts` | a file, the environment, the Set of warned names | `layerTomlWithEnv`, `withAliases`, `withRemedy` | file system, logger | precedence of sources and old names; readers that load at once | every reader is told the value or its problem; one warning per name |
| base configuration, text and collections | `config/base.ts`, `text`, `utils/strings`, `collections`, `markdown`, `xml` | none | pure functions | | chunk boundaries | [not modelled](#what-is-not-modelled) |
| errors, types, testing | `errors`, `types`, `testing`, `vitest` | none | error values, helpers | | | |

The components meet in few places. Locks are independent of everything but the clock and
the retry schedule. Entities call the document store, which shares one SQLite connection
per process with tables. Scans run `lsof` under `run`; requests are repeated by `withRetry`.
A program meets all of them under `runMain`, whose signals reach whatever it is doing. The
scheduler logs failures and is otherwise alone. Everything lives in Effect scopes: closing one
runs finalizers in reverse order, interrupts forked fibers and waits for them, and most of
what is hard in this library is what is in flight at that moment.

## Plan and order

Done, most important first:

1. `FileLock`, `FileLockCalm` with the abstract `Mutex`; `FileLockProofs`.
2. `ProcRun`: the captured run and its permits; `ProcRunProofs`.
3. `Docstore` with the abstract `DocMap`; `DocstoreProofs`.
4. `EntityMigrate`: the migration of rows and keys.
5. `Scheduler`; `SchedulerProofs`.
6. `Debounce`; `DebounceProofs`.
7. `Logging`: service, hooks and the daily file; `LoggingProofs`.
8. `ProcStream`: the streamed run and the termination of foreign children.
9. `Schema` and `Tables`, composed with the documents and their migration in `Store`;
   `StoreProofs`.
10. The operations a program runs: `Ports`, `Scans`, `Requests`, `Reads`, `Sections`,
    `Config`.
11. `Cli`: `runMain` composed with any one of these operations or a streamed run;
    `CliProofs`, which proves the operations' properties where they are used, under `runMain`.

Every safety invariant and every action property that a run checks, and the refinements of
`Mutex` and `DocMap`, are theorems now. Left, in this order:

1. `FileLock`: how much of exclusion survives outside calm environments.
2. Several sinks at once and several days of a daily file; the retention sweep.

## The modules

One module per component; `...Proofs` hold theorems. `MC...` modules hold the values for
constants that a `.cfg` cannot write, and choose between modules that one run checks side by
side. Each module keeps its *mutants* (definitions whose comment begins with "Mutant:") next
to the definition each one varies; no specification uses them.

### `FileLock`, `FileLockCalm`, `Mutex` (src/locks/index.ts)

One lock path at the granularity of system calls. `file` is the path: absent, or an inode
with its creator (a history value), the metadata in it and its age. `pc[a]` is the place of
one acquirer in `tryAcquireLock`, `acquireLock` or `withLock`; `fd[a]` says whether the
descriptor of its `openSync("wx")` still refers to the file at the path, so a write to an
unlinked inode is lost, as on disk; `limit[a]` is the bound `isStale` chose from the metadata
it read; `left[a]` is what remains of the retry schedule.

| action | code |
|---|---|
| `Begin`, `Retry` | the entry points and the schedule of `waitForLock` |
| `Open`, `OpenFails`, `Fill`, `FillFails` | `createLock`: `openSync("wx")`, then `writeFileSync` through the descriptor, either of which may fail |
| `Inspect`, `Stat`, `Reclaim` | `isStale` (metadata, pid, then mtime), and the `unlink` by path in `acquireOnce` |
| `Phase`, `PhaseWrites` | `phase`: truncate and rewrite the path |
| `Release`, `ReleaseUnlinks` | the ownership check and the unlink |
| `Crash`, `Restart`, `Tick` | death of a process, a process under the same pid, time |

Acquirers of one process share an event loop: while one is inside a synchronous block
(`MidBlock`), its siblings wait, other processes do not.

`FileLockCalm` names the environments. *Prompt*: a live holder refreshes or releases before
any contender's bound, and no process sleeps through a unit of time between judging a file
and unlinking it. *Calm*: also, contenders judge a suspect file one at a time. The code
assumes the first and nothing enforces the second; the run `lock_race` shows that without
it the lock is not exclusive, and `lock_calm` and the proofs show that it is all that is
missing. In a calm environment the file refines `Mutex`.

### `ProcRun` (src/proc/index.ts, captured runs)

A call is a fiber in `run`: it queues for a permit, spawns, joins, is terminated, returns
the permit. Beside it stand the watcher of an `AbortSignal` and the timer of `timeoutMs`.
The child is a process group: a leader and one descendant that stands for all; a
descendant may leave the group (`escaped`) and keep the pipes. The exit event and the end
of the pipes reach the call as separate events. `SigTerm` may be handled, ignored or
obeyed by each member; `SigKill` is obeyed by the group. `slain` is history: the budget
killed somebody alive. `RunOk` is what `runOk` makes of a result. Exit codes and the text
of outputs are left out. `undrained` counts the captures that have yet to settle, at an end of
their pipe or at a read error (`SeeReadError`), which signals the group but settles its own
capture only: the join (`Settled`) waits for the exit and for both. A child may close one of
its pipes while it lives (`ClosesPipe`).

### `ProcStream` (src/proc/index.ts, streamed runs)

One call of `runStreaming` (`kind = "own"`) or `terminateSubprocess` on a child that somebody
else spawned (`kind = "foreign"`). Streams carry tokens: a newline or a character. A chunk is
any non-empty prefix of what is unread; `FeedAll` is the loop of `onData` over it, token by
token (`Feed`): it splits at newlines and keeps the rest in `buffer`. `End` emits a last
fragment. `LinesOf` defines the lines of a text without reading it from left to right, by the
newlines before each character, which is what `ExitCodeIsComplete` compares with. `lines` is
what `onLine` was told, as lengths of lines; a callback may throw, which fails the drain. The
deadline emits its line before it kills, as the code does. `heard` records that somebody
listened when Node dispatched the exit event, which it does once.

### `Docstore`, `DocMap` (src/persistence/docstore.ts, entities.ts, sqlite.ts)

`blobs` maps keys to rows. A *flow* is a fiber on a connection; connections share the
database as WAL allows. An operation samples the clock (`Sample`) and then runs one atomic
statement; `Entity.update` and `patch` run two in a deferred transaction (`UpdateReads`,
`UpdateWrites` or `UpdateFails`): the read takes a snapshot, and the write is refused
once another connection has committed (`stale`). A payload is the set of flows that
contributed to it, so a lost update shows as a missing member. `EntityRow` stands for
`meta`, `resolveExpiry` and `nextExpiry`, which yield any expiry. Time may pass between the
clock read of an operation and its last statement in behaviours where `stalls` holds; it is
chosen at the start. `DocMap` is the abstract specification: documents that are put, modified,
forgotten and read. A store that does not stall implements it; for one that may,
`ModifiesTheLive` and `CleanupIsInvisible` say what remains.

### `EntityMigrate` (src/persistence/entities.ts, migrate and migrateAll)

The table is a sequence of rows in the order of the scan. Each process runs a program with a
`Registry`: its entities, with the names and versions that this program gives them. `ReadRows`
reads the rows of one of them outside any transaction, `Rewrite` runs `migrateRows` on them in
one, the turns of its loop being `MigrateRow` with the claimed keys (`Claimed`), and `RollBack`
is a refused commit. `RawRowsByPrefix` matches as `LIKE` does, which ignores ASCII case.
Between migrations processes put, modify, touch and delete documents (`Serve`).

A row has a document identity and a revision (history), a payload that may be unreadable, and a
version, which may be older or newer than the entity of whoever migrates it. Two counts are
history: `upgrades`, the versions that `migrateFn` has taken the payload through, and
`lowered`, those that an older program has taken back from the row (486, 498), leaving the
payload as it was. `MigratedAll` is `migrateAll` with nothing in between, as an operator:
`SecondRunRests` compares two runs of it.

### `Scheduler` (src/scheduling/Scheduler.ts)

A task is its place in the list; `start` forks one loop per registered task, each `Fork` a
step, and only then (`StartEnds`) adds the fibers to the Ref; `shutdown` takes the Ref,
asks all fibers to end and waits. A loop sleeps to a cron match, sleeps its jitter and runs
the task uninterruptibly. Closing a scope interrupts its fibers one by one, last first.

### `Debounce` (src/async/debounce.ts)

`trigger` and `cancel` hold a one-permit semaphore (`gate`) while they interrupt the pending
fire and wait for its end; the Ref is emptied first. A fire sleeps, becomes due, and calls
back unless it was interrupted or the debouncer was disposed. Callers may be interrupted
while they wait.

### `Logging` (src/logging/Logger.ts, sinks.ts)

An emission runs through the `onLog` tap, the sink and, for errors, `startHook`; a hook logs
one line of its own from inside. `emitUnsafe` runs in the service's `FiberSet`, as hooks do.
The daily file is a queue, one writer and `appendFile` calls that may fail or outlive the
writer. `flush` waits for the set and then for the sink; closing the scope sets the flag,
flushes the sink, interrupts the writer and last clears the set. `offered` and `due` are
histories: the order of queueing, and what each flush owes.

### `Schema`, `Tables`, `Store` (src/persistence/docstore.ts, sqlite.ts, table.ts)

`Store` is one database file: the documents of `Docstore`, and instances of `EntityMigrate`,
`Schema` and `Tables`, no two of which write the same rows.

`Schema` is the opening of a database file, fresh or of an older version, by processes that
run `initializeSchema` statement by statement: `CreateTable`, `TableInfo` (the PRAGMA),
`AddColumn`, `CreateIndex`. `known[p]` is what the PRAGMA said, which others may have
outdated; `addColumn` takes a duplicate column for done. `Close` stands for a refused
statement, a crash and the end of the scope. `broken` is history: a statement failed for
another reason than the lock.

In `Tables` processes run versions of a program that declare different indexes on one table.
A column name is the sequence of its words, since the name of an index is all column names
joined (`IndexName`); `CreateIndex` keeps what already has the name and fails on duplicates,
`Insert` ignores a row in conflict, `Upsert` deletes what it conflicts with.

### `Ports`, `Scans` (src/probes/index.ts)

A port probe is at most two connects. `socket` holds the answer of the kernel that Node has
yet to report, so that the timer can go off in between (`OnTimeout`), as it does when a
blocked loop runs again; `seen` is history, what was true of the port during the call. The
server comes and goes at any time.

A scan is at most two runs of `lsof`; `world` is what a complete one prints, as lines with a
tag and a value, and `Found` is what the parser of the answer (`Parsed`, whose turn is
`ParseLine`: `ListenerLine` or `CwdLine`) makes of it. `ScanIsHonest` compares this with a
definition by ownership of lines. The budget's kill is told (`ScanFails`); an lsof that crashes
or that something else kills (`ScanKilled`, history: `killed`) has printed some of its lines,
the last of which may be cut (`CutShort`), and counts as complete. `run` itself is `ProcRun`.

### `Requests` (src/karakeep/index.ts, services/pushover.ts, http/index.ts, async/index.ts)

One call of `addBookmark` (with tags or not) or `notify` inside `withRetry`. An operation is
a POST under a deadline (`Timeout`), which `retryTransient` repeats (`PostFails`) unless the
answer is final (`PostRefused`). The server may serve a POST and its answer be lost; a POST
that was given up is a *stray* that may be served later (`StrayServed`), even after the call.

### `Reads` (src/streams/index.ts)

One call of `streamToBuffer` or `readFileSlice`. A stream flows once somebody listens, then
ends, fails, or is destroyed by its owner without an error, of which the call hears nothing.

### `Sections` (src/services/logfile.ts)

Fibers that write a section each. `StartWrite` takes the permit and evaluates the flag
(`hasTruncated`); `FileOpens` and `ChunkWritten` are what the operating system does, at the
offset of a descriptor opened with "w" or at the end of the file; interruption aborts and
frees the permit at once while what is under way still completes (`After`).

### `Config` (src/config/toml.ts, aliases.ts, errors.ts)

A key that was renamed, in a TOML file and in the environment. The layer is made from the
file (`FileRead`: missing, broken or unreadable), then readers ask for the key by path or by
dotted name: `Direct`, then the old names one after another (`TryOld`), each load an effect
that others may overtake, a warning once per name, and `withRemedy`'s second lookup
(`probing`) that tells a missing value from a refused one.

### `Cli` (src/cli/index.ts, with the modules of the operations)

`runMain` with a program that performs one operation. The operations are instances: `Step`
is a step of the operation, `Signal` interrupts it (`InterruptOperation`) wherever it is,
`ProgramEnds` is its exit, followed by the flush (`FlushEnds`) and the observer (`Exit`),
which prints and chooses the code: a program resolves any of the numbers in `Codes`, which may
be those that failures and interruptions have. Signals before, during and after the operation
and during the flush are all one action; the operation decides what it makes of its
interruption. One that had not begun when the signal came does not begin (`NeverBegun`), but for
a termination, which is a finalizer. A program may also interrupt itself (`InterruptsItself`).

## The runs

| run | module, cfg | checks | shows |
|---|---|---|---|
| `lock_calm` | `FileLockCalm.cfg` | `MutualExclusion`, `OnlyOwnOrAbandonedRemoved`, `ImplementsMutex` | in a calm environment the file is a mutex and only own or abandoned files are removed |
| `lock_live` | `FileLockLive.cfg` | `AcquireEnds`, `LockRecovers` | acquires end, and no leftover file blocks for good |
| `lock_race` | `FileLockRace.cfg` | `MutualExclusion` (violated) | two reclaimers of one crashed holder's file both get the lock |
| `run_calls` | `ProcRun.cfg` | `PermitsAreSlots`, `EndsJoined`, `CutOutputIsMarked`, `CancelledCallEnds` | permits, joins, marks and termination of captured runs |
| `proc_handover` | `ProcStreamHandover.cfg` | `TerminationEnds` (violated) | `terminateSubprocess` hangs on a child a signal killed before |
| `store` | `Store.cfg` | `ModifiesTheLive`, `CleanupIsInvisible`, `ImplementsDocMap` (`Docstore`); `MigrationIsSound`, `NothingLost` (`EntityMigrate`); `OpenedIsComplete` (`Schema`); `UniqueIsEnforced` (`Tables`) | the store is a map of live documents and no update is lost; an undisturbed migration is lossless, versions are true among programs of two ages, and a second run rests unless names or keys collide; a store that opened is complete; unique indexes hold |
| `migrate_busy` | `MigrateBusy.cfg` | `NothingLost` (violated) | a migration beside another process overwrites newer documents |
| `scheduler` | `SchedulerTurns.cfg` | `NoOverlap`, `TurnsInv`, `KeepsFiring`, `StoppingEnds` | runs never overlap, no loop escapes, hanging tasks delay nobody, stopping ends |
| `debounce` | `Debounce.cfg` | `FireInv`, `LatestFires`, `FiresOrReplaced`, `CallsEnd` | one pending fire, the last trigger calls back, nothing hangs |
| `logging` | `Logging.cfg` | `LinesAreKept`, `FileInOrder`, `FlushEnds` | flush and close wait for what they owe; lines land in order |
| `cli` | `Cli.cfg` | `ExitTells`, `NothingLeftBehind`, `ProcessExits` of `runMain`; of the operations under it `StreamedIsWhole`, `NoLateLine`, `StreamEnds`, `ProbeIsHonest`, `ScanIsHonest`, `AnswersAreTrue`, `ReadsAreWhole`, `SectionsStand`, `SettingsAreTrue`; `TypesOK` | a signal at any step spoils no operation's promise; exit code and output are true; the process ends and leaves nothing behind |
| `logfile_race` | `LogFileRace.cfg` | `WrittenStays` (violated) | a section interrupted alone can wipe or overwrite the next one |

Under `runMain` a signal interrupts all sections together, and then `WrittenStays` holds
(it is part of `SectionsStand` in `cli`); `logfile_race` interrupts one alone. Invariants of
typing are conjuncts of the properties (`LinesAreKept`, `MigrationIsSound`,
`OpenedIsComplete`, `UniqueIsEnforced`, `TypesOK`) or of proved invariants.

### Bounds, and why they are enough

* **Locks.** Ages and bounds are small numbers of coarse units: only their order matters,
  and `AgeCap` is above every bound. `lock_calm` has two fibers of one process and one of a
  process on another host, which gives all three ways in which the holder of a file relates to
  a contender (same process, other process, other host). `lock_live` needs two processes, one
  that waits and one that tries once; `lock_race` needs three, the crashed holder and two
  contenders. One crash per behaviour (`MaxCrashes`) suffices for every leftover file: the
  restarted process goes through the same states as one that never crashed.
* **Captured runs.** Two calls and one permit: the second queues while the first lives, and
  calls meet nowhere but in the permits. The theorems lift the bound.
* **Store.** A behaviour is about one of four instances; the others rest in one state.
  *Documents*: two flows on two connections, two keys, one entity and two moments: an update, a
  competing write and a row that expires in between; the theorems lift these bounds.
  *Migration*: two processes, an old and a new program, each with an entity whose name `LIKE`
  does not tell from the other's and one that both have, at versions 0 and 1; three ids (a chain
  of moves and a rejected one), at most two rows and two documents, and one version taken back
  per row (`MaxLowered`): collisions need two rows, an upgrade that is undone and done again
  needs two versions. The theorems lift these bounds, `MaxLowered` too.
  *Schema*: two processes, all four columns and both
  indexes; the theorem lifts the number of processes. *Tables*: two processes, three versions
  (no index, a unique one, a plain and a unique one whose names collide), three columns, at
  most two rows; the theorem lifts them all.
* **Streamed runs.** Two tokens on stdout (a line and a fragment, cut anywhere) and a second
  stream that ends on its own; `MaxText` names the bound, which the theorems lift.
* **Probes.** At most two attempts, as in the code. `Prints` holds all outputs of three lines
  about two processes (but thinned: the first value is not the second process, and no names in
  answers about directories) and two of six in which a process comes back; the theorem is about all
  outputs.
* **Requests.** Two calls of at most three POSTs each, which is `retryTransient`'s number.
  `Retryable` leaves `attachTags` out: a program that repeats `addBookmark` after a tag
  failure asks for a second bookmark. The theorems lift the numbers.
* **Reads, sections.** Two chunks: a part and the whole; two sections. The theorems lift both.
* **Settings.** Two readers and a key renamed twice; the theorem lifts both. The initial
  states are thinned: the first reader asks by path, no bad value in the environment, and a
  file that is required only where it is missing.
* **Scheduler.** Two callers, two tasks (one runs at start, one hangs) and four loops: two
  starts of two tasks. The theorems lift the bounds.
* **Debounce.** Two callers, the closer and three fires: a fire, its replacement, and one
  more. The theorems lift the bounds.
* **Logging.** Two emissions (at any two levels, by `emit` or `emitUnsafe`) with a hook line
  each, one flush and the closing of the scope. The theorems lift the numbers.

`CHECK_DEADLOCK FALSE` stands only where nobody has to act: `Debounce`, `Logging` and
`Scheduler` serve callers who may never come, a program under `runMain` may wait for a child
or a stream for ever, and sections end. `ProcRun` says explicitly when it may stop, so that a
stuck call is a deadlock; `FileLock` and the instances of `store` never stop.

## Fairness

* Every fiber that can run does (weak fairness). Node's event loop and Effect's scheduler
  give every runnable fiber a turn.
* What waits for a semaphore or for an event loop is strongly fair: Effect's `Semaphore`
  serves waiters in order, and a loop that is free again and again reaches every fiber. This
  is `Progress` of the locks, `CallSteps` of `ProcRun`, `Proceed` of `Debounce`.
* Timers fire and the kernel reports exits and ends of pipes.
* `Cli` has one weak fairness, of `Progress`: the steps that the program's fiber, its timers
  and the kernel's reports of what has happened take by themselves. Each of them can be taken
  a bounded number of times, so that none can starve another for good. No child exits, no
  server answers, no stream ends and no signal comes by itself: `ProcessExits` says of which
  operations this is enough. It assumes that a flush the program gave to `runMain` ends
  (`FlushEnds`): the code waits for it without a bound.
* In `Logging`, taps, hooks and appends end; one that hangs stops the logger by design of
  `flush`.
* Nothing external is forced: children need not exit, callers need not cancel, tasks may
  hang, writes may fail, statements may be refused.
* `LockRecovers` also assumes callers that keep asking, crashed processes that are started
  again and a disk that does not refuse every write (`EagerSpec`); `AcquireEnds` needs none
  of these, though the run checks both under the same specification.

## The proofs

All theorems hold for every value of the constants that satisfies the named `ASSUME`s. The
assumptions are typing and little else: `LockAssumption` says that ages do not saturate below
a bound, `DocAssumption` that `Never` is no time, `AbsentAssumption` and `NoFileAssumption`
that missing values are not values.

* **`FileLockProofs`.** `TypeCorrect` for every environment. `CalmInvariant`: `CalmInv` is
  inductive with typing. Mutual exclusion alone is not: it needs that each handle still owns
  the file at the path (`HandleOwnsFile`), which a contender breaks only by unlinking, so it
  needs that a contender about to unlink judges rightly (`VerdictsAreSound`), which time
  would break, so it needs `Timely`; and `SerialReclaim`, because a sound verdict is spoilt by
  another contender that reclaims first. `CalmExclusion`, `CalmRelease`,
  `CalmRemoval` (only own or abandoned files are removed) and `CalmImplementsMutex` follow; the
  last maps `InCritical` flows to the holders of `Mutex`.
* **`ProcRunProofs`.** `RunInvariant`: `RunInv` is inductive. It counts the permits
  (`PermitCount`; `free` stays a number of permits only because of it, so typing is not
  inductive alone), says that a child appears only under a permit and that an exit is seen only
  after it happened (`ChildInv`, which `EndsJoined` needs), and that the Ref is set before the
  budget's signal (`MarkInv`). `EndsJoined` counts captures: both have settled, whichever failed. `TypeCorrect`, `PermitsBalance`, `CallsEndJoined` and
  `CutIsMarked` follow, for any number of calls and permits.
* **`DocstoreProofs`.** `TypeCorrect`; `SnapshotCorrect`: `StoreInv` is inductive with typing (a
  snapshot that is not outdated equals the table at its key, however long anything stalls; no
  sampled time is ahead of the clock, nor behind it where nothing stalls). From it follow
  `ModifiersKeep` (touches and updates change only what was live when they looked at the clock,
  and drop no contribution), `CleanupCorrect` (no cleanup removes a row that is live now) and
  `DocMapRefined`: a store that does not stall implements `DocMap`. A write is a put, a touch
  into the past and a passing moment are a forgetting, an update is a modification of the
  document as it is.
* **`SchedulerProofs`.** `TypeCorrect`; `TurnsInvariant`: while callers take turns every live
  loop is where whoever ends it will look for it (`InHand`), a start meets no loop of the
  tasks it has still to fork (`StartsFresh`), so no task has two loops (`OneLoop`);
  `RunsNeverOverlap` follows.
* **`DebounceProofs`.** `TypeCorrect`; `OnePendingFire`: `FireInv` is inductive. `OnePending`
  and `CancelSticks` are what the documentation promises; `GateInv` makes them inductive: the
  pending fire is the last one forked and is taken out of its Ref before the holder of the
  permit suspends. `CallsBackLatest` is the action property that follows.
* **`LoggingProofs`.** `NoLineIsLost` and `LinesLandInOrder`, for any number of emissions,
  hooks and flushes. `KeptInv`: a line that has been to the sink is in the queue, in the
  writer's hands, in the file or failed (`Kept`); a flush on the queue is behind every line it
  is to wait for, whose hooks it has waited for in the set (`QueuedBehind`, `HooksAwaited`), so
  that when it is answered they are in the file (`Answered`); the scope closes only past its
  own flush (`ScopeFlush`). `OrderInv`: file, line in hand and queue, read one after the other,
  are in the order of the offers.
* **`StoreProofs`**, of `Store`. `OpeningsComplete`, for any number of processes, columns and
  indexes: a process past a statement finds its effect, whoever caused it (`TableStands`,
  `ColumnsStand`, `IndexesStand`), and no PRAGMA claimed more than is true now (`KnownStands`),
  which is what makes it safe to skip an `ALTER`. `UniqueStaysUnique`, for any declarations:
  the rows keep to the unique indexes there are, and a handle past an index finds one of that
  name (`TablesInv`). `RowsStaySound`, with any number of processes
  that migrate and serve at once, any registries and whichever writes are refused: keys differ,
  `VersionsAreTrue`, and `SecondRunRests`. Rows that a migration has read are as sound as those
  in the table (`RowsInv`). That a second run rests is proved from the loop: after the turn of
  a row, that row is migrated, unreadable, or occupied by a row that stays, and no later turn
  changes that unless rows are chained; entities whose names differ to `LIKE` have no row in
  common. `MigrationsSound` and `MigrationsLoseNothing` are the same in the store, where nothing
  is written between read and rewrite (`PlansAreCurrent`): no document and no revision is lost
  or brought back, however keys collide.
* **`CliProofs`**, of `Cli`. `PartsStep` says that a step of the program is, to each operation,
  a step of its own, its interruption or nothing, so that an invariant of an operation's module
  is one of the program; the same theorem shows the operation correct and that no signal spoils
  it. Of the streamed run: `NoLineIsLate` and `EndsAreJoined` from `StreamInv` (lines are read
  while the call joins; an exit that was heard was seen); `LinesAreWhole` from `TextInv`, which
  says that a drain under way has split what was read from its pipe (`Split`, `ReadsWell`) and
  a drain ends when nobody is left to write (`NobodyWrites`). Of probes: `ProbesAreHonest`
  (what the kernel has answered, an attempt has settled on or the call has returned was so
  during the call: `AnswersWereSeen`). Of scans: `ScansAreHonest`; after n lines the parse is
  what they say by ownership (`ListenersRight`, `CwdsRight`), whatever was printed. Of requests:
  `RequestsAreAnswered` from `RequestsInv` (no tags are on their way before the bookmark is
  known, `TagsFollow`; a POST answered with success has had its effect, `Served`). Of reads:
  `ReadsAreComplete`. Of sections: `SectionsAreKept`, from who may be at the file
  (`OneAtTheFile`), what of a section is in it (`TailIsWritten`), and that only the first one
  truncates (`FirstTruncates`). Of settings: `ReadersAreToldTheTruth`, for any number of
  readers and old names: a reader on its way has found no earlier name set (`OnTheWay`), so
  what it finds is what `Expected` defines without order (`FoundRight`), and the Set and the
  readers about to warn account for every warning (`OneWarns`). Of `runMain`: `ExitCodesTell`
  and `NothingIsLeft` from `MainInv` (operations that the program does not perform are as they
  began, and one that says "interrupted" was signalled); `ExitCodesTell` holds for any set of `Codes`. `AllTyped`: all variables keep their
  types and all counts their bounds. For requests this needs a count: POSTs served, on their
  way or given up are never more than the calls and tries so far allow (`Counted`), since a
  bookmark that the model bounds by `MaxPosts` is one that some POST asked for.

Recursive functions are proved by least counterexample: `AllTurns` (every turn of a loop keeps
what it finds) follows from `Least` (every set of numbers has a least one), and a lemma unfolds
each function into its turns (`FedStates`, `ParseStates`, and `LoopHasStates` for the loops of
`StoreProofs`). This replaces the library's induction theorems, which take an operator as a
parameter. It is why the models write loops as functions on `0..n` rather than with folds.

The assumptions `CliAssumption`, `LoggingAssumption` and `StoreAssumption` say of the constants
what the configurations have: bounds are numbers, a call is attempted once at least, an index
is on columns that exist, `Scope` is no flusher, and, the only one about a program,
that `addBookmark` is not repeated because of its tags.

**Model-checked only:** the liveness properties, since fairness and what it enables are out of
the prover's reach: `AcquireEnds`, `LockRecovers`, `CancelledCallEnds`, `KeepsFiring`,
`StoppingEnds`, `FiresOrReplaced`, `CallsEnd`, `FlushEnds`, `StreamEnds` and `ProcessExits`; and
the four violations, which are counterexamples. The theorems about exclusion and runs that
do not overlap assume the environments `Calm` and `Turns`, without which they are false.

## Where the code and its documentation disagree

* **Two reclaimers** (`lock_race`; `locks/index.ts:264`). Two contenders judge the file of a
  crashed holder stale. The first unlinks it and creates its own; the second then unlinks by
  path what it judged before, which is now the first one's lock, and creates another. Both
  hold the lock, against `README.md:239`.
* **Migration beside another process** (`migrate_busy`; `persistence/entities.ts:442`). Rows
  are read before the transaction that rewrites them. A document that another process changes
  or deletes in between is overwritten with, or brought back from, the old read.
* **A second migration** (`SecondRunRests` in `MigrationIsSound`, run `store`;
  `persistence/entities.ts:471`). The comment at 432 says "Idempotent", and
  `entities.spec.ts:479` "a second pass rewrites nothing". That fails in two cases, which
  `SecondRunRests` excepts. A row whose target is the key of a row that itself moves away is
  skipped, and the next pass rewrites it: with ids 1 and 2 that become 2 and 3, the first pass
  rewrites one row and the second the other. And two entities whose names differ only in ASCII
  case re-key each other's rows on every `migrateAll` and never come to rest, because the prefix
  query is a `LIKE` (`docstore.ts:57`).
* **Rows of a newer program** (`VersionsAreTrue` in `MigrationIsSound`, run `store`;
  `entities.ts:498`). The comment at 430 says that rows get the "current payload version (via
  `migrate`)". A row with a higher version than the entity's (after a roll-back, or with two
  programs on one database) gets the lower version and keeps its payload, and the newer
  program then upgrades the same payload again.
* **A scan that dies** (`ScanIsHonest`, run `cli`; `probes/index.ts:196`). The comment at 207 says
  that `lsofScan` "never reports an unfinished scan as an empty world". The exit code is not
  read, and only a blown budget is told: an `lsof` that crashes, or that is killed by anything
  else, is complete with what it had printed, which may be nothing. `ScanIsHonest` requires the
  whole output of every other answer.
* **`terminateSubprocess`** (`proc_handover`; `proc/index.ts:714`). Node leaves `exitCode` null
  for a child killed by a signal. A child that died so before the call is taken to be alive,
  and its exit event has already been dispatched: the call waits for ever. It is called in a
  finalizer, which no signal reaches, so that a program under `runMain` does not end either:
  `ProcessExits` excepts it.
* **Sections that are interrupted alone** (`logfile_race`; `services/logfile.ts:56`). The permit
  is free as soon as the signal is aborted, while the operating system may still be opening
  the file with "w" or finishing a write: the section written next can be wiped or overwritten
  although it has succeeded, against lines 11-12.
* **Dotted names and the environment** (`Expected` in `Config`, run `cli`; `config/toml.ts:190`).
  The comment at 14-17 says that a dotted name reads the same value as the nested path. Under
  `layerTomlWithEnv` the environment answers for the path only: with `paths_main_clone` set,
  `Config.string("paths.main_clone")` still reads the file. Nor are the old names of a key
  consulted for its dotted name. `SettingsAreTrue` states what the code does.

## Boundaries worth knowing

Found while modelling; the models contain the behaviour and the properties state what
remains true.

* Locks: a holder that was suspended past the bound and then records a phase rewrites the
  new holder's file and later deletes it (`locks/index.ts:206`, against the comment at 85-86);
  the calm environment excludes it.
* Captured runs: the budget may fire after the child has exited by itself and then marks the
  result `timedOut` (`proc/index.ts:424`); `CutOutputIsMarked` is an implication for this
  reason. A child that handles SIGTERM of an abort by exiting zero yields an ordinary result
  (415). A descendant that left the group keeps the pipes open and the join is unbounded (335),
  which `CancelledCallEnds` excepts.
* Streamed runs: the deadline's line is reported before the kill; if the callback throws the
  child is not killed (681). A cancelled stream waits for the leader only, so a member of the
  group that ignores SIGTERM can outlive the call (634). The deadline's own line (681) is not
  among `lines`: `StreamedIsWhole` and `NoLateLine` are about what the child wrote.
* Document store: a touch or an update that waits for the write lock past the expiry of its
  row revives it (`docstore.ts:361`, `entities.ts:358`). This is why the refinement is about
  stores that do not stall; `ModifiesTheLive` and `cleanupExpired`'s promise need no such limit.
* Migration: what an entity reads from, or makes of, a row older than itself is undefined, as
  `entities.ts:96-98` says; in the model no program modifies such a row. An entity with a
  version above 0 is taken to have a `migrate` function.
* Scheduler: a second `shutdown` that overlaps the first returns at once, with runs in flight
  (`Scheduler.ts:152`); two overlapping starts run a task twice. `TurnsSpec` excludes both.
* Logging: a flush during or after the closing of the scope may never return
  (`sinks.ts:195`), which `FlushEnds` excepts. Lines of hooks, or of emissions still in their
  tap, that come after the sink has closed are lost; `CloseKeeps` (in `LinesAreKept`) is about
  what was logged before. A hook that itself calls `Logger.flush` waits for the set to
  be empty of its own fiber and never ends (`Logger.ts:356`); the hooks of the model do not. The
  retention sweep goes by prefix (`sinks.ts:163`): a sink named `app` also sweeps the files of
  one named `app-worker`, by its own number of days.
* Debounce: a trigger that is interrupted while it waits for the old fire to end takes the old
  callback down with it; `FiresOrReplaced` names this case (`cut`).
* Tables: `IF NOT EXISTS` goes by name. If a version has made an index of the same columns that
  is not unique, or one of a column `a_b` where another declares `a, b`, a unique index is not
  made and nothing says so (`table.ts:91`); `UniqueIsEnforced` excepts names that two
  declarations claim. Columns that a later version adds are not added to a table that is there.
* Requests: a POST that is repeated, or served after its deadline, creates further bookmarks
  (`karakeep/index.ts:82`); a failed `createBookmark` does not mean that there is none.
  `AnswersAreTrue` is about the one that is answered for.
* Sections: `hasTruncated` is set before the write that truncates (`logfile.ts:79`); if that
  write fails to open the file, the old contents stay and later sections are appended.
* Reads: a stream that other code destroys without an error emits neither `end` nor `error`, and
  `streamToBuffer` waits until it is interrupted (`streams/index.ts:28`).
* `runMain`: a signal during the flush may replace the result of a program that has already
  succeeded or failed, as the runtime chooses (`Exit`); `ExitTells` ties what is
  printed to the failure of the operation only where no signal came and the program did not
  interrupt itself. A program may resolve 1 or 130 itself: those codes alone tell nothing, which
  is why the property starts from what is printed.

## What is not modelled

* Inside modelled components: line formats, `sanitizeLine`, display helpers (`humanAge`,
  `lockLabel`) and `lockStatus`, which change nothing; spans and log output; CBOR, validators
  and key encoding, except that they may fail or collide; `dockerized` paths; queries of
  tables; the lengths of delays between retries, of which only the number and the conditions
  are kept; request bodies and the texts of errors; `isUnderPath`, a comparison of strings;
  TOML syntax and `constantCase`; what `renderFailure` prints.
* Logging is `partly` modelled: one daily file and one day. The retention sweep's choice of
  files is a pure comparison of dates (its place and failure are modelled); console and memory
  sinks have no queue; the tracer turns spans into lines.
* `boundary` and `react`: every function forks its argument on a runner and hands its fiber, or
  a Promise of it, to the caller. Whatever happens afterwards is Effect's or React's runtime;
  there is no state of their own to state a property about.
* `config/base.ts` (field definitions, redaction of printed values), `text`, `utils/strings`,
  `collections`, `markdown`, `xml`: pure functions of strings and maps, character by
  character. `splitTextIntoChunks` can return a chunk above its limit for a sentence that is
  longer; example-based tests are the better tool. `errors`, `types`, `testing` and `vitest`
  hold error values, types and test helpers.
* External, modelled from use: the kernel and the file system, `lsof`, SQLite's WAL and
  snapshots, the servers and the network, Node's event dispatch, Effect's `Semaphore`, `Scope`,
  `FiberSet`, `Queue` and schedules.

## Commands

    tlc -workers 2 -config FileLockCalm.cfg MCFileLock
    tlapm FileLockProofs.tla

The module of each run and its configuration are listed in `PROJECT.json`. Runs take between
a second and a little over three minutes with two workers. From nothing, `CliProofs` is
proved in about six minutes, `StoreProofs` in about four, the others in less than two.
