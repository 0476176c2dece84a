# Formal model of the Fastify template

TLA+ specifications of the parts of this service in which concurrency, failure
and time decide whether it is correct: the asynchronous write path of the
message module, the response cache in front of its list and the pages a client
walks, the keys of that cache, the single-flight lock of the cache service, the IP ban,
the deletion of a folder in S3, and boot and shutdown of a process; and of the tools
that keep the repository's conventions: the lint configuration and its rules, the
migration checks of CI, the generators. TLC checks them on small instances,
TLAPS proves the central properties for every instance. Paths below are
relative to the repository.

`tlc -config X.cfg M` runs a configuration, `tlapm M_proofs.tla` checks a
module's proofs. `PROJECT.json` lists every run, and for every definition the
source lines it stands for.

## 1. Inventory

### Processes

* **API process** (`src/index.ts`, `src/server.ts`): Fastify, plugins, routes. Any
  number of them behind a proxy, each with its own clock.
* **Worker process** (`src/worker.ts`): the BullMQ workers of the modules. Any
  number.
* **Redis**: the queue, the response cache, the locks of `wrap`, the counters
  of the IP ban and of the rate limit. **Postgres**: the messages.

### Components

| component | state | operations | talks to |
|---|---|---|---|
| Message routes, handler, `messageJobService` (`modules/message`) | none of its own | create, update, delete: validate, check existence, enqueue, answer 202; list | repository, queue, response cache |
| Message queue and worker (`modules/message/mq`) | BullMQ's lists, attempts, lock of each job | take, execute, complete, delay, fail, stall | `messageService` |
| `messageService` / `messageRepository` | table `Message` | `createIfAbsent`, `updateIfNotNewer`, `deleteById`, `findPage`, `assertExists` | Postgres, cache |
| Cache plugin (`plugins/cache.ts`) | replies in Redis, per route and query | look-up before a handler, store after it | `cacheService` |
| `cacheService` (`lib/cache`) | keys of a namespace, lock keys | `wrap`, `invalidate`, read, set, remove | Redis |
| IP ban (`lib/ipBan`, `plugins/ipBan.ts`) | a counter and a ban key per address | refuse, register an attempt | Redis |
| S3 and GCP bucket services | objects in the bucket | upload, delete, `deleteFolder` | SDKs |
| Boot and shutdown (`server.ts`, `index.ts`, `worker.ts`, plugins' `onClose`) | open connections | start, close with a grace period | everything |
| Cache keys (`lib/cache/cache.util.ts`) | none | the key of a request of a cached route | cache plugin |
| Generators (`cli/`), `scripts/check-generators.mjs` | files of a module, shared files | `generate:module`, `generate:repository`, the probe of `check:generators` | the working tree |
| Migration checks (`scripts/check-migrations.mjs`, `check-drift.mjs`) | none; they compare trees | check a pull request | git, CI, the deployment |
| Lint (`eslint.config.mjs`, `scripts/eslint-rules`) | the configuration of a file; what a rule has seen of one | report | the author, who edits |
| Rate limit, CORS, JWT, env, Swagger, Zod, error handler | configuration | - | libraries |

### What is hard, and what makes each component correct

* **Writes.** BullMQ delivers at least once. A failed attempt is delayed and
  re-queued behind newer jobs; a statement may have committed although its
  answer was lost; a stalled job is executed again while the worker that lost
  its lock is still at it; API hosts stamp jobs with different clocks; the
  existence check and `Queue.add` are two steps. Correct means: an older write
  never replaces a newer one, a completed write stands, a deleted message is
  not brought back by an update, no accepted write is dropped unless the
  message was deleted, and every job ends.
* **List cache.** The fill reads the table and stores a moment later; a worker
  invalidates in between; the invalidation may fail or its worker may die
  before it. Correct means: a page that differs from the table has a known
  reason and a bounded life.
* **`wrap`.** The lock has a lease, waiters have a patience, entries expire,
  processes die, Redis fails. Correct means: one resolver at a time while
  nothing is slow or fails, nobody removes another caller's lock as long as no
  lease ends before its work, nobody waits for ever.
* **IP ban.** Three commands, each of which may fail, with other requests of
  the address in between. Correct means: a ban is earned within one window,
  and it ends.
* **Paging.** The cursor is the id of a row that may be deleted before the next
  page is fetched, rows are created meanwhile, and each page may come from the
  cache. Correct means: no row twice, none passed over while its neighbours
  are listed, and the walk ends.
* **`deleteFolder`.** Each page is deleted before the next is listed, while others
  upload. Correct means: what was there at the start is gone at the end.
* **Boot and shutdown.** Plugins find each other by decorators, which are undefined
  without an error while they are missing; the Worker takes jobs before the server is ready;
  the `onClose` hooks run while jobs and requests are served. Correct means: the
  declared dependencies cover the decorators that are read, nothing served loses
  its connections, exit code 0 means that nothing was cut off, and a shutdown ends.
* **Cache keys.** What tells two requests apart is joined with a separator, and the values
  may hold it. Correct means: who is answered from the cache gets the answer to his own request.
* **Generators.** A command writes ten files one after another and extends shared
  ones by searching their text; it may be killed in between and is run again. The probe of
  `check:generators` works on the repository itself. A repository may go into any module
  (`--module`), its Cradle entry and messages are shared by all. Correct means: all of it or
  nothing, no entry of what is not there, entries that compile, and no trace of the probe.
* **Migration checks.** Requests are checked one by one, against main as it was, and merged
  in another order; a migration's place is its name, not when it was merged. Correct means: main's
  migrations reproduce its schema, production gets that schema, and nothing merged is rewritten.
* **Lint.** Some seventy blocks set options of one rule for overlapping files, and the last
  one wins silently; each rule looks at one import or one block at a time; an edit
  that one rule asks for may trip another. Correct means: no check is lost, no chain of allowed
  imports reaches what the layers forbid, reads are reported exactly when a run repeats them, and the edits end.

The hazards, at their lines, are in `PROJECT.json`.

## 2. The modules

| module | what it is |
|---|---|
| `MessageStore` | the table and the repository's statements, as operators |
| `MessageWrites` | clients, queue, workers: the write path; EXTENDS `MessageStore` |
| `MessageRegister` | the abstract specification: a versioned register per message |
| `MessageListCache` | the cache plugin on `GET /messages`; EXTENDS `MessageWrites` |
| `CacheWrap` | `cacheService.wrap` on one key |
| `IpBan` | the ban of one address |
| `Pagination` | a client that walks `GET /messages` by cursor |
| `S3Folder` | `deleteFolder` and a bucket that others use |
| `CacheKey` | which requests of a cached route share an entry |
| `Lifecycle` | one process, API or worker, from boot to exit |
| `DuplicateReads` | the rule `no-duplicate-repository-read` against the runs of a block |
| `FactoryHelpers` | the three rules on functions of a factory and the edits they ask for |
| `RuleBlocks` | the blocks of `eslint.config.mjs`, as data |
| `RuleCascade` | how ESLint makes one configuration of them; EXTENDS `RuleBlocks` |
| `LayerImports` | where imports that pass the lint lead; EXTENDS `RuleBlocks` |
| `Migrations` | pull requests, main, the checks of CI and the deployment |
| `Generators` | `generate:module`, `generate:repository`, `check:generators` |
| `MCStandalone`, `MCConventions` | several components that share no state, in one run each |
| other `MC*` | instances for TLC: workloads, symmetry, and the statements of the documentation that the runs `doc_*` refute |
| `MessageWrites_proofs`, `MessageListCache_proofs`, `CacheWrap_proofs`, `Lifecycle_proofs`, `DuplicateReads_proofs`, `Generators_proofs` | theorems about the module of the name, with their proofs; `MessageListCache_proofs` EXTENDS `MessageWrites_proofs` |
| `Standalone_proofs`, `Conventions_proofs` | the same for the other modules that `MCStandalone` and `MCConventions` put together, and for these two |

`MCStandalone` EXTENDS `Pagination`, `S3Folder`, `IpBan` and `CacheKey`,
`MCConventions` EXTENDS `DuplicateReads`, `FactoryHelpers`, `RuleCascade`, `LayerImports`,
`Migrations` and `Generators`. Their variable `focus` says which
component a behaviour is of; the others stay at rest, where nothing that is
fair is enabled. A property of such a run therefore says of each behaviour what it
says of the component alone.

Definitions called "mutant" in a comment are wrong variants of the definition
that follows them, one for each property: replacing the definition by the
mutant must make TLC report the property, which shows that the property can
fail. Nothing refers to them otherwise.

### MessageStore and MessageWrites

`table` maps an id to its row. A row keeps, per column, *which job* supplied
the content (`writer`) instead of the content, and `updatedAt`. Times are
ticks of the timestamps `Queue.add` gives. `Apply` is `processMessageJob`
down to the SQL statement: `upsert` with an empty update, `updateMany` where
`updatedAt <= timestamp`, `deleteMany`.

A request is one or two actions: `EnqueueCreate`, or `AssertExists` and then
`EnqueueChecked` (or `EnqueueFails`, because the producer connection has no
offline queue). A refused request (404, 400) changes nothing.

A worker goes through `Take`, `Write` (or `WriteFails`: the statement did not
commit, or did and the answer is lost), `Recheck` (the second statement of
`updateIfNotNewer`, after a count of 0), `Invalidate`, and one of `Complete`,
`FailAttempt`, `FailForGood` (`NotFoundError` becomes `UnrecoverableError`).
A stale update is completed without an invalidation, as in `updateMessage`.
`Crash` may strike before every step.

BullMQ is code outside the repository. It is modelled as far as the module
relies on it: first-in first-out waiting list, `attempts` counted on ordinary
failures, a delayed job goes to the end of the list when its backoff ends,
a job whose lock ran out goes to the head of the list `maxStalledCount` times
and then fails, and only the owner of the lock may settle a job. A job may
stall while its worker is alive, because a lock is renewed by a timer the
process may be too busy to serve.

Job data is validated before it is executed (`processMessageJob`); jobs are
added through the same schemas, so the data of a job is always well formed
and the branch that discards a malformed one is not an action.

### MessageListCache

One entry stands for the keys of the namespace (page sizes, cursors), since
`invalidate` unlinks each of them at some moment of its scan. A reader does
`Hit`, or `Miss`, `GetMessages`, `Store`. `Tick` ages the entry. A worker's
`Invalidate` becomes `InvalidateList` or `InvalidateFails`. `doubt` and `abandoned`
are history that nothing reads but the property. `doubt` records that an
invalidation ran while the entry was being filled or that one failed;
`abandoned`, set by `GiveUp`, that a worker went away short of its invalidation when it
had already lost the lock of its job: then the job may be completed, and
nobody invalidates in its place. `NextJob` numbers the jobs one after another.

### CacheWrap

Time is counted in poll intervals, the unit `waitForCache` sleeps in; `LockTtl`
and `MaxWait` are `CACHE_LOCK_TTL_MS` and `CACHE_LOCK_MAX_WAIT_MS` in it.
The lock key holds a constant in Redis; the model adds who set it (`holder`),
which no guard reads. What may go wrong in a behaviour is chosen at its start (`faults`): nothing, or any of `Faults`, as often as it
likes. The code puts no bound on the resolver: with the fault
`"slow"` an acquirer takes as long as it likes from its `SET NX` to its `UNLINK`, beyond
the lease too. Only where nothing goes wrong does `MaxHold` bound that time (`Due`): single flight
needs that, and is claimed of those behaviours alone. `overrun` is history: a lease was over while the caller that had set it
was still at work (`LosesLease`). Callers that found Redis unavailable or
gave up waiting may be slow in any case.

### CacheKey

A text is a sequence of tokens: the separator, the quote and the backslash, which matter
to the key, and everything else. `RouteKey` joins method, path,
`SerializeQuery`, the headers to vary by and `varyBy`; `Stringify` is what `JSON.stringify`
does to a value of the query: a string is put in quotes and `Escape`d, a number or boolean
is written as it is, with neither a quote nor a `=`. Objects and arrays as values are left out. `MissStores` and `Expires` are the cache plugin's store and the
entry's end; whoever comes with the key of the stored response is answered with it.
The hash of the key is taken for the key.

### IpBan

`attempts`/`window` are the counter key and its expiry, `ban` the rest of the
ban, `probes` a history of the probes counted: their ages, oldest first, without those that
have left the window (`Aged`). `Count` is the
`MULTI INCR, EXPIRE NX`, `Ban` the `SET EX`, `Clear` the `UNLINK`; each has a
failing form in which, where it matters, the command was carried out and the answer lost.
Requests are not ordered: several may pass the ban check before it is set.

### Pagination

Ids are naturals in the order of the UUIDs; a create may take any id, as a client may
choose its own. A cursor is an id, `Start` (no cursor) or `End` (a null
`nextCursor`). `FindMany` is the query with `take`, `orderBy` and `cursor`: Prisma
compares with the row of the cursor, so a cursor that is gone gives an empty page.
A client is shown a page in the order of its query (`NewestFirst`).
It takes each page from the cache (`Hit`) or the table (`Miss`), other
clients `Fill` entries, and `Drop` is an expiry or an invalidation.
`kept` (of a page), `stayed` and `cut` are history: which rows are there since everything
the client saw was read, and whether its cursor's row was gone.

### S3Folder

Objects are naturals in the order of their keys; a continuation token stands for the last key
listed. `List` and `DeletePage` are the two commands of the loop, `Continue` is
its condition, `DeleteFails` the page with errors, after which the call throws. `Upload`
and `DeleteFile` are everybody else, who reach the bucket through signed URLs. `old` is history:
the objects that are there, unwritten, since the call began.

### Lifecycle

`opened` is the order of registration, and the `onClose` hooks run from its
end. `Declared` holds the `dependencies` of each plugin, `Reads` the
decorators its function reads: two tables, because `fastify-plugin` checks
the first and the code depends on the second. The routes are registered after all plugins
(the second `autoload` of `configureServer`), the hook that closes the server last, by Fastify.
The Worker takes jobs from its construction to its `close`, one at a time, as
it is given no `concurrency`. `Shutdown` is a signal or an uncaught error,
`GraceEnds` the delay of close-with-grace or a second signal (never fair: the
shutdown has to end without it), `Killed` a
signal that comes before its handlers are installed. Fastify, the autoloader and BullMQ are
modelled as far as the code relies on them: dependencies first, hooks in reverse,
`server.close` waits for requests and `worker.close` for the job.

### RuleBlocks, RuleCascade and LayerImports

Of a file only its kind matters: what the `files` and `ignores` of a block tell apart.
`Blocks` lists the blocks in the order of the configuration, with the checks each rule is
given. A rule that several blocks set has a name for each selector or pattern; the other rules
have one check, `"on"`. `TakeBlock` is one step of ESLint's merge; `asked` is
history. `LayerImports` evaluates the same blocks for every kind (`Configs`) and takes
from the checks what is reported of one import (`Reported`). The assumption
`LayersAreLinted` names what `Reported` needs of the blocks for the theorems about chains of imports;
the blocks have no parameter, so TLC decides it whenever it starts the run. `Follow` is an import or
re-export that is not. Plugins, entry points and type declarations end a walk, as they
may name everything.

### DuplicateReads

`Statement` is what the rule does with the next statement of a block: adds its reads to the
open groups, reports and closes the groups if it writes or leaves, and looks at
conditional arms and nested blocks by themselves. `EndOfBlock` reports what is left. An
element is a call, ternary, logical expression, nested block, function, or a `switch` without
braces. The runs of the block (`PartsRun`, `Between`, `AlwaysTogether`) are what
JavaScript does, defined apart from the rule. `StatementsAssumption` says that each
element has the parts its syntax gives it (`HasItsParts`): three for a ternary, two for a logical
expression, one for a call or a body.

### FactoryHelpers

`place` is where a function of a factory's body is, `refs` what its body names, `aside` what the
defaults of its parameters and the computed names of the methods it calls do, `forwards` the
dependency or function it hands its parameters on to, `exposed` what the factory returns.
`DependencyFree` and `Unshared` look at both (`All`), `PassThrough` at the body only, as
`no-pass-through-helper.mjs` does. `MoveOut`,
`CallDirectly` and `WriteInline` are the edits the messages of the three rules ask for. A set of helpers that
call each other moves together, since the rule reports all of them. A function that is deleted takes its
`aside` with it: calling the dependency directly, in the words of the message, is calling it with what the caller hands on.

### Migrations

A schema is the type of one column; a migration, named by its timestamp and request, sets it
(or nothing: `NoSql`). Requests are branches of git with a three-way merge (`Merged`,
`Conflicts`). `Check` is `check-migrations.mjs` (`EditedMigrations`, `AddsMigration`,
`FilesAreSound`) and `check-drift.mjs` (`CheckDrift`) run by CI on the merge with main;
`Merge` may come later, when the check is `"stale"`: nothing in
the repository takes a pass back when main moves on. Authors edit and delete what they like. `Deploy` is
`prisma migrate deploy`. `excuses` is history.

### Generators

`Writes` is the order in which a command writes; `Write` does one, `Kill` ends it between
two. A command has a name and the module it writes into: its own for `generate:module`, any for
`generate:repository` (`--module`). `Accepts` is what the two look for before they begin: the module's folder, and
the repository in the chosen module alone. `created` are the files and the folder of a module, `repositories`
the pairs of module and entity. `shared` counts what the shared files hold: declarations of a domain type
in each module's type file, groups of messages, entries and imports of the Cradle. `Mentioned` is the
text search by which `extendCradle` decides about the import. `CheckGenerators` and the `Probe*` actions are
`check-generators.mjs`: it appends two models, runs the module's generator and that of two repositories, the
second with `--module`, runs its checks, and cleans up in its `finally`. Each of its commands may fail
(`ProbeFails`); those that only check are one step, `"checks"`, and so is none for `prisma generate`, which writes no
file of the repository. A developer's command and `check:generators` are not run at the same time. Two names with
one kebab form (`fooBar`, `FooBar`) are not modelled.

## 3. The runs

| run | instance | shows |
|---|---|---|
| `writes_races` | 3 jobs, 2 workers, 2 attempts, clock 0..1; creates, partial updates, deletes | `RowVersionIsNewestField`, `CompletedUpdateStands`, `GivesUpOnlyIfDeleted`, `GoneStaysGone` |
| `writes_stalls` | 3 jobs, 2 workers, 1 attempt, 1 stall; whole creates and updates | the write path implements `MessageRegister` |
| `writes_settled` | 2 jobs, 2 workers, 2 attempts, 1 stall, fair | every queued job is settled |
| `list` | 2 jobs, 1 worker, a reader, an entry of 2 ticks, 2 attempts, fair | `StalePageHasACause`, `EventuallyFresh` |
| `wrap` | 3 callers, lease and patience of 2 polls, an entry of 3; nothing goes wrong and an acquirer takes a poll at most, or every fault and resolvers of any length; fair | `OneResolverAtATime`; `OnlyHolderReleases`, `EveryCallReturns`, `LockIsFreed` |
| `standalone` | walk: ids 1..4, pages of 2, 1 cached page at a time; folder: 5 objects, pages of 2; ban: 2 requests, threshold 3, window 3, ban 4 ticks, 6 probes, every fault; keys: 2 query names, values with separators, quotes and backslashes; fair | types; `ListedInOrder`, `NoRowIsSkipped`, `WalkEnds`; `NothingIsPassedOver`, `DeleteFolderEnds`; `BanIsEarned`, `BanRunsOut`, `TwoWindowsAtMost`; `AnsweredAlike` |
| `conventions` | blocks of up to 3 statements of 24 shapes; all factories of 2 functions and 2 dependencies with 4 references in all, one of each function's outside its body; all blocks and kinds of files, 2 modules; 2 requests, 3 schemas, timestamps 1..2; names `user` and `superUser` and the probe's two, in each other's modules, 4 commands; edits fair | types; `ReportedReadsAreOnOnePath`, `EveryDuplicateIsReported`; `NothingDangles`, `EditsKeepWhatIsUsed`, `ReportsComeToAnEnd`; `NoCheckIsReplaced`; `PrismaIsBehindRepositories`, `ModulesMeetAtPublicTypes`; `MigrationsAreAppendOnly`, `MainReproducesItsSchema`, `ProductionHasTheSchema`; `NothingIsHalfGenerated`, `WhatIsWiredIsThere` |
| `lifecycle` | both roles, 9 plugins and the worker's, 1 request, fair | `DecoratorsAreThere`, `TasksHaveTheirConnections`, `CleanExitCutsNothing`, `ShutdownEnds` |
| `doc_lost_column`, `doc_repeated_create`, `doc_stolen_lock`, `doc_missing_import` | see section 5 | a documented statement is violated |

The type invariants of `MessageWrites`, `MessageListCache`, `CacheWrap`, `Lifecycle`, `FactoryHelpers` and
`Generators` are theorems (section 4) and are not checked again by the runs.

**Why the bounds are enough.** The properties of the write path relate at most
a job, the write that contradicts it and the write both are about, on one
message: three jobs on one id. Messages do not interact (every
statement names one id), so one id suffices; two workers give every overlap of
two executions. Two attempts, or one stall, give an execution, its repetition and
everything in between; the code's 3 attempts add only a further repetition.
Two timestamps (`MaxClock = 1`) give older, equal and newer. In `writes_races`
updates are of the one column the create leaves empty; updates of both columns are the
workload of `doc_lost_column`, and `VersionIsNewest` holds for every workload. The theorems of
section 4 need none of these bounds. For `wrap`, three callers are a holder, a
waiter and a late-comer, or one whose lease is over and the two who hold the lock after him; an acquirer's time is
counted up to the lease, as nothing tells longer ones apart; for the ban, two requests are enough for one to be
between `SET` and `UNLINK` of the other, and a window of 3 and a ban of 4 ticks
make probes fall on both sides of each expiry. `MaxProbes` stops the counter
one above the threshold. Four rows, or five objects, in pages of two give a full page, a
full last page and a short one, each with something created or deleted on either side of the cursor.
With a threshold of 3 the bound `TwoWindowsAtMost` puts on the probes of one ban period is
met exactly, so 6 probes are enough to exceed it. The run `list` has one worker, which
keeps liveness within reach; its safety is a theorem for every number of
workers and stalls. The statements of `conventions` hold one of each kind of element and
the pairs that differ in order; three of them give a read before, at and after whatever ends a
segment. Two functions give a method and its helper, a helper that calls another or itself, and one edit that causes
the next report; four references a hop to a dependency with another aside, called from a function that uses
more. The two safety properties of the edits need no bound (`NoNameDangles`, `UseIsKept`). Two requests are one that is merged while the other has passed its checks.
The blocks and kinds of files are all of the configuration, not a sample. Two modules, one entity in both of them and the probe, or
a command that is killed, run again and followed by two others, are four commands.
In `lifecycle`, `awsS3`, `ipBan`, `jwt` and `swagger` are left out: they declare and
read the same as `gcpStorage`, `cache`, or less, and would only multiply the orders;
the theorems are about every set of plugins. The hosts' clocks agree in the runs;
the theorems are about every clock offset.

**Symmetry** over jobs, workers and callers is used in runs that check no
liveness. **Deadlock** is off for `MessageWrites`, whose clients run out of
jobs; there every job is settled and the system rightly stops. It is off for `conventions` too,
where the block is linted, the walk has come to a package, the last edit is made, the
last command is over.

**Fairness.** A live process goes on with what it does (`WorkerStep`,
`ReaderStep`, `CallerStep`, `RegisterStep`): promises settle, as every client
has a timeout or fails without an offline queue. An idle worker takes
waiting jobs, which is BullMQ's loop; the backoff timer of a delayed job ends;
the stalled check finds a job nobody executes. Time passes. Nothing is
assumed of clients or readers starting anything, nor that attempts
succeed, and faults are never fair. A client that walks the list goes on with
its next page; `deleteFolder` has each command answered, or refused. An author goes on
editing while there is a report (`HelpersNext`), in any order. In `Lifecycle`
a request and a job that are being served come to their end, and a hook that has nothing to wait for resolves
or rejects (`CloseNext`, `Closed`); the timer of the grace period is not fair, so that
`ShutdownEnds` does not rest on it, and no start of a job or request is.

## 4. The proofs

| theorem | says |
|---|---|
| `MessageWrites_proofs!TypeCorrect`, `VersionIsNewest`, `LastWriteWins`, `NoLostMessage`, `OnlyCreatesCreate` | the safety properties of the write path, for every number of ids, jobs, workers, clients, attempts and stalls, every workload and every clock offset |
| `MessageWrites_proofs!Refinement` | the write path implements `MessageRegister` |
| `MessageWrites_proofs!ApplyIsIdempotent` | a statement applied twice in a row is applied once |
| `MessageWrites_proofs!WholeUpdatesCommute` | updates of all columns with different timestamps commute |
| `MessageWrites_proofs!WholeWritesWin`, `RepeatedCreateNeedsDelete` | when two statements of the documentation that section 5 refutes do hold |
| `CacheWrap_proofs!WrapTypeCorrect`, `LockIsNotStolen`, `SingleFlight` | the safety properties of `wrap`, for every number of callers, every timing and every fault; the last for quick resolvers |
| `Standalone_proofs!PaginationTypeCorrect`, `PagesAreInOrder`, `WalkSkipsNothing` | the safety properties of a walk through the list, for every number of ids and every page size |
| `Standalone_proofs!FolderTypeCorrect`, `FolderIsEmptied` | the safety properties of `deleteFolder`, for every number of objects and every page size |
| `Standalone_proofs!BanTypeCorrect`, `BansAreEarned` | the ban is well formed and earned, for every threshold, window, duration and number of requests |
| `Standalone_proofs!TwoWindowsSuffice` | the bound on the probes around the end of a window, the same way, where `Window <= BanTtl` |
| `Standalone_proofs!RequestsAreAnsweredAlike` | requests that share a cache key are equal, for texts of any length, whatever the values of the query hold |
| `Standalone_proofs!StandaloneTypeCorrect`, `Conventions_proofs!ConventionsTypeCorrect` | the type invariants of the two runs that put components together |
| `MessageListCache_proofs!ListTypeCorrect`, `StaleHasACause` | the safety properties of the list and its cache, for every number of workers, readers, attempts and stalls and every lifetime |
| `Conventions_proofs!MainIsReproduced`, `AppendOnly`, `ProductionIsReproduced`, `MigrationsTypeCorrect` | the properties of the migration checks, for every number of requests, schemas and timestamps |
| `Conventions_proofs!NoNameDangles`, `UseIsKept` | the safety of the edits, for every set of functions and dependencies |
| `Conventions_proofs!PrismaStaysBehind`, `ModulesMeet` | where chains of imports that pass the lint may lead, for every set of modules |
| `Conventions_proofs!ChecksAreKept` | no check of the lint configuration is lost to a later block, for every kind of file |
| `DuplicateReads_proofs!ReadsTypeCorrect`, `ReportsAreOnOnePath`, `DuplicatesAreReported` | the rule reports duplicates only, and leaves none out, for every set of statements, every number of them and calls of any kind |
| `Generators_proofs!GeneratorsTypeCorrect`, `WiredIsThere` | no command writes over a file and the shared files name nothing that is not there, for every set of names, whatever is killed and run again |
| `Generators_proofs!NoneIsHalfGenerated` | all of a module or repository or nothing, and nothing of the probe, unless a command was killed |
| `Generators_proofs!DistinctNamesAreImported` | every entry has its import, if no name ends in another |
| `Lifecycle_proofs!LifecycleTypeCorrect`, `DependenciesAreEnough`, `ConnectionsOutliveTasks`, `CleanExitIsComplete` | the safety properties of `Lifecycle`, for every set of plugins that contains the ones the tasks use |

**Assumptions.** `StoreAssumption` and `WritesAssumption` say that the "none" values
are distinct from the others and that the workload contains what the routes'
schemas let through. `LockIsNotStolen` and
`WrapTypeCorrect` have no hypothesis about time: the property itself speaks of the time before a lease
is over too early. `SingleFlight` has `QuickTimings` (an acquirer is done before the waiters give
up, and its entry outlives the polls), and is about the behaviours in which nothing goes wrong. `TwoWindowsSuffice` has the hypothesis
`Window <= BanTtl`, which the code's constants meet (300 and 3600 seconds) but nothing enforces; it
is needed: TLC finds more probes with a window of 3 and a ban of 1. Two more state what clients or
developers may do: `WholeRequests` (creates and updates carry all columns) and `NoNameEndsInAnother`
(of the names given to the generators). `CacheKeyAssumption` says that the methods, the names of query and headers
and what JSON leaves unquoted are single words without the characters that keys are made of, which the routes'
schemas give. `StatementsAssumption` and
`LayersAreLinted` are those of section 2; the other assumptions say that sizes and times are positive
naturals and special values distinct.

**Argument, write path.** `IInv` strengthens the invariants with three facts.
`JobsAreAdded`: what the queue, a worker or a row refers to was added.
`CheckedRowsExist`: what passed the existence check is still there, or a
delete was enqueued; this is what makes `NotFoundError` mean "deleted".
`WorkersStand`: a worker past the write of an update leaves a row that holds it or a newer one;
without it `CompletedUpdateStands` is not inductive, since completing a job looks at
nothing. The lemma `StepKinds` reduces the seventeen actions to three kinds of step (a
job is added, a job is applied, table and jobs stay), and the lemmas about
rows (`RowStays`, `StandsStay`, `VersionStep`) are proved for those three.
The refinement maps each kind to `Accept`, `TakeEffect` or a stutter.

**Argument, the statements of section 5.** The README's "last write wins" holds of columns too as long as each
request is about all of them: then every column of a row was written by a job about all columns
(`WholeRows`), so if another job were the writer of the last enqueued update's column it would be older than the
update, and the row with it, which `CompletedUpdateStands` excludes. "Safe to repeat" holds of creates as
long as nobody deletes: `CreatedRowsExist` says that who is past the write of a create, and a
completed create, has a row, unless a delete was enqueued; on a row a create has no effect. So the two
counterexamples show all there is: one needs partial writes, the other a delete.

**Argument, list.** `ListOnWritePath` says that a behaviour of the composition is one of the
write path, so `IInv` holds in it. `LInv` adds a stronger cause than the property names:
a job that is due *and still matches* (`StillMatches`: no later update has replaced what
it wrote). Without that, a job that is run again could find a newer row, complete
without invalidating and take the cause with it; with it, whichever job makes the row newer is the next
cause. `OwnersAreActive` says that whoever holds a lock holds that of an active job, so a
worker that settles a job without invalidating cannot be the one that was
due. `FillsHaveACause` says of what a reader is about to store what
`EntryHasACause` says of what is stored. `CauseStays` goes through the steps that leave the
table alone, `ChangeIsDue` through those that change it.

**Argument, migrations.** A fresh check is one of what would be merged now
(`RequestsTypeOK`), so a merge that is not stale leaves main as the check found it:
`CheckedIsWhole`. A request never lacks a migration of main that it has seen (`SeenIsKept`), and a
three-way merge keeps what it has not, hence `AppendOnly` even for stale merges.
`Deployed` says that production is the replay of what was applied; the lemma `ReplayInParts`
says that a replay may be cut where the names are in order, which is what "not
late" means. That sets of migrations have a latest one, as far as their timestamps go, is by
well-founded induction on them. `MigrationsTypeOK` says that production always has one of the
models, although it is a replay: a finite set of migrations has a last one. `LastExists` finds
it by counting: the one with the fewest after it has none, or one of these had fewer. So `FilesAreFinite` is part of that invariant (`ProdInv`).

**Argument, factory helpers.** `NothingDangles` is inductive with the types. What a function uses is
defined by the sets that are closed under calls; an edit maps closed sets to closed sets, in both
directions. So does the deletion of a hop, but for what stood aside in it: a set that is closed and spares a dependency after
the edit does so before it, with the helper put back, unless the helper's defaults lead to that dependency (`UseStep`).

**Argument, wrap.** `LockInv` says that, as long as no lease was over too early, an acquirer is the
holder, and lease and time used add up to `LockTtl` (`HasLock`); the step in which they no
longer do is the one that sets `overrun`. `Punctual` says that this step does not come while nobody is slow, as
an acquirer then acts before `MaxHold < LockTtl`. `FlightInv` adds that, as long as a
lock is held and nothing is stored, waiters have more patience than the
holder has time left.

**Argument, deleteFolder.** `NothingIsPassedOver` is inductive together with the
type: what is old is after the token, or in the page, or after the page's token. A
page leaves out only keys above all of its own, and deleting it moves nothing past the token.

**Argument, pages.** `NewestFirst` gives the place of an id by the number of newer ones, so that it
is sorted needs that every place is taken (`EveryPlaceIsTaken`), as there are as many as ids and no two
ids share one. `PagesAreWhole` says of what is in the cache what a
page read from the table has: its ids are below its cursor, and of the rows that are there since it was read it
leaves out none above its next cursor. It holds of each page whichever clients wrote or filled since,
and that is all `ListedInOrder` and `NoRowIsSkipped` need when the client moves on.

**Argument, ban.** `CounterIsRecent` ties the counter to the history: it counts the latest `attempts` probes, and
the age of the first of them and the rest of the window add up to `Window`. A ban is set by a
request that has counted the threshold's probe in this very tick, so it is earned. For the bound,
`OneCounterBefore` says of the probes since the latest ban that a former counter has counted that they are at
most `MaxAttempts - 2`: it counted one less than the threshold, and the first of these has left the window. The
present counter adds `MaxAttempts - 1` at most. When a ban is over every probe of the window is since
that ban (`SinceBan`), which is what `Window <= BanTtl` is for.

**Argument, keys.** `KeyReads` takes a key apart from its right end. `varyBy` and the headers have no separator where
`AnsweredAlike` speaks of them, and the routes of both requests name the same headers, so they are what stands between
the last separators (`CutLast`, `HeadersRead`). The path has none either: it ends at the first one after the method
(`CutFirst`). In between is the query, in which values may hold separators and quotes; but every quote inside an
escaped text follows a backslash (`EscapedQuotes`), so the quote that opens the last string is the last one that
follows a `=`, and its text, name and the entries before it are found from there (`EscapedReads`, `NamedReads`); as
names are sorted and distinct, entry after entry is the same (`QueryReads`). Texts are of any length, and
what `FlattenSeq` makes of them is by induction on the length. As the library's induction theorems cannot be used,
`SetInduction` has it from sets: a set of naturals that holds 0 and each successor is all of them, or there
were a least one it lacks. `FlatteningExists` proves with it that the recursive function inside `FlattenSeq` exists, which
nothing can be said of before.

**Argument, configuration.** `Fits` relates two blocks: what the later one asks of a rule both set, for files both
match, is no less than what the earlier asks, unless it switches the rule off or the file is reported anyway.
`BlocksAreFine` shows that of every two blocks, part by part: most parts share no rule that has more than one
check, and where they do, the files are apart or the later options hold the earlier. The invariant
`CascadeInv` says that each check the history has of a rule comes from a block that was
taken; then `Fits` leaves nothing to lose.

**Argument, duplicate reads.** `ReadsInv` follows the segment. `SegmentIsOpen`: what is in it are reads that
no later statement parts from the next; so what is added may be grouped with it, and `ReportedAreSound`. `SegmentIsFull`:
no read of the open segment is missing in it; so a closed one has reported each of its pairs (`OwnAreFound`). Arms and bodies are
reported at once (`PathsAreFound`, `BodiesAreFound`). What connects this with the runs is about positions only and has no state:
`OwnReadsAreSound` and `SamePartIsSound` say that what the rule takes for one path is one, `AlwaysRuns` that the
parts it calls unconditional are in every run.

**Argument, generators.** `GenInv` has a part that holds whatever is killed and one that a kill ends. The first says at which of its
writes a command is (`CommandIsAhead`), that `check:generators` has no other command beside it (`ProbeRunsAlone`), that what
it will put back says of the developer's names what is there (`NamesAreBackedUp`), and of each such name that what is wired is there
(`Wired`): `Pending` counts the repository that is there with its entry still to come, since the order of the writes is what
`WhatIsWiredIsThere` rests on. The second, `Undisturbed`, has equality where the first has at most (`Whole`), for the probe's names
as well while they are there, and that what was kept does not have them.
Entries are counted against the modules that have the repository (`Holders`), so an
entity in two modules is no exception.

**Argument, imports.** `LayersInv` adds that only a module leads into a module; each step is one import, for which
`LayersAreLinted` says which check of which rule stands in the way.

**Argument, the two compositions.** One component moves and the others' variables stay, so the conjunction of
all invariants (`AllInv`, `ToolsInv`) is inductive step by step; the components at rest
satisfy theirs.

**Argument, lifecycle.** `Stacked` says that whatever is registered stands on
all that comes before it: a registration puts it on top of that, and a hook
takes the top away. As the worker stands on `awilix` and that on Prisma, Redis and
the queue, and the server on everything, jobs and requests keep what they use (`Served`).

**Model-checked only:** the liveness properties (`EveryJobIsSettled`,
`EventuallyFresh`, `EveryCallReturns`, `LockIsFreed`, `BanRunsOut`, `WalkEnds`,
`DeleteFolderEnds`, `ReportsComeToAnEnd`, `ShutdownEnds`), which rest on fairness and are out of
the prover's reach. Of the safety properties of
the passing runs none is left. `LayersAreLinted` is an assumption about one constant, the blocks, which TLC evaluates whole,
so that its answer is final.

## 5. Where the documentation and the code disagree

* `doc_lost_column`: "last write wins by enqueue time" (message README, 222).
  Updates are partial but share one `updatedAt`. Update A sets `text` and
  its attempt fails; update B sets `meta` and is applied; the retry of A is
  older than the row, is dropped whole and completes. `text` keeps a value older than A.
  Where clients always send the whole message it cannot happen (`WholeWritesWin`).
* `doc_repeated_create`: "every write is safe to repeat" (216-217). A worker
  loses the lock of a create; the job is executed again elsewhere, a delete follows;
  the first worker then executes its statement and the message is back. Without the delete the
  repetition is harmless (`RepeatedCreateNeedsDelete`).

* `doc_stolen_lock`: "on a miss it takes a short-lived Redis lock (`SET … NX PX`) so only one caller runs the resolver
  while the rest wait for that result" (ARCHITECTURE.md, 283-285). The `finally` of `wrap` unlinks whatever lock is there
  (`cache.service.ts`, 98-102). A caller slower than the lease of 5 seconds removes the lock of the next one, and a third
  acquires it while the second resolves within its lease; then the second removes the third's, and so on. As long as no lease is over
  too early it cannot happen (`LockIsNotStolen`).
* `doc_missing_import`: "what `generate:module` and `generate:repository` produce
  must pass lint, tsc and the architecture tests as generated" (`scripts/check-generators.mjs`, 2-3).
  `extendCradle` takes an import for present if the text `UserService` occurs anywhere in
  `di-container.type.ts`, for instance in `SuperUserService`, and adds the entry all the same:
  `generate:module user` after `generate:module super-user` leaves entries whose
  types are not imported. `cli/repository-gen` does the same. It takes a name that ends in another
  (`DistinctNamesAreImported`).

More facts the models show, for the reader of the code. A list read before a
write and stored after its invalidation is served until it expires, although
"writes drop the namespace they invalidate" (ARCHITECTURE.md, 275): this is the
first of the reasons `StalePageHasACause` allows, and `EventuallyFresh` bounds it. `wrap` does not
read the key again once it has the lock, so a caller that missed just before
the value was stored resolves it again, and waiters that give up resolve while the
first call still does: `OneResolverAtATime` therefore needs `QuickTimings`. And the window of the ban is fixed, not sliding, so
nearly twice the threshold of probes around its end goes without a ban. A page that
is asked for with the id of a deleted message is empty and ends the walk (`cut` in
`Pagination`). A signal that comes before close-with-grace is installed ends the process
without its hooks, with a job of the Worker perhaps under way; the queue runs that job
again, as `MessageWrites!Crash` has it.

A worker that has lost the lock of its job and dies after its write leaves a list nobody
invalidates, if another worker has completed the job before (`abandoned`). The fixed window lets an address
make 2 * `MaxAttempts` - 3 probes within one window's length without a ban: `TwoWindowsAtMost`. Two
requests share an entry if the separator of cache keys occurs in a path, a header
or a `varyBy`, none of which is quoted: `AnsweredAlike` excepts it. Neither migration script
compares the names of new migrations with those of main: one that sorts before a
deployed one is applied after it, and production may end with another schema than main (`"late"`);
and a pass of CI is not taken back when main moves on (`"stale"`). `no-duplicate-repository-read` takes two
reads with the same receiver and `where` for equal whatever method is called, though its comment (lines 1-3) says the
same method, and takes the cases of a `switch` without braces for one path. `layer-direction` looks at
imports only, so `export type ... from` in a module's own `public.ts` may open a file of another module:
`ModulesMeetAtPublicTypes` holds with the door on either side. The rule against mere hops does not look at what parameters default to
(`no-pass-through-helper.mjs`, 14-15) nor whether the name of a method is computed (138): a helper `find(id, limit = config.limit)` that
forwards to a repository is reported as one that "adds a hop and nothing else", and the call that takes its place no longer uses
`config`. `EditsKeepWhatIsUsed` excepts just that, and `UseIsKept` shows that nothing else is lost. `generate:repository item --module a` and then
`--module b` both find no repository in their module, and write `itemRepository` into the Cradle twice, which tsc
refuses: `NothingIsHalfGenerated` counts one entry for each of them. After `check:generators` was killed, its next
run keeps the leftovers as if they were the developer's and puts them back, so the probe's entries stay in the Cradle
after its module is gone: `NothingIsHalfGenerated` speaks of commands that were not killed, `WhatIsWiredIsThere` of the developer's names. A
`generate:repository` that was killed after its first write declares the domain type again when it is repeated. The helper
rules look names up by their text, so a parameter with the name of a dependency hides it from `no-pass-through-helper` only in the reader's eyes;
the models give each name one meaning.

## 6. Not modelled

Rate limiting, error mapping, configuration plugins, the GCP service, dependency
injection, hashing, proxy parsing and the ping module: single library calls or
stateless functions (`PROJECT.json` has a reason for each). Of the lint rules, those
that look at one node: `transaction-via-repositories`, `no-single-repository-transaction`,
`prefer-repository-or-fail`, `no-prisma-shape-outside-repository`, `no-relation-join-with-cursor`,
`route-params-schema`, `file-naming`, `max-comment-lines`, `no-arch-disable` and the
selectors of `no-restricted-syntax`; `RuleBlocks` has where each of them applies; it leaves
out whether a rule is an error or a warning, as CI runs ESLint with `--max-warnings 0`. `NestedDuplicates` has no step of its own for the
end of a `case` in braces, which is a block like others: the pairs reported are the same. Of the
generators, the text of the templates and the formatting of what they
wrote. Contents of columns, headers and logs are abstracted everywhere.

## 7. Plan

Done: the modules of section 2 and the proofs of section 4; every safety property of the passing runs
is a theorem. What would come next:

1. A module of the rules about transactions and `...OrFail`, if they come to look at more than
   one node.
2. `Lifecycle`: a refinement, API and worker as one process that starts, serves and drains.
