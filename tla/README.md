# Verification of Zeluna

TLA+ models of the parts of Zeluna whose correctness depends on the order in
which things happen, the TLC runs that check them, and proofs that TLAPS
checks. Everything is translated from the source at this commit; paths below
are relative to the repository.

Zeluna is a Flutter client (`lib/`) for finding and playing anime, with a
FastAPI server (`server/`) that resolves playback, keeps accounts and
synchronizes the library between the devices of an account.

## 1. Inventory

| Component | State it keeps | Operations | What makes it correct | Modelled |
|---|---|---|---|---|
| Sync server (`server/server/sync_service.py`, `sync_repository.py`, `routers/sync.py`) | rows, mutation receipts and revisions of an account, in SQLite | push (up to 100 mutations), pull a page | a mutation applies once, requests are atomic, revisions order the commits, the conflict rules hold | yes |
| Sync client (`lib/src/sync/sync_controller.dart`) | durable queue, mutation counter, pull cursor, migration flag; status, retry timer | load for an account, enqueue, push, pull, migrate, retry | no queued change is lost, ids are unique, the cursor skips nothing, the status is honest, devices converge | partly |
| Library (`lib/src/library/library_controller.dart`) | favorites, following, history on screen and on disk | toggle, add history, update progress, clear, apply a remote record | a local action is published, queued and stored in this order; a remote record creates no echo | partly |
| Account sessions (`auth.py`, `account_api.py`, `dependencies.py`, `rate_limit.py`) | users, sessions, refresh tokens with their families, codes, attempts, password threads | register, log in, change and reset the password, rotate, revoke, log out | what was read before a hash is still true when it is used; a refresh token works once and reuse ends the session; a code works once; attempts are limited | partly |
| Email outbox (`email_outbox.py`) | messages with lease and attempts | claim, send, fail, retry | a message is delivered or given up in the end, and what ended is not taken up again | yes |
| Privacy lifecycle (`privacy.py`) | deletion requests with a due time | request, cancel, execute | an erasure that is due is executed; a pending account has no session | partly |
| Playback resolution (`playback.py`, `aggregator.py`, `playback_health.py`, `repositories/playback.py`) | caches, shared tasks, semaphores, line and source health | resolve fully or quickly, check a line, search | callers share one task and each is answered; a failure is not cached as an answer; a verified line was read as a player reads it | partly |
| Playback discovery (`playback_discovery/strategy.py`) | workers, semaphore, budget, waves | search, cancel | no site spends the budget of another; the diagnostics tell the truth | partly |
| Managed lines (`managed_lines/`) | one record per line | edit, verify, approve, enable, disable, revoke | what was revoked is not published | partly |
| Scheduler, start and shutdown (`scheduler.py`, `main.py`) | loops, detached tasks, services | start, work, close | no task uses a service that is closed | partly |
| Catalog (`catalog.py`, `repositories/catalog.py`) | titles with ranks, refresh tasks, cooldowns, further names | home page, search, detail | ranks move forward; providers are not pressed; no list crowds out another | partly |
| Stream cleaning (`scrapers/hls_clean.py`, `playlist_tokens.py`) | none | fetch, cut | only advertisements are cut | partly |
| Danmaku (`routers/danmaku.py`, `dandanplay.py`) | comments; shared questions and their cache | post, page, delete; ask | a reader misses nothing; another network is asked once | partly |
| Subtitle library (`subtitle_library.py`, `subtitle_google_drive.py`, `tools/subtitle_library.py`) | index, files on disk or in a folder of Drive, bounded cache | import, list, read, report | a row has its file, an import can be repeated, what is read has its digest, one download for all who wait | partly |
| Database (`database.py`, `tools/migrate.py`, `migrations/`) | schema, revision, backups | upgrade, downgrade, start | the program never meets a schema that is not its own | partly |
| Legacy community (`routers/legacy_comments.py`, `legacy_community.py`, `legacy_library.py`) | likes, collections, comments | like, cancel, page | a mark is single; pages skip nothing | partly |
| Settings, account client, player, prefetch cache, downloads, discovery on the client, rules, recommendations, user interface, native code | | | | no (section 6) |

How they interact. On a device, user actions go to the library controller,
which calls the sync controller before it stores its list; the sync controller
speaks HTTP to the sync router, and the records that come back are applied by
the library controller through the same queue that the user actions use. On the
server, the routers share one event loop and one SQLite database: the account
API writes sessions, codes and the outbox rows that the outbox worker sends;
the playback service shares tasks between its callers, lets the aggregator ask
the catalog for names, the strategy for matches and the sources for lines,
stores the lines in one cache row for each episode and merges the managed lines
into the answer; the scheduler's loops call the same services, and the shutdown
closes those under them.

What is hard in this system:

- on a device three chains of futures interleave: the library's mutation
  queue, the sync controller's write queue and its network queue;
- on the server rows are read before SQLite's write lock is taken, so requests
  overlap; where that matters, the code repeats what it read in a conditional
  UPDATE, or forgets to;
- tasks are shared by callers that come, leave and time out, and call back
  after they have ended;
- a request that timed out may still be served, and is sent again; a worker
  outlives its lease;
- the application, the server, a worker and a migration may die between any
  two steps;
- two record types (history and playback position) end in one library entry;
- an answer is put together from sources that answer late, in part or not at
  all.

The list of hazards with their lines is in PROJECT.json.

## 2. Modules

| Module | What it is |
|---|---|
| `SyncData` | mutations, rows and tables; the pure rules of `_resolve`, `save_record` and the uniqueness constraints |
| `SyncServer` | the push endpoint, statement by statement, with several request handlers on one SQLite database |
| `SyncRequests` | the two requests as operators: what a push and a pull do to the tables when nobody else is served in between |
| `SyncStore` | the abstract server: a push takes effect in one step |
| `CloudSync` | the devices of an account, their library, queue, network runs and faults, on top of `SyncRequests` |
| `Accounts` | one account, its sessions, credentials and its delayed deletion |
| `Verification` | codes, the requests that try them, and the outbox with its workers |
| `Playback` | the shared refreshes of one episode, their callers and the cache row |
| `AliasSearch` | the search for matches of a full scan, on asyncio's loop and semaphore |
| `QuickScan` | the loop of a quick scan, and the circuits of the sources |
| `ManagedLines` | one managed line between two administrators |
| `Schema`, `Migrations` | the fifteen migrations as lists of statements; the commands that run them, with crashes |
| `Catalog`, `ProviderGate`, `Ranking`, `Aliases` | the rows and refreshes of the catalog; how a provider is asked; the order of the home page; the names of a title |
| `Resolution`, `LineSelection`, `Search` | how lines are checked; which are given; the search over all providers |
| `HlsClean`, `Danmaku`, `RateLimit`, `Community`, `Lifecycle` | the playlist without advertisements; comments and the other network; attempts and hashes; likes and collections; start and shutdown |
| `SubtitleLibrary` | the subtitles the server keeps: import, cache, reading, and what goes wrong with files |
| `MC*` | instances for TLC. `MCViewer`, `MCServices` and `MCOperations` are sums, see below |
| `SyncRequestsProofs` | lemmas about the operators of `SyncData` and `SyncRequests` |
| `SyncServerProofs`, `CloudSyncProofs`, `AccountsProofs`, `VerificationProofs`, `SubtitleLibraryProofs` | theorems about the module of that name |
| `ServicesProofs` | theorems about `Playback`, `AliasSearch` and `QuickScan`, and about `MCServices`, their sum with `Verification` |
| `OperationsProofs` | theorems about `MCOperations`, through lemmas about `Lifecycle`, `Catalog`, `ProviderGate`, `Danmaku`, `RateLimit`, `Community`, `Aliases`, `Resolution` and `SubtitleLibrary` |

`SyncServer` and `CloudSync` both use `SyncData`. `CloudSync` uses the
operators `Push` and `Pull` of `SyncRequests`; `SyncStore` is the specification
made of the same `Push`, and `SyncServer` instantiates it with its own `db` and
implements `SyncStore!Spec` (the property `ServesStore`) when requests do not
overlap. So what the devices rely on is what the endpoint is proved to do. When
requests overlap it does not: that is the subject of the first finding in
section 5.

### SyncData

A record id stands for a `(record_type, record_id)` pair and `KindOf` for its
conflict rule. A payload keeps the client timestamp, the progress and the
completed flag; position and duration are merged alike and are one number.
Register records (favorite, following, settings) tell contents apart by the
timestamp. A receipt is the mutation it was written for, since the hash covers
the whole request. `FlushedRow` models SQLAlchemy's UPDATE, which names only
the columns that differ from the values loaded.

### SyncServer

`db` are the committed tables, `lock` the session with SQLite's write lock,
`tx` the tables as that session sees them, `handler` the local variables of
each request. One action per statement: `Accept`, `LookupMisses`,
`LookupFindsReplay`, `AcknowledgeReplay`, `LookupFindsConflict`, `LoadRecord`,
`WriteMutation` (the three flushes, all under the lock), `RetryPush` and
`GiveUpPush` (IntegrityError, once and twice), `Commit`, `Respond`, and the
faults `Fail` (an uncaught exception) and `Restart`. pysqlite begins a
transaction at the first INSERT, so the SELECTs before it see the last commit
and the lock is taken by `WriteMutation`; this is why another session can
commit between `LoadRecord` and `WriteMutation`.

### CloudSync

`db` is the server, `late` the push requests whose device has given up on
them, `disk` what a device has stored, `app` the running application: the sync
state in memory, the entries on screen, the user action in progress, the put in
progress, the run of `_runCloudSync` with its local variables, the status and
the timer.

| Code | Actions |
|---|---|
| `toggleFavorite`, `toggleFollowing`, `addHistory`, `updatePlaybackProgress`, `clear` | `Toggle`, `AddHistory`, `UpdateProgress`, `ClearHistory`, then `Enqueue`, `FinishPut`, `SaveEntries` |
| `_runCloudSync`, `_pushPending` | `StartRun`, `SendPush`, `ReceivePush`, `ApplyRecord`, `DropAcknowledged`, `PushDone`, `PushExhausted`, `ReceiveRejection` |
| `_pullPages`, migration | `ReceivePage`, `ApplyRecord`, `PageApplied`, `PullExhausted`, `Migrate`, `FinishRun` |
| failures | `RequestFails`, `SessionExpires`, `RetryTimer`, `ServeLate`, `Crash` |
| `deleteCurrent`, then a new sign-in | `Erase` |

An await at which other code can run separates two actions; what runs between
two awaits is one action. The putting of a state (`FinishPut`) is apart from
its change in memory, so a crash can come between them. Where the code waits
for the write queue, the guard is that no put is in progress.

### Accounts

Passwords are hashed and compared in a thread pool, so every handler reads the
account, awaits, and then fences itself with a conditional UPDATE that repeats
what it read and takes the write lock. `ReadByEmail`, `ReadUnregistered`,
`ReadSession` and `ReadAccount` are the reads, `TurnAway` and `Refuse` the early
returns, `Fence` the UPDATE, `CommitLogin`, `CommitRegister`, `CommitCancel`,
`CommitReset`, `CommitChange` and `CommitDelete` what follows it under the lock,
and `Rollback` what follows a fence that matched no row. Revocations, `Exchange`
of a refresh token (its digest moves to the history in the same transaction) and
`DetectReplay` need no hash and are one step each. `CleanUp`, `Recheck`, `Erase`
and `EraseFails` are the cleaning job, which erases each account in a
transaction of its own. `GraceEnds` and `Expire` are the passing of time.
Credentials are numbered in the order of issue, and a session has the number of
its first one.

### Verification

One address; a message has the number of its code. `RequestCode` stores the code
and the message in one transaction and takes the code before it away. `ReadCode`,
`AcceptCode`, `WrongCode`, `RejectCode` and `PurgeCode` are the requests that try
it. An accepted code is deleted by row and digest (`StillThere`); a wrong guess is
counted by row alone and may meet a newer code under the same row number
(`MeetsRow`). `Claim`, `StartDelivery`, `Deliver` and `Crash` are the workers,
`RetryTime` and `LeaseEnds` the time that passes for a message. `LeaseEnds` may come while the
worker is still at work (`MaxSlow`).

### Playback, AliasSearch, QuickScan

`Playback` is one episode: `Ask` looks at the cache and the tasks and starts or
joins one, `RefreshFull` and the `Quick...` actions are the tasks between their
awaits, `Remove` the callback that forgets a task some time after it ended,
`Close` and `Closed` the shutdown. What a scan finds is left open, and is the
subject of the other two. `AliasSearch` keeps asyncio's run queue and the
semaphore's waiters, because a place is handed over and not merely freed;
`QuickScan` keeps the event that wakes the loop and the two queues it reads,
and what is recorded of each source at the end (`Record`).

### ManagedLines

Each operation reads the record (`Read`), decides (`Results`), loads the row
again (`Load`) and saves every column (`Save`).

### Schema and Migrations

A schema is a set of objects (tables, columns, indexes, constraints, filled columns). A
migration is the list of statements its `upgrade` or `downgrade` runs on the
schema it finds: most of them inspect the database first, so the list depends on
what is there. `Migrations` executes one statement at a time. A CREATE or ALTER
is durable at once, until the first INSERT, UPDATE or DELETE of a migration opens
a transaction; a crash keeps what is durable. `Restore` is the backup of
`tools/migrate.py` put back after a failed upgrade, `Created` what `create_all`
adds, `StartServer` the check of the revision.

### The operations of one request

| Module | Actions and operators, and the code they stand for |
|---|---|
| `Catalog` | `Ensure` (`ensure_home_refresh`) shares or starts a refresh; `Gather`, `StoreRanked`, `StoresNothing`, `Remove` are the task; `Search`, `Detail`, `StoreFound`, `FindsNothing` the other writers of the same rows, `Loaded` and `Stored` the load and the insert or update of `repositories/catalog.py` |
| `ProviderGate` | `Ask`, `Queue`, `Enter`, `Send`, `Leave`, `TooMany`: `_provider_request` with its cooldown and semaphore |
| `Ranking` | `WeightedRrf`, `InterleaveUnique`, `MergeRanked`, `HomeCached`; scores are integers over a common denominator |
| `Aliases` | `playback_aliases`: `Ask`, `Found`, `DetailFails`, `Breaks`, `Exhausted`, with the cache of the process |
| `Resolution` | a match is asked (`AskForLines`), its addresses are checked at the same time through `Redirect`, `ReadManifest`, `ReadKey`, `ReadSegment`, and merged (`Merge`) as they come |
| `LineSelection` | `OrderedForDisplay`, `CompleteSiteInventory`, `StoreScan`, `Cached`, `MergeManagedLines`, `SelectQuickLines` |
| `Search` | `Found`, `Failed` in any order, then `Finish` with the rounds over the sites |
| `HlsClean` | `Parse`, `Cut` and `Clean` are `parse_media_playlist` and `clean_media_playlist`; `AcceptToken`, `Redirected`, `ReadMaster`, `ReadMedia`, `FallBack` the endpoint |
| `Danmaku` | `CreateDanmaku`, `DeleteDanmaku`, `EraseAccount`, `FirstPage`, `NextPage`; `Ask`, `Land`, `Fail`, `GiveUp` with the cache of `dandanplay.py` |
| `RateLimit` | `Check` (the table in the process), `CheckShared` (Redis), `Unavailable`; `Enter`, `Acquire`, `Abandon`, `Hashed`, `Release` of `run_password_work` |
| `Community` | `Look`, `Insert`, `Retype`, `Cancel` of a mark; `PostComment`, `FirstPage`, `NextPage` of a list |
| `SubtitleLibrary` | `Import`, `PutObject` or `FindCopy` and `Upload`, `Insert` are one row of a manifest; `Content`, `TakeLock`, `ReadObject`, `Open`, `Fetch` a request; `WriteCache`, `ListCache`, `Evict` the cache that both share; `Die`, `Damage`, `TimeOut`, `ArriveLate`, `Reconfigure` what happens to them; `Found` and `Coverage` what `find` and the report say |
| `Lifecycle` | `InitDb`, `StartTasks`, `Wake`, `Pause`, `StartDetached`, `Shutdown`, `Cancel`, `NextStage`, `Exit` |

### The sums

`MCViewer`, `MCServices` and `MCOperations` put several of these modules into one
run. A
variable `part` is chosen at the start and says which module a behaviour is
about; the others keep their first state. This is sound because the parts share
no state in the models: what a part knows of another is an input that is left
open (what a scan finds, what a provider answers). Three modules are taken in
halves, which share no table either: the attempts and the hashes of `RateLimit`,
the comments and the other network of `Danmaku`, the marks and the lists of
`Community`; and in `Verification` the trying of a code and the sending of its
mail share nothing after `RequestCode`. An invariant of a sum is the conjunction
of the parts' own properties, so each of them is checked in every state of its
part. `SubtitleLibrary` is two parts with bounds of their own. `MCServices` and
`MCViewer` add the fairness of their parts.

## 3. Runs

| Run | Instance | What it shows |
|---|---|---|
| `server_concurrent` | two handlers, requests of two mutations that touch the same two records in opposite order, repeat, and reuse an id | types, atomicity, idempotency, durability of acknowledgements, unique revisions, commits that only go forward; and the inductive invariant |
| `server_serial` | one handler, three versions each of a history entry and a position, a favorite that a request of two mutations adds and another removes | the conflict rules, and that the endpoint implements `SyncStore` |
| `sync_favorite` | two devices, one favorite, two user actions, one fault | no queued change is lost, ids never clash, quiet devices agree |
| `sync_pages` | two devices, two records, pages and batches of one, one user action, either device with entries from before | the cursor skips nothing, the migrations forget nothing |
| `sync_paths` | one device, a history entry and its position, two rounds per loop, one fault, one erasure | every path of a run, types and the honest status (`StateHolds`), and that everything is uploaded in the end |
| `viewer` | see below | what one viewer is given: an account that only its owner commands, a page, lists and lines |
| `services` | see below | everything that is shared and in the background comes to its end and tells the truth |
| `operations` | see below | what one request or command promises |
| `position_race` | two handlers, positions of three times | violation: of two requests that have loaded the oldest, the older replaces the newer (section 5) |
| `sync_history` | two devices, three user actions on one history entry that nobody clears, no fault | violation: devices that have synchronized everything differ |
| `sync_erased` | one device | violation: ids are used twice after an erasure |
| `managed_race` | two administrators | violation: a revoked line is published again |

The parts of `viewer`:

| Part | Instance | Properties |
|---|---|---|
| `Accounts` | two handlers, three credentials, three passwords, two sessions at most, one deletion, one failing erasure | a commit rests on what is still true (`AuthorityHolds`), sessions follow the password, a pending account has none, one live token, a replay ends its session, what ended stays ended, what is due is erased |
| `Ranking` | three titles, one of which has two descriptions, two lists of up to three and two items, pages of two | `RankingIsFair` |
| `Search` | four providers with up to six results | `SearchIsFair`, `OrderIsOurs` |
| `LineSelection` | six routes of three sources, up to three found, one managed line, two lines wanted | `LinesAreServed` |
| `HlsClean` | every playlist of up to four segments of four durations (zero is one, and an unreadable one with up to three segments) or two hosts or with keys, of up to five with two durations; every net of three addresses | `SomethingIsServed`, `NothingIsCutAlone`, `PlayedAsWritten` |

`ListsAreFair` joins the properties of `Ranking` and `Search`, `StreamsAreServed`
those of `LineSelection` and `HlsClean`.

The parts of `services`:

| Part | Instance | Properties |
|---|---|---|
| `Playback` | two sources, two callers, two full and two quick tasks, one place in each semaphore, two attempts of a quick write | `TypesOK` (a full row without a line means that every source was asked), `RunningIsTracked`, `FullStands`, `EveryoneIsAnswered` |
| `AliasSearch` | three sites of which one is preferred, two names, four queries, two at a time | `FirstAliasForAll`, `StatusIsTrue`, its end |
| `QuickScan` | three matches of two sites, one of them bound before, two producers, two candidates at a time, two lines wanted | `NoLostWakeUp`, `EndsWithAReason`, `CircuitIsProviders`, its end |
| `Verification` | two codes, two requests, two workers, two attempts, one guess, one crash, one short lease | `CodeWorksOnce`, `OneSender`, `EndStands`, the end of each message |

The parts of `operations`:

| Part | Instance | Properties |
|---|---|---|
| `Migrations` | an empty, a partial and a created database and two legacy ones, with and without the unique constraint that 0002 replaces, downgrades to 0 and 13, three commands, one crash | `SchemaIsWhole`: the database of a head revision lacks nothing, unless a downgrade or a filling was torn, and an upgrade can be repeated |
| `Catalog` | two titles, two refreshes, one reader, two ticks | `RankingMovesForward` |
| `ProviderGate` | three questions, two places, pauses of one and two | `CooldownIsKept` |
| `Aliases` | four answers of TMDB, two requests | `AliasesAreTrue` |
| `Resolution` | two matches of one site with an address in common, one at a time, two hops, two playlists deep | `ResolutionIsTrue` |
| `Danmaku` | two accounts, two players, two episodes, three comments, pages of one, a cache of one | `PagesCover`, `AskedOnce`, `CacheIsBounded` |
| `RateLimit` | three keys of which two fit, two attempts in a window of two, three hashes on two threads | `LimitsHold` |
| `Community` | two accounts, two targets, two requests, two rows, four comments, pages of two | `MarksAreSingle`, `PagesSkipNothing` |
| `Lifecycle` | six loops, the outbox, two detached tasks | `NothingOutlivesItsServices` |
| `SubtitleLibrary` | two files, two rows that are refused, a cache of one, both kinds of storage; once with two requests and nothing but deaths and refusals, once with one request and one mishap | `StoredIsReadable`, `ReadsAreTrue` |

Bounds. The code's limits (100 mutations, 200 records, 20 rounds, 4 sessions,
pages, places, windows) are constants of the models; the runs use 1 to 4 so that
full batches, full pages, full tables and exhausted rounds occur with few
values. Two of whatever races (handlers, workers, administrators, refreshes,
players) reach every pair of overlapping requests; on one database more of them
only repeat the pairs, since one lock serializes their writes, and the proofs
cover any number. `MaxEdits`, `MaxFaults`, `MaxErasures`, `MaxCounter`,
`MaxCredential`, `MaxPassword`, `MaxRequest`, `MaxFailures`, `MaxCodes`,
`MaxCrashes`, `MaxSlow`, `MaxCommands`, `MaxPosts`, `MaxMarks`, `MaxComments`,
`MaxMishaps`, `Ticks` and `Horizon` bound what users, faults and clocks do, in the guards. One
fault with two user actions reaches a late request after the next change, a
crash between any two steps, and a retry. In `viewer` two sessions and three
credentials let a third session push one out, and a refreshed session be
replayed. In `services` two tasks of a kind are needed for a third to be refused
a name only after the first was forgotten, and three sites for two waves.

`CHECK_DEADLOCK FALSE` is set where the system stops: a device that has used up
its actions has nothing to do, an account whose passwords and credentials are
used up, an episode that was answered, a search that ended, a process that has
exited. The server of `server_concurrent` and `server_serial` can always be
restarted and never stops.

`sync_favorite` and `sync_pages` are symmetric in the devices. Runs with
liveness are not.

Fairness. `CloudSync`: the event loop of a device goes on. Weak fairness of its
own steps, and separately of the user action in progress, stands for futures
that complete, timers that fire and requests that are answered or fail; the
write queue is a chain that starves nobody. `Accounts`: a handler that has
fenced itself commits or rolls back (weak), and the cleaning job is run by a
timer for ever while handlers hold the lock again and again, so its steps that
need the lock have strong fairness. SQLite's busy timeout makes no such promise
for one attempt; the job returns at its interval for the lifetime of the
process, and a failed erasure (`MaxFailures`) is retried. `Playback`: each task
and each request that is in progress goes on (weak); sources are asked with a timeout. `AliasSearch`,
`QuickScan`, `Verification`: some step of what is under way is taken (weak):
the loop runs, a query is answered or times out, a lease or a delay ends. No
fairness is assumed of users, faults, late deliveries, crashes or hang-ups.

## 4. Proofs

A safety property is seldom inductive; what follows says for each module
which stronger invariant is, and why its parts are needed. Each proof has a
lemma for the initial states, lemmas for the actions or groups of actions, and
a theorem that combines them. A theorem with a hypothesis names it; where none
is named the only assumptions are those of the modules (`ASSUME`), which TLC
evaluates in the runs.

### SyncRequestsProofs

Lemmas that the next two modules share. `SyncRequests` defines a push as a
recursive function over its mutations and a page by sorting rows. `Recursion`
shows that such a function exists and `PushIsAChain` that a push is the chain of
its steps, so that `PushProgresses` can say what a whole push does: the tables
grow (`Extends`), stay `Sound`, and every acknowledgement is of a row that is
there. `PullReads` says what a page contains: the rows after the cursor up to the
one it ends with, by way of the ranks of a finite set of numbers (`Ranks`).
Induction over the length of a batch uses the least number at which a claim fails
(`LeastMember`), since the library's induction theorems take an operator as a
parameter.

### SyncServerProofs

For every set of records, mutations, handlers and batches, from
`BatchAssumption` (a request lists no id and no record twice), `HandlerAssumption` and
the assumptions of `SyncData`:

| Theorem | Statement |
|---|---|
| `TypeCorrect` | `Spec => []TypeOK` |
| `InductiveInvariant` | `Spec => []Inductive` |
| `ReceiptsHaveRecords` | `Spec => []ReceiptHasRecord` |
| `RevisionsAreUnique` | `Spec => []RevisionsIdentifyRows` |
| `AnswersAreDurable` | `Spec => []AcknowledgedIsDurable` |
| `CommitsGoForward` | `Spec => CommitsAdvance` |
| `MutationsApplyOnce` | `Spec => AppliedOnce` |
| `RequestsAreAtomic` | `Spec => []BatchIsAtomic` |
| `StoreIsServed` | `OneAtATime` implies `Spec => ServesStore` |
| `PositionsStayLatest` | `OneAtATime` implies `Spec => PositionKeepsLatest` |
| `RulesAreKept` | `OneAtATime` implies `Spec => RulesStand` |

The argument. `TypeOK` is inductive together with `HasCurrent`: the loop of the
service always has a mutation at hand. The safety properties are not inductive:
a commit publishes tables that only the lock holder could see, so the
invariant must speak of them too. `Inductive` says that both versions of the
tables are *sound* (receipts have rows, revisions are unique and bounded), that
the uncommitted version *extends* the committed one (receipts are only added,
and each changed row has a newer revision and is the work of a mutation unknown
before), that what a handler has read is still true when it acts (`ReadsStay`:
rows never disappear, receipts are never removed), and that each mutation of a
request is still to be done or has its receipt and acknowledgement in sight.
`WriteKeepsSound` is the core: it needs the uniqueness constraints and
`ReadsStay`, since a mutation that changes nothing leaves a receipt and its row
must be there. Every action then has a lemma of its own, and `OthersKeep`
carries the facts about the other handlers over any step that extends what
they see. The first two action properties follow from `CommittedGrows`.

`BatchIsAtomic` needs to know where a receipt comes from: each committed one is
in a request all of whose receipts are committed (`Whole`), and what the lock
holder has added is of the request it serves (`Owns`). At the commit none of its
mutations is left to do, and that all that were done have their receipts is
part of `Inductive`.

`StoreIsServed` is the refinement. Its hypothesis `OneAtATime` says that there is
one handler. A push of the store is a recursion and the endpoint does a step of it
with each loop. `Serves` says that the tables the handler sees are those of the
recursion (`Chained`) after the mutations it has done (`Follows`), and that
what it has read in this request is still so (`ReadsHold`). A commit is then a step
of `SyncStore`, and every other step, failures, retries and restarts included,
leaves `db` as it is.

The conflict rules are properties of one mutation. A request names no record twice,
so each row the chain has changed is the result of one mutation of the request on
the *committed* row (`Resolves`). That the row read is the row replaced is where
`OneAtATime` is used; with two handlers `position_race` is the counterexample.
`RulesAreKept` also needs `Asked`: the receipt of the mutation that a favorite's row
names as its last has the payload and the flag of the row.

### CloudSyncProofs

For every set of devices, records, entries, page sizes, batch sizes and bounds,
from the assumptions of `CloudSync` and `SeedAssumption` about the initial states:

| Theorem | Statement |
|---|---|
| `Invariance` | `Spec => []IInv` |
| `StateCorrect` | `Spec => []StateHolds` |
| `CursorCorrect` | `Spec => []CursorCovers` |
| `QueueCorrect` | `MaxErasures = 0` implies `Spec => QueueKeepsChanges` |
| `IdsCorrect` | `MaxErasures = 0` implies `Spec => []IdsAreUnique` |
| `PushesAreAccepted` | `MaxErasures = 0` implies `Spec => []NeverRejected` |
| `MigrationCorrect` | `CalmSpec => []MigratedUploads` |
| `AgreementCorrect` | every record has an entry of its own implies `CalmSpec => []DevicesAgree` |

The argument. `IInv` is `TypeOK` and, for each device, `DeviceOK` about the
tables, its disk and its running application. A step of a device changes only its
own disk and application, and the tables only by extending them, so two lemmas
carry the whole induction: `DeviceSteps` says what a step can be, and
`GrowthOK` that `DeviceOK` survives whatever others do to the tables. The parts
of `DeviceOK`:

- `Shaped`: which variables are in use at which point of a run or of a user
  action; without an edit the screen and the disk show the same, and while nothing
  is being put the state in memory is that on disk;
- `Orderly`: the mutations in the queue and in a request that was sent carry the
  device's name, a number up to its counter, and no id twice;
- `Kept`: a mutation that is in the queue on disk and no longer in the queue in
  memory is received, or a newer one of its record is there;
- `Behind`: no cursor is ahead of the server;
- `Answered`: what was sent and acknowledged is received, and a record still
  to be applied is the row as it is, or one that a later page will bring;
- `BeingPut`: the mutation that is being put is in the queue and the answer that is
  being applied will not take it out;
- `Covered`: for an entry that is about one record, a row up to the cursor is what
  the entry shows or a change of it waits, on disk and in memory alike. This is
  `CursorCovers`, and it is not inductive: a cursor moves at the end of a page and
  the entries one record at a time (`Pulled`), an acknowledgement takes mutations
  out of the queue after its records were applied (`Acknowledged`), and a user
  action changes the screen before its change is queued (`Unsaved`);
- `Drained`: what a device that says "synced" has behind it.

`QueueKeepsChanges` follows from `Kept` and the order of the ids. Ids are unique
(`IdsOK`) because the counter *on disk* bounds every id that left the device: the
server's receipts, the late requests, the sent batch, the queue on disk. Ids that
were given in memory and not put may be given again after a crash, and are not
among these. The hypothesis `MaxErasures = 0` is the third finding: an erasure
resets the counter.

`MigratedUploads` is *not* an invariant of `Spec`. The attempt to prove it led
to a counterexample: a user removes an entry, the change is published and not
yet queued or saved, a migration reads the screen, finds nothing to upload and
puts the migration flag, and the application dies. On disk the entry is there,
the flag says that it was uploaded, and nothing uploads it
(`sync_controller.dart:404`; a hazard, and in section 5). It needs a crash, a
migration and an edit on one device, which `sync_pages` does not combine.
`CalmSpec` is `Spec` without a crash while a user action is unsaved; there the
invariant is `UploadsOK`: an entry that is shown on a migrated device, and one
that is stored, is at the server or in the respective queue, unless the edit that
is in progress is about it. `AgreementCorrect` adds what `CursorCovers` says, and
needs that an entry is about one record: the second finding is that devices
whose history entries are about two need not agree.

### AccountsProofs

For every number of handlers, credentials, passwords, requests and every session
limit, from `HandlerAssumption` and `BoundAssumption`:

| Theorem | Statement |
|---|---|
| `TypeCorrect` | `Spec => []TypeOK` |
| `AuthorityCorrect` | `Spec => []AuthorityHolds` |
| `PasswordCorrect` | `Spec => []SessionsFollowPassword` |
| `PendingCorrect` | `Spec => []PendingMeansSignedOut` |
| `TokenCorrect` | `Spec => []OneLiveToken` |
| `ReplayCorrect` | `Spec => []ReplayEndsSession` |
| `EndedCorrect` | `Spec => EndedStaysEnded` |
| `RedeemedCorrect` | `Spec => RedeemedOnce` |

The argument. The inductive invariant is `IInv`, the conjunction of `TypeOK` and
three groups. `Tokens`: what has not been issued is in no row and no history
entry (`Numbered`), no two rows are the same session (`Distinct`), and on these rest `OneLiveToken` and
`ReplayEndsSession`, because a new credential is then one that no row and no
history entry has. `AccountInv`: an account without a password does not exist (`Registered`),
sessions follow the password, a pending account has none.
`AuthorityInv`: what a handler has captured is still so while it holds the lock
(`AuthorityHolds`), and a handler is fenced only for what its route expects
(`Routes`): a login fences an account that is not pending, a registration none,
a change of the password one with the session it read. `PendingMeansSignedOut` is not inductive without `Routes`, since a login
that is committed after the request of a deletion would break it; and
`SessionsFollowPassword` not without `AuthorityHolds`. There is one lemma for
each action and group; the two action properties follow from `IInv` and a lemma
about each writer of sessions and of the history. The part of
`viewer` that is about an account starts as `Spec` does and takes its steps.

### VerificationProofs

For any number of requests, workers, codes, crashes and short leases, and limits of
at least one guess and one attempt (`Limits`):

| Theorem | Statement |
|---|---|
| `TypeCorrect` | `Spec => []TypeOK` |
| `CodeCorrect` | `Spec => []CodeWorksOnce` |
| `SenderCorrect` | `Spec => []OneSender` |
| `EndCorrect` | `Spec => EndStands` |

The argument. `CodeWorksOnce` needs to know that the code in the row has not been
used, nor one that is still to be issued (`Unused`); `TypeOK` that a message without
a result has attempts left (`MayBeTried`), since a worker adds one to what it has
read. `OneSender` is about what workers remember, and rests on the row: as long as
no lease was too short, what a worker has is being processed under its claim and
not stale (`Own`), and such a message is not eligible for another. A step of the
mail may do to a message only what `Allowed` says, and a step of the codes does
nothing to it.

### ServicesProofs

`Playback`, for any sources, callers, refreshes and limits, from `TaskAssumption`:

| Theorem | Statement |
|---|---|
| `TrackedCorrect` | `Spec => []RunningIsTracked` |
| `WholeCorrect` | `Spec => [](row.scope = "full" => row.kept.whole)` |
| `FullCorrect` | `Spec => FullStands` |

A task is started only where none of its kind has yet to end
(`StartTracks`), and the callback of one that has ended leaves the entry of its
successor (`RemoveKeeps`). `FullStands` needs `IntactMayGo`: while the row is as a
quick refresh has read it, it is one that may be replaced, because every full write
changes what has been read. `WholeCorrect` is a fact about the statuses of a scan
(`StatusMeans`): the diagnostics overwrite each other, and still none of the values
on which `_should_store_full_result` decides has two meanings.

The sum, for the behaviours of `MCServices` and every value of its constants:

| Theorem | Statement |
|---|---|
| `ScansCorrect` | `AllParts => []ScansAreTrue` |
| `CodesCorrect` | at least one guess and one attempt (`Limits` of `VerificationProofs`) implies `AllParts => []CodesAreSafe` |
| `DoneStands` | the same implies `AllParts => WhatIsDoneStands` |
| `CircuitCorrect` | `AllParts => CircuitIsProviders` |

`ScanAssumption` says what the code's constants satisfy: the sources of a scan
are distinct and the collector is not one of them, matches and producers are
finite sets, a title that is bound to a site has its match there, the budget of
queries and the number of places are naturals, the latter positive. A step of
the sum is a step of one part or of none, so each invariant is carried by its
own part and untouched by the others.

*The quick scan.* `NoLostWakeUp` says that the loop sleeps with its event clear only
while every place is taken or nothing waits, and something is under way that will
set the event. `EndsWithAReason` says that a scan that ends for want of candidates
has tried every one it may try. `LoopInv` adds what these rest on: the limit
(`WithinLimit`, and `PlacesAreUsed`: a pass starts as many as there are places, or
all that wait), what may be bound (`MayBind`), that of each site seen one match was
yielded (`SitesSeen`), that what a search has found is in the queue before the
mark of its end (`InOrder`), which is why a finder that has counted the last mark has
seen everything, and `TriedAll` and `AllCounted` for the time after the loop. The
circuit opens only where a match of that source ended as one that could not be
asked, since `seen` is the result of a match of its site (`QuickInv`).

*The search for matches.* `FirstAliasForAll` says that no site is asked for its
second name before the others of its wave have been asked for their first. Who is
asked next is decided twice, by the order in which asyncio runs the workers and by
the order in which the semaphore wakes those that wait, and neither alone is
enough. `AliasInv`:

- `AliasTypes`, and `Turns`: where a worker is says whether the loop will run
  it, and it is in the run queue once;
- `Counts`: how many names a worker has tried and has an answer of, at each of
  its points, and that it ends without a query only when the budget is used up;
- `Semaphore`: the waiters of the semaphore are the workers that wait, each once,
  and those that were handed a place run in the order in which they came
  (`HandedFirst`);
- `FirstComeFirst`: a site that was not asked is ahead of one that was, in the
  run queue and among the waiters alike. `Ran`, `LoopRan` and `GateRan` say what a
  step does to the two queues, and `RanKeeps` that it keeps this order;
- `Pending` and `Searched`: an answer is taken by the collector before its worker
  goes on to its next name, so that the status the collector writes
  (`matched`, `miss`, `failed`) is about the last query, and a miss is said only
  of a site all of whose queries were answered.

The queues are lists, so about twenty lemmas say what an insertion and a removal do
to the order of two elements.

### SubtitleLibraryProofs

For every set of entries, any number of requests, every size of the cache and any
number of mishaps, as long as the command is not one of the requests
(`Importer \notin Readers`):

| Theorem | Statement |
|---|---|
| `StoredCorrect` | `Spec => []StoredIsReadable` |
| `ReadsCorrect` | `Spec => []ReadsAreTrue` |

The argument. `IInv` is `TypeOK` with three groups: `OneReader`, the lock of
`_read_blob` in all the steps that hold it; `PutFirst`, which says of the command
between the file and the row what the properties say of the rows; and `Calm`,
which holds while nothing has gone wrong: an upload is only under way where
the folder has no file of its digest, and the command that is about to insert a
row has its file (`Kept`). Neither property is inductive without these facts about the
command, since its death is what they are about. Most steps change one task and no
file (`TaskStep`); after a mishap only `PutFirst` is left to show (`AfterMishap`).

### OperationsProofs

About the behaviours of `MCOperations`, for every value of its constants. Each of
its parts is started by itself, so an invariant of one part is carried by the
steps of that part (`[Step]_Everything` is a step of each part or leaves it as it
is):

| Theorem | Statement |
|---|---|
| `ShutdownCorrect` | `AllParts => []ShutdownHolds` |
| `RankingCorrect` | `AllParts => RankingMovesForward` |
| `SparedCorrect` | `AllParts => ProvidersAreSpared` |
| `LimitsCorrect` | `AllParts => []LimitsHold` |
| `CommunityCorrect` | `AllParts => []CommunityHolds` |
| `SourcesCorrect` | `AllParts => []SourcesAreTrue` |
| `SubtitlesCorrect` | `AllParts => []SubtitlesHold` |

The assumptions are those that `MCOperations` names: a refresh is somebody, and
staleness a number of seconds (`CatalogAssumption`); Retry-After is a number
(`PauseAssumption`); the table of the other network has room for one answer
(`NetworkAssumption`); limit and window are positive, as `rate_limit.py` checks
itself, and requests are finitely many (`LimitAssumption`); the command is not one of
the requests (`LibraryAssumption`); a page has room for one comment
(`CommunityAssumption`); the loops of the scheduler have names of their own
(`LoopAssumption`); what TMDB finds is a list of series with numbered seasons
(`SeriesAssumption`).

*The shutdown* (`ProcessInv`). `ShutdownHolds` speaks of tasks and open services, but
what makes it true is the order of `lifespan`: `Closing` says of each stage which
services are closed and which tasks are over by then. The refresh of the catalog
and of the home page are not awaited by the stage that cancels them, so that they
may be `cancelled` while a service closes, and are over one stage later.

*The ranks* (`RankingInv`). One refresh at a time is `current` or at its
write, its beginning lies in the past, and no title has a rank that is newer than
it. A write goes through `Entry` and `Updated`, which `StoredRanks` describes once:
the store of a search leaves every rank alone.

*The providers* (`GateInv`, `NetworkInv`). That a question is sent in a pause only
from inside the semaphore is read off the steps. A flight has asked only
while it is asking, and the table has one answer for an episode: `Kept` says that
what `Keeping` selects stays in its order and without repetitions, by `Ordered`,
which describes the sorted list of a finite set of numbers.

*The limits* (`LimitInv`, `PoolInv`). The table is what was granted and is not a window
old (`Since`, with `SinceIs` for its front), also after rows of other clients were
purged. With Redis what was granted in the last window comes from two fixed
windows at most, the present one, which the counter counts, and the one before,
which was limited too: hence twice the limit. A place of the pool that is not free
belongs to a hash until the thread ends, also when its request went away.

*The marks* (`MarkInv`). `Apart` says of an account and a target on which no two
requests have met that it has one row at most, and none while a request means to
insert one. Rows are told apart by their numbers (`RowsAreNumbered`), and a counter
is at most the number of rows of its target as long as requests stay apart
(`LikesAreCounted`).

*The lists by offset* (`ReaderInv`). A comment that is committed late is inserted
before others, so what has been skipped is not what was shown. The invariant
says that of the comments there all the time, those at the places skipped were
shown: an insertion moves them back, never forward (`ListPlaces`, `PageIs`).

*The lists by number* (`ViewInv`). `Numbers`: a comment has a number of its own,
although the greatest is given again after a deletion. `Covers`: what was shown is
in order, below the place the player has reached, and contains what was there all
the time up to that place. `PageOf` describes a page from the order of a finite set
of numbers. A comment that gets a number again was not there all the time.

*The names of a title* (`NamesInv`). A request that goes through what was found has
read only series of other names so far (`SearchInv`), so the one at which it stops
is the first that shares a name with the title. `SeasonFits` says what the score
of seasons chooses: one that has the title's name or its year.

*The checks of lines* (`ResolutionInv`). `RowInv` says of each point of a check what
has been read by then, so that the last step may call the line verified. `PairInv`
ties a check to its match: it goes on only while the match waits for its checks, and
for an address that the match has listed. `OutcomeInv` and `MergedInv` are the
property itself, for a match and for an address. The reason of an outcome
(`Strongest`) is not needed for any of it.

*The subtitles* (`LibraryInv`). The invariant of `SubtitleLibraryProofs` for the two
parts of the sum, without and with mishaps.

### Only model-checked

Liveness under fairness (`Settles`, `DueIsErased`, `EveryoneIsAnswered`,
`EverythingEnds`) and ENABLED are out of the prover's reach. `TypesOK` of
`MCServices` adds up the places of the semaphores with a fold, and so do the
lists that `Ranking`, `LineSelection`, `Search` and `HlsClean` compute, which are
sorted and filtered besides: such an operator is defined by a recursion that the
provers cannot unfold for a list of any length. Recursive functions over numbers can
be reasoned about, by the least number at which a claim fails, and are where a push
is concerned. This leaves `ListsAreFair` and `StreamsAreServed`. `ManagedLines`
has a violated property only.
`SchemaIsWhole` is about fifteen given lists of statements and no parameter: TLC
runs them all, and a proof would only do the same.

## 5. Findings

1. **Overlapping requests lose the conflict rules** (`position_race`).
   `sync_service.py:64` reads the row before the first INSERT takes the write
   lock, and nothing compares the revision when the row is written. Two
   overlapping requests that have loaded the position of time 1 each win against
   it: that of time 3 is committed, and that of time 2 is written over it.
   Without a row to load this cannot happen, since the second INSERT meets the
   uniqueness of rows and the request is run again. The same steps lower the
   progress of a history record, and can leave a favorite with the payload of
   one action and the tombstone flag of another; the run is about positions.
2. **A stale acknowledgement is applied over a newer history record**
   (`sync_history`). A device pulls a newer history record, then pushes its own
   older position; the server acknowledges it with its unchanged position row,
   `_applyRemotePlayback` replaces the whole entry with it, and the cursor has
   already passed the history record. The devices stay different until someone
   changes the entry again.
3. **Ids are used twice after an erasure** (`sync_erased`). `deleteCurrent`
   removes the counter and keeps the device id, while the account lives on at
   the server. After a new sign-in, a change under a used id is answered with
   409 on every run, and the queue behind it never moves.
4. **A revoked line is published again** (`managed_race`). Each operation checks
   the record it has read first and saves all of it later; a verification that
   fetches the media meanwhile writes the status of before the revocation back.

Disagreements met while modelling, which the models show but no run of its own
is about. The properties above are stated for what remains:

- `hls_clean.py`: a KEY line after a segment is kept with the segment before it
  and written in front of that one's address, so that it is played with the
  wrong key (the docstring, line 14, asks for keys that rotate to be kept), and a
  KEY after a DISCONTINUITY goes to the header. A streak of short segments is
  counted across the borders of groups (line 10 says within one). A playlist
  whose segments are all of two seconds or less, or whose one group has an odd
  host, is cut to an empty one and answered with 200. `PlayedAsWritten` and
  `SomethingIsServed` therefore speak of playlists with one key, one host and
  longer segments.
- `aggregator.py`: results of the international provider carry bare ids, which
  `get_episodes` can never open; all crawlers share the site "crawler" in the
  rounds of the search. A site's diagnostics after a full scan are those of
  whichever of its matches completed last (lines 1349-1351).
- `playback.py:96`: `ANICH_LINE_SOURCE` is not the source of any line, so the
  short life of these lines is never stamped; `LineSelection` has the comparison
  as it is.
- `routers/legacy_comments.py`: two overlapping likes of one account make two
  rows, on which every later look fails; a cancel that finds no row still lowers
  the count of the others; collections are paged by offset without an order.
  `MarksAreSingle` says when this can happen.
- `dandanplay.py`: a task shared by several players uses the rate limit of the
  first, and its refusal is handed to all; these tasks are not cancelled at
  shutdown.
- `catalog.py`: after a partial failure of TMDB the alias cache keeps "no further
  names" for the lifetime of the process, and one request may overwrite the
  names another one learned. A search overwrites the stored detail of a title.
- `account_api.py:407`: the UPDATE that counts a wrong guess names the row alone,
  and SQLite gives row numbers out again: a late guess at one code can count
  against the next. The DELETE of an accepted code compares the digest too.
- `playlist_tokens.py`: tokens are valid for six hours and lie in an answer that
  is cached for up to a day.
- `migrations/`: a crash between ADD COLUMN and the UPDATE of old rows (0003,
  0014) or before an index (0008, 0009, 0015) is never made good, and 0001 and
  0007 refuse the half-made schema, so the backup must be restored. A downgrade
  that is cut short can leave the head revision on a database that lacks tables,
  which start-up accepts. This is why `HeadIsComplete` excepts what was torn or
  cut.
- `auth.py`, `privacy.py`: SELECT FOR UPDATE locks nothing in SQLite, so a
  cancellation that was answered with success may be followed by the erasure;
  SQLite gives the id of a deleted session row to the next one, which a logout
  that read it before then ends.
- `repositories/playback.py`: the counters of a source are read and written back
  without a condition; of two first observations one fails on the unique name,
  and the full refresh answers with no lines.
- `subtitle_library.py`: a request that has seen a file in the cache (line 393)
  fails with `library_unavailable` when it is evicted before it is opened,
  although Drive has it; a thread that meets another one's eviction stops its own
  (line 370), so that the cache may stay above its limit until the next write.
  `find` refuses all versions of an episode when one file is missing.
- `subtitle_google_drive.py:213`: the write lock is that of one process. Two
  commands at a time, or an upload that timed out and is stored later, leave two
  copies of a digest, which every later import of it refuses
  (`drive_ambiguous_blob`). `StoredIsReadable` is about one command at a time.
- `playback.py`: a quick scan that its deadline ends records nothing of the
  sources it has asked.

In the synchronization: a push that timed out and is served after a later change
of the same record takes the server back to the older change (`ServeLate`); a
crash right after a migration that skipped an entry the user had just removed
leaves that entry stored and never uploaded; a queue or a library longer than
twenty rounds ends every run in the error phase without a retry timer.

## 6. Not modelled

Of the sync client: the window before the controller is ready, in which a
change is stored and not queued; the switch of accounts while operations are in
progress; a local storage that fails; the compatibility sync of public
collections; the acknowledgement receipts and the last sync time, which nothing
reads back. Of the library: the limit of 80 entries, cover favorites, feedback
and notes. A history entry has one episode, so `addHistory` keeps its progress.
A position tombstone does not occur since no client writes one. Of the sync
server: validation and authentication. A session is taken to be authenticated
until `SessionExpires`. The clocks of the devices agree.

Of the accounts: the profile (one column) and the tokens without a session of
old clients. Of the outbox: `purge_history`, which nothing calls; the results of
one batch are stored together, so that a single failing write is not told apart;
a claim token is the name of its worker, so that a worker which claims its own
message again, after its lease ended while it was claiming, has it once and not
under two tokens (it sends it twice, and only the later token stores a result).
Of the erasure: that public content stays without its author (its effect on
danmaku and marks is in `Danmaku` and `Community`).

Of the playback: `get_episodes`, the home feed, the compatibility routes
(`compat_v2.py`), the store of premium lines, the scores by which titles are
matched (which titles match is left open), and the parsers of each site. Of the
catalog: matching of titles and identities. Of `metadata_sync.py`: everything,
since it never stores what it reads. Of the migrations: the offline mode.
Of the legacy routers: tags and details of threads and the adapters to old formats.
Of the subtitles: the candidates of online providers and their short cache, since
the server is built without a provider, and the renewal of Drive's token, which is
one of the reasons why a request is refused.

Settings are two records of the sync client. The client's account controller,
player, prefetch cache, downloads, staged discovery, recommendations, rules and
views are not modelled: the account switch, the downloads and the prefetch cache
have interleavings worth a model and come next; the rules are interpreters of
third-party pages, and the rest is presentation.

The other tools (`server/tools/`, `tools/`) are run by hand and keep no state
beside their reports.

## 7. Plan

In this order:

1. `SyncScopes`: account switches, late results of the previous account, failing
   local storage and the erasure marker, over the queue operators of
   `CloudSync`.
2. `PrefetchCache` and `Downloads`: shared in-flight requests, invalidation,
   pause and resume.
3. The staged discovery and the recovery of lines in the player.
