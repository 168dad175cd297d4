# A verification project for wytui

wytui is a self-hosted front end for yt-dlp: one Node process (SvelteKit) over
PostgreSQL (Prisma) and the file system. It queues and runs downloads, keeps a
bounded cache and a library, follows subscriptions and live streams, and cleans
up what was watched. This directory holds TLA+ models of its server core
(`src/src/lib/server`), TLC configurations that check them and TLAPS proofs
about them. File names below are relative to `src/src/lib/server/` unless they
start with `src/`; numbers in parentheses are lines.

## 1. How the models are built

The server is single-threaded JavaScript. Everything between two `await`s is
atomic and everything else interleaves: HTTP requests, queue handlers, timers,
child processes, and queries that run on different connections of the
PostgreSQL pool. In every module **an action is the code between two awaits**,
or several such pieces when no other actor can see or change anything between
them. A value a function reads before an await and uses after it is a variable
of the model (`claim`, `seen`, `listed`, `garbage`, `removal`), because that is
where this program can go wrong.

A restart keeps what is in the database and on disk and resets everything else.
`SIGTERM` and `SIGINT` end in `process.exit` (src/src/hooks.server.ts:328-339),
so an orderly shutdown and a crash are the same action.

| Module | Models | Run by | Proofs |
| --- | --- | --- | --- |
| `JobQueue` | services/queue.service.ts, the whole worker | `MCJobQueue` | `JobQueueProofs` |
| `QueueContract` | what `enqueue` promises, with no worker in sight | as a property of `JobQueue` | refinement, in `JobQueueProofs` |
| `DownloadPipeline` | one download through both phases, its processes, timers and requests | `MCDownloadPipeline` | `DownloadPipelineProofs` |
| `Library` | files and rows of finished downloads: promotion, reconciliation, sweeps, removals | `MCLibrary` | `LibraryProofs` |
| `LibraryContract` | what the library promises of a finished download, with no files in sight | as a property of `Library` | refinement, in `LibraryProofs` |
| `CacheQuota` | which cached downloads go when a quota, the total cap or the disk is exceeded | `MCCacheQuota` | `CacheQuotaProofs` |
| `CheckChain` | the self-rescheduling chain of a system job or a subscription | `MCCheckChain` | `CheckChainProofs` |
| `VideoArchive` | which videos of a subscription are new, through archive and rows | `MCVideoArchive` | `VideoArchiveProofs` |
| `Monitors` | a live monitor: probes, restart timers, hand-off | `MCMonitors` | `LiveProofs` |
| `Retention` | auto-deletion and watched-cleanup against pins and marks | `MCRetention` | `WatchedProofs` |
| `WatchSync` | watched marks and their exchange with the YouTube history | `MCWatchSync` | `WatchedProofs` |
| `LiveView` | server-sent events and the list of active downloads in the page | `MCLiveView` | `LiveProofs` |

The modules meet at their seams. `DownloadPipeline` and `CheckChain` use the
queue as its callers see it: a job is pending, claimed when its type has a slot,
and gone when its handler ends. `JobQueue` justifies this: `ImplementsContract`
says an execution ends closed or waits again, `NoDoubleStart` that a row has one
execution, and `DueJobFinishes` the fairness of `Claim`. `CheckChain` in turn is
why the passes of `Library`, `CacheQuota`, `Retention`, `WatchSync` and the
checks of `VideoArchive` come again and again. `Library` sees the pipeline as
three actions, `FetchStart`, `FetchDone` and `FetchFail`; `VideoArchive` and
`LiveView` see a row that is active until it ends one way or another.
`CacheQuota` keeps of `Library` what an eviction can meet, the last two steps of
a promotion and the rows a reconciliation removes; `Library` in turn lets any
completed download be evicted.

## 2. Inventory

**Job queue worker** (services/queue.service.ts). State: the table `job_queue`
(status, runAt, priority); in memory `activeJobs`, `activeByType`,
`maxConcurrentByType`, `handlers`, `isPolling`, `started`, the interval.
Operations: `registerHandler`, `start`, `stop`, `poll`, `executeJob`,
`enqueue`, `setMaxConcurrent`, `clearPending`. Hard: a claim awaits in the
middle of the bookkeeping; `started` is set before the reset of stale rows;
outcome writes can fail. Correct when limits hold, no row executes twice at
once, no RUNNING row is left without an execution, and due jobs finish.

**Download pipeline** (services/download.service.ts, init.ts). State: the row
`Download` (status, retryCount, filepath), two queue jobs (metadata, then
download), yt-dlp processes and their output file; in memory `activeProcesses`,
`handlingError`, `retryTimeouts`, `cancelledDownloads`. Operations: create,
the two handlers, progress callbacks, stall watchdog, error handling with
retries, cancel, delete, user retry, heal pass, boot resume. Hard: nearly all
of it, since every one of these may meet any other between two awaits. Correct
when one process writes a file, an active download is always driven by
something, a cancelled one is stopped, and every download settles.

**Library and file hygiene** (services/library.service.ts, removals also in
auto-delete, cleanup and download services). State: rows with `storagePool` and
`filepath`, files of the download directory, library folders with media and
`.part` temporaries, `promotionInFlight`. Operations: `promoteToLibrary`,
`resumeInterruptedPromotions`, `reconcileFiles`, `sweepOrphanedDownloads`,
`sweepLibraryHusks`, and the removals by quotas, retention and users. Hard: a
promotion is four awaited steps, the sweeps compare snapshots of two stores
taken at different times, and a restart may fall anywhere. Correct when a
completed download has its own file where its row says, keeps its record while
its file exists, reaches the library if it is meant to, once, and garbage goes.

**Cache quotas** (library.service.ts 381-760). The per-user quota, the total
cap, the free-space check and "clear cache" evict completed cache rows, the
oldest first, from totals read before the first unlink. Correct when usage ends
below the quotas, each download is evicted once and only from the cache. Hard:
every completion starts two of them at once, on the same rows, beside
promotions and deletions.

**Scheduler** (jobs/scheduler.ts). System jobs are queue jobs that enqueue
their successor; `runningJobs` guards against overlap; job runs are logged and
pruned. Correct when a chain never dies and never runs twice at once. Hard:
errors inside the rescheduling, start-up while the old chain's row is reset.

**Subscriptions** (services/subscription.service.ts,
utils/rate-limit-cooldown.ts). Per-channel chains like the scheduler's,
`activeChecks`, a global cooldown; and the archive of seen videos with back-fill.
Correct when a new video is downloaded, back catalogue is not, and a failed check
is retried. Hard: what is known about a video is spread over two tables that
everything that downloads or deletes writes to, one after the other.

**Live monitors** (services/monitor.service.ts). One probe process per monitor
in `activeMonitors`, restarts with back-off in untracked timers, a live hand-off
that creates a download. Correct when an enabled monitor is always watched by
something, a Twitch monitor has one handler at a time, and the end of a stream is
noticed. Hard: callbacks, timers and promises outlive the run they belong to.

**Retention** (services/auto-delete.service.ts, cleanup.service.ts, the purge in
download.service.ts): which watched rows are old enough, the grace period
`allWatchedAt`, pins. Correct when what is pinned or unwatched stays and the rest
goes. Hard: passes act on rows they read minutes ago.

**Watch progress and YouTube account sync** (services/watch-progress.service.ts,
youtube-sync.service.ts): marks and a watermark between two histories. Correct
when nothing before the watermark is missing at YouTube. Hard: passes and saves
overlap, pushes fail.

**Server-sent events** (sse/emitter.ts, src/src/lib/stores/sse.svelte.ts): a
registry of clients, each given the active rows and then live events; a list in
the page with delayed removals, a watchdog and reconnections. Correct when a
running download is shown and one that ended is not. Hard: nothing is replayed,
and the initial state is read while events go out.

**Duplicates** (download.service.ts 210-345, 1299-1322, 1954-2002): several rows
of one video. **Rate limiter** (rate-limit.ts): a fixed window per client.

Without shared state or order of their own: the yt-dlp command
line and output parsing, search, media-server calls, metadata and subtitle
conversion, backup and import, settings validation, the event log,
authentication and guards, routes, the Svelte interface, the extension, charts
and CI. `PROJECT.json` lists each with its reason, and the hazards of every part
at their lines.

## 3. Plan

The order was: the worker everything runs on and its contract; the pipeline; the
files; evictions; then what is driven by the clock (`CheckChain`), what decides
what to fetch and what to delete (`VideoArchive`, `Retention`), and the
components beside them (`Monitors`, `WatchSync`, `LiveView`). All of these are
done. What could come next:

1. `Library`: the manual rescan as a second reconciler, and the assumption
   `NameFree` replaced by several names.
2. Duplicate rows: a module over the rows of one video in several profiles, with
   `sweepSupersededRows`, `sweepStaleDuplicateRows` and `findCompletedDuplicate`.
3. An abstract specification of one download as its owner sees it (requested,
   active, settled, gone). What one would promise first, that a finished download
   stays finished, is not true of this code (`FinishedIsNotRerun`, section 15), so
   it would need the remedy in `fetchMetadata`.

Modules that are proved about have no RECURSIVE operator, named assumptions on
their constants and invariants that are conjunctions of named parts.

## 4. JobQueue

One action per awaited piece of `poll` and `executeJob`. `poll` is `PollBegin`
(the query), then per row of the batch `SkipAtLimit` or `ClaimSend` (limit read,
claim sent), `ClaimApply` or `ClaimMiss` (the database), `ClaimReturn` (the
bookkeeping, with the *old* value `claim.seen`), and `PollEnd`. `executeJob` is
`HandlerReturn`, `WriteLost` or `Requeue`, then `Cleanup`. `start` is
`StartBegin` and `StartFinish` around its `updateMany`. A `setImmediate` poll is
a `PollBegin` at any time; only the interval's is fair.

Bounds: three rows of two types with limits 2 and 1 (two rows in the liveness
run), `Take` 2 instead of 20 so that a batch is cut, one restart. The contract
run requests the limit 0, which the clamp turns into 1; the liveness run has a
clock of 0..1, so that a requeued row is not due at once. A download that ends
while the other one's claim awaits its answer is what the stale write needs; a
metadata job is what the per-type limits need. Rows of one type are symmetric;
the liveness run uses no symmetry.

Left out: a claim that commits and whose answer is lost (118-125; `ClaimMiss` is
the claim that finds the row no longer PENDING), and a `clearPending` by id that
meets a row gone RUNNING since it was listed (subscription.service.ts:113-127;
`CheckChain` has that one).

| Run | Shows |
| --- | --- |
| `queue_contract` | `SlotsCoverExecutions`, `NoDoubleStart`, `ClaimWithinLimit` and `ImplementsContract` across a restart, lost writes, late handlers and a lowered limit. |
| `queue_live` | `RunningRowsOwned`, `OneSlotSurvives` and `DueJobFinishes`, limits fixed and the database up. |

`activeByType` may exceed the executions (line 129 writes `active + 1` from
before the await), never fall short. That is why the limit is safe and why
slots leak. `OneSlotSurvives` says the leak of one type stays below its limit
as long as nobody lowers it. Once somebody does (`LimitRequests = {1}` in the
liveness configuration), a leaked slot can be the last one, and `DueJobFinishes`
fails, while the test at queue.service.test.ts:116 expects a lowered limit to
apply to later claims.

Fairness: time goes on, the boot sequence ends, the interval keeps polling, the
database answers, handlers return. The last is an assumption about handlers: the stall
watchdog and the yt-dlp timeouts bound them in the code.

`ImplementsContract` maps a row and its execution to `absent`, `waiting`,
`executing`, `closed`, `withdrawn`. A restart is one `GiveUp` of every
execution: the contract is at-least-once, so handlers must be repeatable, which
`DownloadPipeline` then examines for the two that matter.

## 5. DownloadPipeline

One download. `job` holds its queue rows, `pc` the place of each handler,
`proc` the process it spawned (`running`; `dying` after SIGTERM, still able to
write; `dead`, killed with its close event to come). A job's number is used
again once the job and its process are over, which bounds the model by the rows
alive at once (`MaxJobs`), not by their history. Phase 1 is `MetaRead` ..
`MetaNext`, phase 2 `DownloadRead` .. `Complete`, errors are `ErrorGuard` ..
`ErrorFail`, cancel and delete `CancelBegin` .. `DeleteRow`, retries `RetryBegin`
.. `RetryCheck`, the boot sequence `BootReset`, `BootResume`, `BootStart`.

Abstracted: what yt-dlp prints (a path is captured, or a post-processing line),
which error it was (an error may or may not be retried), the task rows, the
archive (`VideoArchive` has it), event log, heal bookkeeping (any FAILED row may
be healed), and completeDownload's work after the COMPLETED write. Left out:
failing database calls, superseded and duplicate rows. A restart of the container ends its
children. Other downloads appear only as slots that are taken for a while, hence
strong fairness of `Claim`: a slot becomes free again and again because jobs
finish (`DueJobFinishes`).

`Prompt` names timing assumptions: `"timer"` and `"request"`, a retry timer or a
request comes only when the enqueues and last writes under way were answered
(one second, or a person, against a local query); `"exit"`, a stalled process
ends at its SIGTERM; `"restart"`, the same for a restart, assumed by no run.

| Run | Shows |
| --- | --- |
| `pipeline_requests` | `OneWriter` and `ActiveIsDriven` with cancel, delete, retry, heal and stalls, no restart. |
| `pipeline_restart` | `Settles` with a restart anywhere, user retries and stalls. |

Bounds: four job rows, one retry instead of three, one restart. Each hazard
needs two jobs of one download alive at once; four leave room for a retry of
each. These runs may stop: a settled download has nothing to do, so deadlock is
not checked in them.

Fairness: boot, timers, requests and handlers go on once begun; a process
exits (the watchdog sees to that).

### What happens without the assumptions

TLC shows these when an assumption is dropped. They are listed as hazards and
are not runs of their own.

- `"exit"`: the watchdog (896) frees the entry and retries after a second (1401);
  a process that outlives its SIGTERM writes beside its successor, against
  752-754.
- `"timer"`: the retry timer that fires before the failed job's closing write
  finds that job (390-399), enqueues nothing, and the row is stuck.
- The retry timer that an error handler sets after a cancel has looked for one
  (1409) outlives the cancel and the user's retry. It fires when that retry has
  finished: the metadata phase runs again, which stops only for CANCELLED (412),
  and a COMPLETED row is fetched anew with no restart at all
  (`FinishedIsNotRerun`, section 15).
- `OneWriter` with a restart: a crash between the enqueue of phase 2 (357) and
  the metadata job's closing write runs phase 1 again. `fetchMetadata` stops
  only for CANCELLED rows (412), so a COMPLETED row goes back to FETCHING_INFO,
  and two download jobs both pass the check at 762 before either spawns (869).
- A cancel while `completeDownload` has read the row unlinks the file (1581) and
  the row is then written COMPLETED (1191). A cancel that meets the retry write
  leaves a timer armed on a CANCELLED row (1409). A stalled process that prints
  a post-processing line after FAILED puts the row into PROCESSING with nothing
  behind it (1047).

## 6. Library

A file's content is the download it was fetched for, so "the row describes its
own file" can be said at all. yt-dlp names files by title
(services/ytdlp.service.ts:521); `cache` has one file per title, `media` and
`part` one per title and folder `"<title>"`, `"<title> (1)"`. A promotion is
`Probe` per folder, `Copy`, `Rename`, `Update`, `Unlink`; `promo` has one entry
per download because promotions of one download are coalesced (47-62). The
cache-cleanup job is `ResumeRead` and `ResumeOne` (waiting for each promotion),
then `ReconcileRead`, `ReconcileCheck`, `ReconcileJudge` (the circuit breaker)
and `ReconcileAct`. The orphan sweep reads the directory, then the rows, then
looks at each file. A removal reads the row, unlinks, and writes the row: an
eviction and the watched cleanup (cleanup.service.ts:188-193) stop when the
unlink fails, the others go on; retention turns library rows into tombstones.

Abstracted: sidecars, artwork and tags; the audio destination, which differs
from the video one in how the name is chosen; storage roots that are
unreachable; which rows a quota or a retention rule selects (any completed row).
The sweep's `stat` and `unlink` of one file are one step, as are the husk sweep's
`readdir` and `stat`. `RemoveFile` is one unlink; the code tries the path, the
path it read again, and every sibling of the same stem, one await after the other
(library.service.ts:929-945, auto-delete.service.ts:143-148,
cleanup.service.ts:188-196, download.service.ts:1617-1626), and a user's deletion
of a download first writes CANCELLED.

`NameFree` is an assumption: a title is fetched only while no file, row,
promotion or removal uses its name. The program does not ensure it, and where it
fails the second download replaces the first one's file. The module is about
what is right when names do not collide in the cache, while they do collide in
the library, where the folder search is meant to deal with it: the instance has
two downloads of one title and different sizes. `Overlap` names what else may
happen: `"remove"`, a removal while the download is being promoted, `"reconcile"`,
a reconciliation during a promotion, `"crash"`, a restart between a removal's
unlink and its write.

| Run | Shows |
| --- | --- |
| `library_files` | `RowsHaveTheirFile`, `OneCopyInLibrary`, `ImplementsLibraryContract`, `LiveRecordsSurvive`, `PromotionsFinish`, `OrphansReclaimed`, with `Overlap = {"remove"}`, and one restart or failed copy anywhere else. |

`LibraryContract` is what a promotion looks like to whoever follows the rows: a
download is `absent`, `cached`, `owed` (cached and meant for the library), `kept`,
`doomed` (its removal was asked for) or `gone`, and moves from one to the next in
single steps. `Place` maps a row to these if the file it names is there, and to
none of them if not, which is the code's own rule that every intermediate state
must leave the row describing an existing file (library.service.ts:262-264). So
copy, rename and unlink are no steps of the contract, the row update is the
promotion, a restart is nothing, and a promotion that was overtaken by a removal
brings nothing back.

Bounds: two downloads of one title are the least that collide; two folders,
since the second copy of anything goes to the second folder (a search that runs
past the last folder is followed only where the copy would fail for want of a
source); one mishap; the breaker at 2 rather than 4, so that losing both files
is an outage and losing one is not.

Fairness: job and sweep run periodically, a promotion and a removal go on once
begun, a day passes again and again (`AgeFile`), and the job reaches its
reconciliation although, without `"reconcile"` in `Overlap`, it waits for
promotions to end (strong fairness of `ReconcileRead`).

With `"crash"` TLC finds that the row left behind by a half-done removal comes to
point at a later download of the same title, and removing it removes the
newcomer's file. With colliding names the removal of one row takes the other's
file; and `stem + "."` matches (901, 941) "Foo. Part 2" when "Foo" is meant.

## 7. CacheQuota

Downloads are numbered in the order in which they complete, which is the order
of `completedAt`. A completed one has its row in a pool, and its file in the
download directory (`cached`), the library (`stored`) or, between the last two
steps of a promotion, both. `pass` holds the passes: `<<"user", d>>` and
`<<"total", d>>`, which the completion of `d` starts without awaiting them
(download.service.ts:1277-1282), and one each of the hourly app-wide pass, the
disk-space pass of a download about to start, and "clear cache". A pass is
`Sum`, `List`, then `Evict` (check and unlink) and `EvictRow` in turn.

`enforceCacheQuota`, `enforceTotalCacheQuota`, `ensureFreeDiskSpace` and
`clearCache` are four copies of one loop and are one set of actions here; what
tells them apart is `Scope`, `Quota`, `Enough` and `Candidates`. The archive and
sidecar removals and the look-up between unlink and row delete are part of
`EvictRow`. `Complete` is the COMPLETED write (download.service.ts:1191) with
the start of the two passes (1277-1282). Left out: a volume that cannot be read
(no cap is enforced then, and no download refused), rows without a size,
`completedAt` ties, the circuit breaker of the reconciliation (it needs four
missing files), and the check of the free space being one await before the
unlink.

| Run | Shows |
| --- | --- |
| `quota_passes` | `OneEvictor`, `StopsWithinQuota`, `MissingFilesHaveARemover`, `EvictsOldestFirst`, `QuotasRestored`. |

`StopsWithinQuota` is what the bookkeeping of one pass is worth: its tally is as
old as its `Sum`, the list is younger, and other passes, promotions and deletions
take files it has counted. Their bytes stay in the tally, so that the pass may
take too much and never too little; when it stops because the tally says so or
the list is at its end, what is left of the downloads up to the one that began it
is within the quota. A later completion may stand in the list without being in
the tally, but only behind all that is, which is why the order of the list
matters.

`QuotasRestored` needs an exception. A row that goes between a pass's unlink and
its delete (a user's deletion, the reconciliation) makes the delete throw, and a
restart forgets all passes; nothing enforces the total cap again until the next
completion, since the hourly job calls only `enforceCacheQuota`. `disturbed`
says that this happened since the last completion.

Bounds: three downloads, sizes 1, 1, 2, of two users, one of whom has a quota of
her own (1, against a default of 2), total cap 1, so that the two passes of one
completion want the same file; a completion or a request begins its passes while
one other runs at most (`MaxPasses`), so that three tally at a time and a
download completes between the sum and the list of an older one's pass; one
promotion, deletion or restart (`MaxMishaps`), the conflict of each with a pass
being one of its own. The proofs need neither bound. Fairness: the awaits of passes and
deletions are answered, and the hourly job removes rows without a file.

Seen while modelling, and meant or not said otherwise:

- Passes that skip a file another has just taken do not count it (426-428), so two
  passes of one completion that are both over by one file evict two.
- The hourly pass, and that of a download without an owner, apply
  `cacheQuotaBytes`, the default limit of *one* user (permissions.ts:30-33), to
  the sum over all users, and so evict from users who are within their own.
- No eviction looks at `protected`, though the API calls it "excluded from all
  automated deletion" (src/src/routes/api/downloads/[id]/+server.ts:93).

## 8. CheckChain

Nothing recurring in wytui has a timer behind it. A system job or the checks of
a subscription are one row of `job_queue`, and the handler that executes the row
enqueues the next. One chain is modelled, of either kind. `at` is where each
caller of the scheduling code is: the handler of each row, the start of the
process (`boot`), a request (a PATCH, a DELETE, a settings change) and "Check
now" (`manual`). `Claim` and `Close` are what the queue promises; `EnterBody`
takes the name in `runningJobs` or `activeChecks`, `LeaveBody` gives it back, also
when the body throws; `ReadSubscription`, `ListPending`, `ClearOne` and `CreateRow`
are the awaits of `scheduleNextRun` and `scheduleSubscription`, any of which
`ScheduleFails` may end; `todo` holds the rows a call has listed and not deleted.

Abstracted: instants (a PENDING row may be due at any moment), the cron
expression, and the body, which ends or throws. Left out: what the cooldown's
length is; it begins and lapses.

Run `chains`: no two bodies at once (`OneBody`; with one job executing at a time
that is the handler against "Check now"); an enabled chain has a next row
or somebody about to make one (`ChainAlive`); it runs again and again, and a
disabled or deleted one comes to rest (`Lively`). Bounds: three rows, of which
one executes at a time, one restart, and any database call may fail. Two rows
are needed for a doubled chain, a third for a call that lists both while another
forges the next. Fairness: the process is started again, the database answers,
bodies end, the cooldown lapses, and the worker reaches every due row, strongly,
because the limit is shared (`DueJobFinishes`).

Both chain properties excuse states by name, and TLC finds each when the excuse
is dropped:

- `lost`, a call that was to create the next row and gave up. Besides a failing
  database there is one way without any failure: two calls list the same row,
  the slower one's delete finds it gone (Prisma's P2025), the error is logged
  (subscription.service.ts:92, 126) and neither may be left to create a row. The
  chain of an enabled subscription is then dead until the next restart or PATCH.
- `Wedged`, a name left in `runningJobs` because the insert of the job's log row
  failed after line 40 and outside the `try`: every later run is skipped until a
  restart.
- The unawaited `unscheduleSubscription` of a PATCH or DELETE is a promise nobody
  catches; if it rejects, the process ends and is restarted.

## 9. VideoArchive

One video of a channel. `era` says whether it was published before or after the
subscription was made, `public` whether a premiere is over, `arch` is the archive
row with its reason, `row` and `file` the download rows of the video. A check is
`Begin` (the listing), `ReadArchive`, `DropLapsed`, `FindCompleted`, `Probe`,
`ForgetSeed`, `DropArchive`, `DropRow`, `FindExisting`, `Offer` and `Insert`; a
request enters at `Offer`. `Complete`, `FailArchive`, `FailRow`, `Skip`,
`AutoDelete`, `Evict`, `Reconcile`, `UserDelete`, `Cancel`, `Retry`, `Rerun` and
`LoseFile` are what else writes the two tables, in the order of their writes where
a check can see it. The cancel route looks at no status: `Cancel` of a completed
row unlinks its file and makes it CANCELLED (1549-1594), and `Retry` takes a
failed or cancelled one back to PENDING (1788, 1824). `Rerun` is the stale metadata
job of `FinishedIsNotRerun` (412). The second write of a completion or a failure,
`ending`, comes whatever has become of the row by then. A listing comes from RSS
(dated), a flat listing (undated) or a trusted feed (`source`).

Run `archive`: seeded back catalogue is not downloaded unless a check came
before the seed, a trusted feed vouched for the video or a user asked
(`FutureOnly`); a check deletes only dead rows, but for `revived`
(`OnlyDeadRowsDropped`); a new upload that stays listed has its file again and
again (`NewVideoArrives`). Bounds: two rows, so that a request and a check may
both make one; the checks only (the proofs cover back-fill too). Fairness:
seeding ends, cooldowns lapse, checks that get the RSS listing are made again
and again (`CheckChain`) and go through, the second write of a completion or
failure is made, the reconciliation comes round, and a download that is tried
again and again succeeds (strong).

Seen while modelling:

- `revived` are the checks whose row was started again since they found it, and
  `OnlyDeadRowsDropped` excuses them. A check that waits between its `access` (899)
  and its delete by id (903) while the user cancels the download and retries it
  deletes the row of a running download; `NothingAliveDropped`, section 15, says
  that this does not happen, and TLC refutes it.
- `OnlySeededReconsidered` fails: see section 15. For the same reason a video
  that a quota evicted, or a user deleted, is fetched again by the next check
  that lists it, since both drop the archive row. So is a new video whose download
  a user cancelled: no look-up counts a CANCELLED row.
- Back-fill skips seeded videos of unknown date, though its comment says
  "download all" (773-775).
- If seeding fails, or the first check is faster, the first check downloads the
  listing.
- `createDownload` looks for an active row and inserts after an await (262, 294):
  a request and a check make two rows of one video.
- `ForgetSeed` deletes the entry it read by video id; a failure recorded in
  between loses its 24 hours.

Left out: `sweepSupersededRows` but for older failures (1299-1321), and that a
cancelled download may not have stopped, which `DownloadPipeline` shows.
`AddToArchive` may add nothing, since the code asks for a title and for
`enableArchive` (1201); `Retry` drops its row if a completed row with a file is
there, which stands for `findCompletedDuplicate` (1799).

## 10. Monitors

One monitor of either type. The service has processes, callbacks, timers and
promises, and one map entry under the monitor's id. A *slot* is what is left of
one run: the process (`resolving`, `alive`, `dying`), its close callback
(`asking`), its restart timer (`waiting`); for Twitch, `queued` behind the other
monitors and `probing`. `active` is the entry, which may name another run than
the one whose callback is executing: that is the heart of the module. `live` is
where a slot's `handleStreamLive` is. Requests write the row and call the service
after an await (`answer`).

A Twitch probe ends in one of four ways: `ProbeFindsStream` (exit code 0),
`ProbeRefused` (a rate limit or a refused session, which keeps the state),
`ProbeFindsNothing` (yt-dlp fails because the channel is not live) and
`ProbeFails` (any other failure, whatever is on air). The code cannot tell the last
two apart and takes both for the end of the stream (333-346), although its own
comment says that a network blip must not flip an active stream to offline and that
only a clean exit without a title counts (325-327). `NoFalseEnd` is that comment,
and TLC refutes it (section 15): after a blip the next probe takes the stream for
a new one and hands it over again; `createDownload` refuses the URL that is being
downloaded, and the rejection is nobody's (349). The rule of the comment, taken
literally, would not do either, since the exit code of a channel that is off is not
0: it is the mutant of `Attentive`.

Run `monitors`: `NeverSilentlyDead`, `OneLiveHandler`, and `Attentive`: an enabled
YouTube monitor keeps getting a process, and a Twitch stream that has ended is
taken for offline, which the property asks of `ProbeFindsNothing` alone. Bounds:
two overlapping runs, since a predecessor and its successor are what the
bookkeeping confuses; `MAX_RESTARTS` 1 instead of 10; one request at a time; no
failing database, so that the lookup of a restart, whose failure is swallowed (69)
and would leave the monitor dead, succeeds. Fairness: callbacks come, timers fire,
the database answers, the minute's tick comes again, and a Twitch channel that is
off is sometimes answered as such (the last two strong). A process may wait for a
stream for ever. Left out besides: a PATCH of `type` or `url` without `enabled`,
which changes the row and neither starts nor stops anything
(src/src/routes/api/monitors/[id]/+server.ts:170-182).

`spent` excuses a restart that was withheld because the row said live. Seen while
modelling:

- Close of a killed predecessor removes its successor's entry (118): two probes
  run, one of them unreachable by `stopMonitor`.
- A restart timer is not cancelled (391): a monitor that was disabled or deleted
  starts again.
- `startMonitor` calls `stopMonitor`, which clears `restartCounts`, so the
  back-off never grows and `MAX_RESTARTS` is hardly ever reached (362).
- Once a YouTube monitor went live, or a crash left `isLive` set, it is not probed
  again until somebody toggles it; `createDownload` throwing leaves `isLive` set.
- A process that cannot be spawned emits error and close: two restarts.
- `monitor-check` has a handler and no schedule.

## 11. Retention

One downloaded video. `row` is its pool, `pins` the video's and the channel's
protection, `watch` the age of each viewer's mark, `played` Jellyfin's answer.
`AutoBegin` .. `AutoAct` is `deleteWatchedOverThreshold`, `CleanBegin` ..
`CleanAct` is `doCleanup`, `PurgeCapture` and `PurgeRun` the purge of a
subscription; between their queries each keeps what it has read
(`autoChannel`, `autoPool`, `autoWatch`, `cleanAll`, ...). Ages count periods.

Run `retention`: `KeptSurvives` (a reason to keep the video that came before a
pass had read what it goes by holds the video) and `AgesOut` (an unpinned
video over its threshold, or played by everybody in Jellyfin, goes). Bounds: two
viewers, so that one may take a mark back; thresholds and grace of one period,
which is what tells "over" from "not yet"; one restart or wrong answer. Fairness:
time goes by and both passes run again and again. Left out: per-channel
`autoDeleteDays`; the user's own deletion; a removal is one action.

Seen while modelling:

- A pin set after a pass has read the row is ignored, against "Protection always
  wins over retention" (auto-delete.service.ts:21): `kept` counts only pins that
  came in time. The purge looks at the video's pin when it captures the list and
  at no channel pin (download.service.ts:1675-1677).
- An error of Jellyfin about one user counts as "not watched" and resets the grace
  period (`MaxFaults` bounds it; if it recurs for ever the video stays).
- auto-delete goes by `allWatchedAt` also when the cleanup that maintains it is
  switched off.

## 12. WatchSync

The marks of one account. `saveProgress` is `SaveRead` and `SaveWrite`; any number
of saves of a video may be under way, and `save` is the set of what they have read.
`markWatched` and `markUnwatched` are one write each. A pass is `Begin`, `PushQuery`,
`PushSend` per row, `PushDone` (the watermark), `Fetch`, `Load`, `MarkPulled` per
video, `Advance`; `Abort` is an error anywhere. The scheduled pass and "Sync now"
overlap, nothing keeps them apart. Dates are instants of a clock that advances
with every `new Date()`.

Run `watch_sync`: `WatermarkCovers`, that every dated mark at or before the
watermark is in the YouTube history, in `excused` or in `restored`. Bounds: one
video (videos meet only in the loops), both passes, six instants: a mark, two
pulls or pushes and their stamps; saves have no bound. There is no liveness here
to state: a push that failed is never made up.

`excused` names two losses the code has: a push that failed, and a mark made
between a pass's query and its stamp; both lie before the watermark afterwards and
are never pushed. `restored` names a third, which takes two saves of one video: one
that has read it as unwatched writes off the mark that was made meanwhile and
keeps its date (22), a pass goes by, and one that had read it as watched brings the
mark back; its date is before the watermark and it has never been sent.
`NothingWrittenOff` is the property without this excuse, and TLC refutes it (section
15). Seen while modelling: a save can also bring back an unmarked video, without a
date, which no pass ever sends ("Don't un-watch something",
watch-progress.service.ts:13, is true of neither order);
overlapping passes can move the watermark back and push pulled rows
(youtube-sync.service.ts:128-131 "guarantees" that it does not); un-watching is
undone by the next pull. Left out: linking, Watch Later, the push of play states
to Jellyfin, and the instant between the date of a mark and its write.

## 13. LiveView

One download, and one page of its owner. `announce` holds the events of writes
that were made and await their `emitToOwner`; `pipe` the messages on the
connection; `snapshot` the initial state between its query and its sending;
`card` whether the download is in the page's list; `timers` the removals that
`download:complete`, `download:failed` and `download:cancelled` schedule.
`Connect` is `connectSSE` with `registerClient` up to the first await.
`ConnectionFails` is a break the browser sees, `ConnectionDies` one it does not,
until the `Watchdog`. `ServerRestarts` loses what was not yet announced.

Run `live_view`: `RunningIsShown`, on a connected page with nothing under way a
running download has its card; `NoZombieCard`, a download that is over has none
in the end. Bounds: two retries, so that a removal of the first failure can meet
the second attempt and be outlived; three breaks or restarts. Fairness: events
are emitted and handled, timers run, the page connects again. Left out: progress,
status and tasks, which only change a card that is there; failing database calls;
`disconnectSSE`, which leaves a pending reconnection armed.

Three states are excused by name, and TLC finds each without its excuse:

- `cut`: a removal due for an earlier failure takes the card of the download that
  was retried meanwhile, within five seconds. It is invisible until the next
  connection, although the retry broadcasts it as new against exactly this
  (download.service.ts:1845-1848).
- `late`: a row that ends, with its event sent, between the query and the sending
  of the initial state leaves a card (emitter.ts:46-49). For a completion its
  delayed removal repairs this; for a deletion or a skip nothing does until the
  next connection.
- `blind`: the initial state could not be read (50-52); the page is not told.

An event of a download whose owner is no longer in `downloadOwners` carries only
the id; a `download:complete` of that kind, which a cancellation during
`completeDownload` produces, puts `undefined` into the list (97).

## 14. Proofs

TLAPS checks these for every value of the constants, under the named assumptions
of the modules, which TLC evaluates on each run. Every theorem is
`Spec => []P` or `Spec => [][A]_vars`, in eight cases under a hypothesis on the
constants that is named with it. Each rests on an inductive invariant of its
module, with one lemma per conjunct and one step per action, and each invariant
was checked with TLC before it was proved.

| Module | Theorems about | Inductive invariant |
| --- | --- | --- |
| `JobQueueProofs` | `TypeOK`, `SlotsCoverExecutions`, `NoDoubleStart`, `ClaimWithinLimit`, `OneSlotSurvives` (if `LimitRequests = {}`), `RunningRowsOwned` (if `DbFaults = FALSE`), `ImplementsContract` | `TypeInv`, `SlotInv`, `LeakInv`, `PhaseInv` |
| `DownloadPipelineProofs` | `TypeOK`, `ActiveIsDriven` (if `Patient`), `OneWriter` and `OnePipeline` (if `Orderly`) | `IInv`: types, `OneMender`, `Owned`, `Booting`, `WriterAwaited`; and `Driven`, `OnePipeline` |
| `LibraryProofs` | `TypeOK`, `OneCopyInLibrary`, `RowsHaveTheirFile` (if `"crash" \notin Overlap`), `LiveRecordsSurvive` and `ImplementsLibraryContract` (if `Overlap \subseteq {"remove"}`) | `IInv`: types, `FilesByTitle`, `OnlyFetched`, `NameUsedOnce`, `CacheKept`, `RowFollows`, `FolderHeld`, `LibraryKept`, `InOrder`; and `ListTrue` |
| `CacheQuotaProofs` | `TypeOK`, `OneEvictor`, `EvictsOldestFirst`, `MissingFilesHaveARemover`, `StopsWithinQuota` | `Inv`, `Leaving`, `NotBefore`, `Sound`, `AllCovered` |
| `CheckChainProofs` | `TypeOK`, `OneBody`, `ChainAlive` | `IInv`: types, `Lists`, `Down`, `Holding`, `ChainInv` |
| `VideoArchiveProofs` | `TypeOK`, `FutureOnly`, `OnlyDeadRowsDropped` | `IInv`: types, `Files`, `InHand`, `Kept`, `Dead` |
| `LiveProofs`, on `Monitors` | `TypeOK`, `NeverSilentlyDead`, `OneLiveHandler` | `IInv`: types, `Entry`, `Proper`, and the two |
| `LiveProofs`, on `LiveView` | `ViewTypeOK`, `RunningIsShown` | `ViewInv`: types, `Wire`, `Announced`, `Promised` |
| `WatchedProofs`, on `Retention` | `TypeOK`, `KeptSurvives` | `IInv`: types, `Unread`, `VideoKept`, `ChannelKept`, `UnwatchedKept` |
| `WatchedProofs`, on `WatchSync` | `SyncTypeOK`, `WatermarkCovers` | `SyncInv`: types, `Pulling`, `Covering` |

Two proof modules extend two components each, so the definitions of `WatchSync`
and `LiveView` that every module has carry a prefix (`SyncSpec`, `ViewSpec`, ...).

*JobQueue.* `SlotsCoverExecutions` is not inductive. `ClaimReturn` writes
`claim.seen + 1`, so one must know that the value seen still covers the executions
although some have ended. `SlotInv` adds that (`ClaimIsFresh`: nothing of the type
*started* since, because only the poll loop starts jobs, and one poll runs at a
time), that `activeJobs` is finite and is the set of executions
(`ActiveIffExecuting`), and that neither the batch nor the claim holds an
executing row (`BatchIsFree`), which is what the query's `notIn` establishes and
what gives `NoDoubleStart`. `LeakInv` adds that the excess of the counter over the
executions is below the limit and that a claim's limit is the current one.
`PhaseInv` adds that what is executing has an open row; with it every step of the
worker is a step of `QueueContract` or changes no job's phase, which is the
refinement.

*DownloadPipeline.* `OneWriter` and `ActiveIsDriven` speak of all jobs at once,
and what keeps them true is who may make a new one. `Driven` counts a job as
something that moves the download on only while it is `Busy`: a handler that is
past its last write to the row and has still to close its job does nothing more,
yet `enqueue` finds its job and adds none. Hence `Patient`, which is `Prompt`
with `"timer"` and `"request"` and no process that outlives its SIGTERM; under it
a timer and a retry meet no such job, and `Driven` is inductive with any number
of restarts. `OneMender` gives the handler of an error its exclusive hold on
`handling`, `Booting` the state between a restart and `start`. For `OneWriter`
every job that may still spawn must be the only one: `OnePipeline` says that one
job is busy at most and none while a start is under way. A restart breaks it, by
running phase 1 again beside phase 2 (section 5), so `Orderly` adds that there is
none, or that it comes like a request. `WriterAwaited` turns jobs into processes:
what is alive is waited for, and only the busy job waits. Run
`pipeline_requests` meets `Orderly`, run `pipeline_restart` meets `Patient`.

*Library.* A row is right because of the promotion that wrote it: the folder it
renamed into was free from the look at it to the rename (`FolderHeld`), as no
other download promotes, writes or removes the cache file of the same title
meanwhile (`NameUsedOnce`, which is what `NameFree` establishes for a fetch and
every later step has to keep), and a removal unlinks the file of its own row only
(`LibraryKept`). `CacheKept` says why the sweep spares the file of a row that was
written after the sweep had read the rows: it is `fresh`. `OneCopyInLibrary` is
about interrupted promotions that begin again: `InOrder` says that the folders of
a title fill up from the first and that a promotion has recognised none of the
files it passed as its own copy. It needs no hypothesis. `RowsHaveTheirFile` needs
that no restart cuts a removal in two: the row it leaves may come to point at a
later download's file (section 6). `LiveRecordsSurvive` needs besides that the
reconciliation waits for promotions and they for it: `ListTrue`, that the rows a
pass has read still say where the files are, fails as soon as a promotion moves
one. That is the divergence in section 15; run `library_files` has
`Overlap = {"remove"}`. The refinement follows: with every file where its row says,
`Place` depends on the row and on `doomed` alone (`Placed`), so only the steps
that write a row or ask for a removal are steps of the contract. For each of
these the invariant gives the state it starts from: a row that is updated still
names the cache (`RowFollows`), one that the reconciliation or a removal takes
was doomed (`ListTrue`, `Types`).

*CacheQuota.* `TakenIsGone`, that a download in a pass's hand has no file, makes
`OneEvictor` inductive: nobody else's unlink can succeed, and no file comes back
because only a completion puts one there (`InOrder`). `RestIsOlder` says that what
is in the cache but no longer on a pass's list is younger than all that is still
on it.

`StopsWithinQuota` compares a tally with the sizes of what is left, so it needs
sums over sets. The fold that defines them is recursive, and no induction theorem
can be instantiated here. The proofs take the first-order way instead: the sets
on which a fact about sums fails have a smallest one (`MinimalSet`, from the
well-foundedness of strict inclusion), and it has a smaller one that fails too.
So the fold is shown to satisfy its equation (`Tallied`, `BytesOfTallied`), then
that any element may be taken out first (`BytesWithout`) and that a subset has
no more bytes (`BytesMonotonic`). The inductive
invariant is `AllCovered`: of the downloads up to the one that began a pass, those
it has yet to list, has on its list or in hand (`Counted`) have no more bytes than
its tally, and what is left in the cache of them is on the list. Other actors
only shrink the left side; an `EvictRow` takes the row in hand from both. The
list is in order, so that a later completion is reached only when `Counted` is
empty, and what the tally is from then on does not matter. TLC checked
`AllCovered` before it was proved.

*CheckChain.* `Holding`, that whoever is inside holds the name, gives `OneBody`.
`ChainAlive` needs to know of every caller that has cleared or is about to clear
rows what it does next: that a handler's row is RUNNING or deleted under it
(`Handled`), that the boot comes after the registration (`Booting`,
`Registered`), that who deletes without creating does so on behalf of a chain
that is no longer wanted (`Ending`), and then that a row or a forger is left
(`Linked`).

*VideoArchive.* `Kept` speaks of back catalogue nobody asked for: it has no rows,
nobody who read its entry got beyond it, and the entry is there once seeded.
`Dead` follows the rows a check holds from the moment they are found, for the
checks whose row has not been started again since.

*Monitors.* `Entry` and `Proper` say what a map entry may point at and which
stages belong to which type; both properties are then inductive themselves.

*Retention.* For each reason to keep the video there is a conjunct that says what
each pass can have read while the reason stands, place by place. `Unread` says
that a pass knows nothing it has not read.

*WatchSync.* `Covering` is `WatermarkCovers` for the watermark, and for the value a
pass is going to write, place by place: what it has not sent is in `todo`, what it
did send is in the history. `WriteBackCovering` is the step of a save that brings a
mark back: either no pass has passed its date over, or it is `restored`.

*LiveView.* `Promised` says where a running download's card is at any moment: its
event is still to be emitted, or the initial state is going to name it, or it is
in the pipe with nothing harmful behind it, or it is there.

The type invariants of `JobQueue`, `Library`, `CacheQuota`, `CheckChain` and
`Monitors` are proved and not among the properties of a run. Every invariant and action property
of a run has its theorem. Checked by TLC only: the liveness properties, which are
out of the prover's reach under fairness.

## 15. Where code and its own words differ

No run expects a violation: the runs show what holds. These formulas say what the
repository says of the program, and TLC refutes them; they stand at the end of
their modules under "Not true of this code". To see a counterexample, give the
formula to TLC in place of the properties of the configuration named.

| Formula, configuration | Code | Words |
| --- | --- | --- |
| `CancelledIsStopped`, `MCDownloadPipelineRequests` | download.service.ts:857: a cancel between the status check and the spawn finds no process; yt-dlp runs on and the row becomes COMPLETED | "A cancelled download must never be retried" (1348), the cancel route's answer |
| `FinishedIsNotRerun`, `MCDownloadPipelineRequests` or `-Restart` | download.service.ts:412: `fetchMetadata` looks at CANCELLED alone, so that a stale metadata job, or a timer that outlived its cancel, runs a COMPLETED or FAILED download again | "Never re-run a download that already reached a terminal state" (752-754, kept by `executeDownload`) |
| `NoUnhandledRejection`, `MCDownloadPipelineRequests` | download.service.ts:982: progress updates are not awaited; the first after a deletion ends the server | queue.service.ts:171-173 |
| `LiveRecordsSurvive`, `MCLibrary` with `Overlap = {"remove", "reconcile"}` | library.service.ts:839: a reconciliation deletes the record of a download promoted since it read the row | library.service.ts:262-264, rescan.service.ts:45-47 |
| `EvictedOnlyFromCache`, `MCCacheQuota` | library.service.ts:438 (also 553, 658, 746): a pass deletes by id the row of a download promoted under it | library.service.ts:382, 516 |
| `NothingAliveDropped`, `MCVideoArchive` | subscription.service.ts:903: a check deletes by id the row it found completed, which was cancelled and retried since and is being downloaded | "Checks both the archive and pending/active downloads to prevent duplicates" (subscription.service.ts:828) |
| `OnlySeededReconsidered`, `MCVideoArchive` | subscription.service.ts:905: a video that was downloaded, watched and auto-deleted is taken for a seed and fetched again | subscription.service.ts:832-834 |
| `NoUnhandledRejection`, `MCMonitors` | monitor.service.ts:349: the close callback of a Twitch probe rejects with nobody to catch it, for instance when its monitor was deleted | monitor.service.ts:100-101 |
| `NoFalseEnd`, `MCMonitors` | monitor.service.ts:338-343: every failure of a probe but a rate limit or a refused session takes an active stream for offline | "a rate limit, auth failure, or network blip must not flip an active stream to offline" (monitor.service.ts:325-327) |
| `NothingWrittenOff`, `MCWatchSync` | watch-progress.service.ts:14, 22: a save writes back what it has read; a mark made meanwhile is gone, or behind the watermark when another save brings it back | "Don't un-watch something that was already marked watched" (watch-progress.service.ts:13) |
| `DueJobFinishes`, `MCJobQueueLive` with `LimitRequests = {1}` | queue.service.ts:129: after a leak, lowering the limit starves due jobs | the test at queue.service.test.ts:116 |
| `RunningIsShown` without `~cut`, `MCLiveView` | sse.svelte.ts:117-119: the removal of a failed card takes the retried download's | download.service.ts:1845-1848 |

## 16. Not modelled

- Several rows of one video in the sweeps of duplicates and superseded rows: they
  match by video, profile and file across the table, so that a faithful module
  needs all three and another pipeline beside the one here.
- The manual rescan, sidecars, artwork and the audio library.
- The rate limiter, which is synchronous; the yt-dlp command line and the parsing
  of its output, search, media servers, subtitles and tags, backup and import,
  settings, notifications, authentication, and the routes, which are functions of
  their input or thin callers of the services.
- The Svelte interface apart from its list of active downloads, and the browser
  extension. They are most of the repository's lines and hold no state that other
  actors share.

## 17. Running

    tlc -workers 2 -config MCJobQueueContract.cfg MCJobQueue
    tlc -workers 2 -config MCJobQueueLive.cfg MCJobQueue
    tlc -workers 2 -config MCDownloadPipelineRequests.cfg MCDownloadPipeline
    tlc -workers 2 -config MCDownloadPipelineRestart.cfg MCDownloadPipeline
    tlc -workers 2 -config MCLiveView.cfg MCLiveView

and likewise `MCX.cfg` with `MCX` for `Library`, `CacheQuota`, `CheckChain`,
`VideoArchive`, `Monitors`, `Retention` and `WatchSync`;

    tlapm LiveProofs.tla

and likewise for the other proof modules. Each run ends within a few minutes on
two cores. The mutants named in the modules (an operator under a comment that
begins with "Mutant") are plausible slips of the code; each breaks the property it
is listed for in `PROJECT.json`.
