# ManhwaManiacs in TLA+

A verification development for ManhwaManiacs: a FastAPI and SQLite server, a
Flutter app that reads offline, a Next.js web reader, and desktop machines that
render narration for the server. The modules model the parts of the system whose
correctness depends on the order in which independent actors act; TLC checks
small instances, and TLAPS proves the theorems for every value of the constants.

Paths below are relative to `src/`.

## 1. The system

| Component | Code | State it keeps | Operations | Module |
|---|---|---|---|---|
| Progress merge | `backend/services/progress_service.py` 158-347 | none (pure) | merge a push into a row; how much reading time to believe | `ProgressMerge` |
| Progress push | `backend/routes/reader.py`, `progress_service.py` | `chapter_progress` rows | `save_progress`, `save_progress_batch` | `ProgressSync` |
| Progress outbox | `mobile/.../providers/progress_outbox_provider.dart`, `utils/progress_outbox_*.dart` | queued rows; drain, hold and batch limit in memory | save, flush, compact | `ProgressSync` |
| Web progress | `frontend/src/features/reader/hooks.ts` | none | one push per save | `ProgressSync` |
| Download store | `mobile/.../store/downloads_store.dart`, `downloads_deletion.dart`, `services/blob_store.dart`, `retention_maintenance.dart` | chapters, pages, blobs with reference counts, files | ensure queued, save page, complete, delete, prune, reclaim, sweep | `DownloadStore` |
| Download queue | `mobile/.../queue/download_queue_controller.dart` | the loop, its batch, the flags and the reason it waits | enqueue, retry, cancel, pause, resume, foreground | `DownloadQueue` |
| Bookmarks | `backend/services/bookmark_service.py`, `mobile/.../bookmark_outbox_provider.dart`, `bookmarks_dao.dart` | rows with tombstones, an outbox | create, remove, flush, sync, merge, batch | `BookmarkSync` |
| Profile scope | `mobile/.../profiles`, `downloads_lifecycle_gate.dart` | the active (user, profile) | switch, resume | `BookmarkSync` |
| Reading statistics | `backend/services/reading_stats_service.py` | `reading_day_stats`, a roll-up of `reading_sessions` | read, repair, rebuild | `ReadingStats` |
| Narration queue | `backend/services/novel_render_queue.py`, `backend/routes/novel_render.py` | `novel_audio_jobs` | enqueue, cancel, claim, heartbeat, complete, fail, release, reap | `RenderQueue` |
| Render box | `tools/tts/render_worker.py` | the job in hand | claim, render, heartbeat, upload, give back | `RenderQueue` |
| Chapter audio files | `backend/services/chapter_audio_store.py` | `.opus`, `.timing.json`, `.tmp` | put in place | `RenderQueue` |
| Lease reaper | `backend/services/update_scheduler.py` `_reap_render_leases` | none | put expired jobs back | `RenderQueue` |
| Update sweep | `backend/services/update_service.py`, `update_scheduler.py` | the single-check lock, the series guards, snapshots, notifications | trigger, sweep, check one series, prune | `UpdateSweep` |
| Source health | `backend/services/source_health.py`, `source_probe_service.py` | failure streaks | record, demote, re-probe | `SourceHealth` |
| Backup | `backend/services/backup_service.py`, `backend/core/backup_restore.py` | database, `-wal`, staged file, retained copies | snapshot, stage, swap at boot | `BackupRestore` |
| Accounts | `backend/services/auth_service.py`, `core/rate_limit.py` | users, sessions | register, log in, revoke | - |
| Source caches | `backend/services/source_cache_service.py` | cache rows | read through, evict | - |
| The rest | connectors, library and browse services, attribution, app distribution, screens, ops | - | single-request CRUD, parsing, UI | - |

How they interact. The phone and the web push reading progress to the same rows;
the phone through a queue that survives kills, at least once and in batches; the
web once. Bookmarks go the same way, and come back. The download queue hands
chapters to workers that store pages; the store's launch sweep and the user's
deletions run beside them. Server requests run in a thread pool against SQLite,
where a SELECT runs outside the write lock and the transaction starts at the
first write, so a request merges onto what it read and writes later. The
narration queue has four kinds of actors writing the same job rows in that way.
The update sweep, a manual check, searches and readers' own requests all record
into source health; the scheduler's tick drives sweep, reaper and re-probe.
Backup and restore replace the database under all of them, between two processes.

What makes it hard: overlapping read-merge-write requests; answers lost after the
commit; kills between any two steps of the phone; a compaction beside a drain; a
deletion beside a save of the same bytes; a cancel, a pause or a resume that meets
a loop about to stop; a profile that changes under a call; stale writes to a job
that has ended; a session that still holds a row another request deleted; a crash
between two renames. `PROJECT.json` lists these hazards at their lines.

What makes each modelled component correct:

- merge: position and completion move forward only, a replay adds nothing;
- push and outbox: nothing read on the phone is lost before it is stored, the
  outbox drains, the series' furthest chapter is never dropped;
- downloads: counts and totals are those of the rows, a complete chapter has its
  pages, sharing blobs cannot be told from private copies, the disk settles;
- queue: a cancel is owed until it is carried out, and takes effect; whatever waits
  says why;
- bookmarks: a deletion is final, nothing unsent is forgotten, devices converge,
  a profile's bookmarks stay its own;
- statistics: a roll-up answers what the sessions would have answered;
- narration queue: a job has one box, which loses it only to a cancel or a stale
  write; a job that ended stays ended, retries end, a claim does not stay claimed
  for ever;
- files: a job is done only when its audio is there;
- sweep: every new chapter is announced, once, whatever else fails; a snapshot is of
  the series it is stored with;
- health: a source that is back is not left demoted;
- restore: the database that runs is whole, and so is the copy of the old one.

## 2. Modules

| Module | Content |
|---|---|
| `ProgressMerge` | the server's merge and the phone's fold as operators |
| `ProgressSync` | phones, web, server threads; EXTENDS `ProgressMerge` |
| `DownloadStore` | chapter rows, page rows, blobs, files, the launch sweep |
| `PrivateCopies` | the abstract store `DownloadStore` implements |
| `DownloadQueue` | the download loop between its awaits |
| `BookmarkSync` | bookmarks on the phone and the server, with the profile switch |
| `ReadingStats` | sessions, the roll-up and the requests that repair it |
| `RenderQueue` | jobs, threads, boxes, reaper, files |
| `UpdateSweep` | the lock, the walks and their sessions, follows, notifications |
| `SourceHealth` | failure streaks, four recorders, the re-probe |
| `BackupRestore` | the files of a database and the boot that swaps them |
| `MCPhone` | instances of `ProgressSync`, `DownloadStore`, `DownloadQueue`, `BookmarkSync`, `ReadingStats` |
| `MCServer` | instances of `RenderQueue`, `UpdateSweep`, `BackupRestore`, `SourceHealth` |
| `MCProgressSync`, `MCRenderQueue`, `MCBookmarkSync` | single modules' model values |
| `SeqFilter` | a part of a sequence, in its order; used by `BookmarkSync` and `SourceHealth` |
| `SeqFilterProofs` | what a filter keeps; induction and recursion for recursive functions |
| `ProgressProofs` | theorems of `ProgressMerge` and `ProgressSync` |
| `DownloadProofs`, `BookmarkSyncProofs`, `ReadingStatsProofs` | theorems of the other parts in `MCPhone` |
| `PhoneProofs` | theorems of `MCPhone` as a whole |
| `RenderQueueProofs` | theorems of `RenderQueue` |
| `ServerProofs` | theorems of the server's other parts, and of `MCServer` as a whole |

`MCPhone` and `MCServer` put several modules into one run: a variable `part`,
chosen at the start, says which of them moves, and the others stand still in an
initial state. Nothing is composed by that: it checks each part by itself. A
part may also name a restriction of a module (two pushes overlapping or not; one
series or two; who records). The fairness of a part that stands still asks for
nothing, because everything it names is disabled in the initial state.

### ProgressMerge and ProgressSync

| In the model | In the code |
|---|---|
| `row[c]` | the `chapter_progress` row of chapter c, `NoRow` if there is none |
| `handler[w]` | a server thread: `received`, `loaded` (rows read, nothing written), `replied` |
| `outbox[d]`, `nextId[d]` | `progress_outbox` and its AUTOINCREMENT counter |
| `sinceRead`, `hold`, `limit` | `_queuedSinceRead`, `_holdFlushUntil`, `_batchLimit` |
| `drain[d]`, `compact[d]` | a running `_drain` or `_compact`: what it read, what it still has to do |
| `Save`, `DrainStart`, `PostChunk`, `ChunkAccepted`, `ChunkTooLarge`, `GiveUp` | `save`, `_drain` up to each await, and its three outcomes |
| `CompactStart`, `CompactFold`, `CompactClear`, `CompactDrop` | `_compact`, one step per statement it awaits |
| `Crash`, `WebPush` | the app is killed; `useSaveProgress` |
| `Refuse`, `Load`, `Commit`, `RequestFails` | 413; the SELECTs; write and commit; death or `db_busy` |

Ghosts: `captured` (furthest page saved per phone and chapter, reset when
compaction drops it), `reported` and `spent` (what clients have reported and
measured), `merged` (queued pushes already merged, to recognise a replay).
`Commit` is one step because the batch is written in one transaction that holds
the write lock from its first write; `Load` is a separate step because the rows
are read before that. An UPDATE names only the columns that differ from what was
loaded (`ChangedColumns`), which is what the ORM sends; this is why a stale write
does not take a completion back. Abstractions: one profile and one series; a page
turn measures one second; chunks go in any order; any flush trigger may come at
any time; one compaction at a time per phone; a chapter in `Unparseable` stands
for rows the server rejects one by one.

### DownloadStore and PrivateCopies

| In the model | In the code |
|---|---|
| `saved`, `pages`, `refcount`, `files` | `saved_chapters`, `saved_pages`, `blobs`, the blob directory |
| `worker[r]` | the download of a row: its missing pages, or the count it has made |
| `asking`, `toUnlink`, `sweep` | calls between two transactions: `ensureQueued`, a deletion's reclaim, the launch sweep |
| `Request`, `RetryFailed`, `RequestPrune`, `Requeue` | `ensureQueued`, which prunes vanished files before it queues again |
| `Manifest`, `SavePage`, `StopWork`, `FailWork`, `CountPages`, `MarkComplete` | the worker, transaction by transaction |
| `RemoveDownload`, `Reclaim` | `deleteDownload` and its `reclaimUnreferencedBlobs` |
| `SweepStart`, `SweepPrune`, `SweepSettle`, `SweepDelete`, `SweepEnd` | `_sweep`: orphans, vanished files, emptied chapters |
| `RemoveByHand`, `Kill` | the Files app; the app is killed, perhaps inside `writeHashed` |

`SavePage` is one step: the code computes and writes the file inside the same
transaction that inserts the row and bumps the count, and `Reclaim` unlinks inside
the transaction that asks again whether the count is still zero. A page has size 1.
A kill inside `writeHashed` may leave a file for bytes
that somebody had deleted by hand; the bytes are back, so `Kill` takes them out of
`byHand`. `PrivateCopies` is the promise: each chapter has copies of its own pages, which
disappear only with or from their chapter, or when somebody deletes the bytes
outside the app. `SharingIsInvisible` is its specification under the mapping of a
copy to a page row whose file is there; a file unlinked under another chapter's
row would be a loss that no step of `PrivateCopies` allows.

### DownloadQueue

| In the model | In the code |
|---|---|
| `loop` | where `_processLoop` stands: its awaits are `measuring`, `deciding`, `priming`, `running`, `landing` |
| `seen`, `claimed`, `cancelled`, `outcome` | the pass's list or batch, `_inFlightRowIds`, `_cancelledRowIds`, the workers' futures |
| `reason`, `userPaused`, `foreground` | the state shown and the two flags |
| `deleting`, `gone` | cancels inside `deleteDownload`; chapters of the batch whose listed row is no longer there |
| `CancelDefers`, `CancelDeletes`, `DeleteLands` | `cancelChapter`: its two branches from the test of `_inFlightRowIds`, and the row going some awaits later |
| `Enqueue`, `Pause`, `Resume`, `Background`, `Foreground`, `StorageFrees` | the controller's other methods |
| `LoopTop`, `LoopMeasure`, `LoopDecide`, `LoopStart`, `WorkerEnds`, `LoopLands`, `LandDelete`, `LoopTurns` | the loop from await to await |
| `KillAndLaunch` | a kill and the next launch's `resumePendingOnLaunch` |

Dart runs without interruption between awaits: `Uninterrupted` keeps taps out of
the places where the loop does not wait. Below the free-space floor and at the cap
are one condition, `full`, with one reason, `storage`. A cancel that a kill forgets
is not owed any longer (`dropped` loses it), as in the code.

`cancelChapter` asks whether the loop has the row and then awaits `deleteDownload`,
so the loop can list, claim and start the chapter before its row goes. The comment
above it gives the test as what keeps rows from going under a worker; it does not, and
the model lets them go. What a worker does with a row that has gone is nothing:
`savePage`, `markComplete` and the failure count ask for it in their transactions
(`DownloadStore` has that part). `_inFlightRowIds` and `_cancelledRowIds` hold row
ids, and a chapter asked for again gets another one, which `gone` tells from the row
the batch has. What has to hold, and is checked, is that the cancel takes effect
whichever of the two deletes the row.

### BookmarkSync

| In the model | In the code |
|---|---|
| `device[p]`, `queuedOps[p]` | the rows and the outbox of a scope on the phone |
| `cloud[p]` | the server's `bookmarks` of a profile |
| `active` | the active profile: the header of the shared client and `activeScopeId()` |
| `flow["tap"]`, `flow["gate"]` | two calls under way, each with its store, the scope it read and its list |
| `AddBookmark`, `Unbookmark`, `Flush`, `BareFlush`, `Sync` | `create` and `remove` up to their flush; a flush or a sync of the gate |
| `Post`, `ApplyBatch`, `ClearOps`, `FlushEnds` | one chunk: sent and read, applied and committed, cleared; the end of `flush` |
| `Pull`, `Merge` | `_reconcile` and `sync`: the listing, and `mergeServerBookmarks` after the scope check |
| `Status`, `Applied`, `AfterOps`, `MovedColumns`, `InsertClash` | `decide`, `_apply_one`, the session's rows, its UPDATE, the unique key |
| `Cut`, `KillApp`, `Switch`, `Elsewhere` | lost requests and answers, kills, the profile switch, other devices |

`AfterEach` is the session's rows after each op of a batch and `Without` the outbox
less the ops just sent, both as recursive functions over the position in the list.
A bookmark is its tombstone flag and its clock; position and note travel with
them. `NothingUnsent` and `BookmarksConverge` are stated for behaviours in which
no bookmark has reached another profile, since that is what `bookmark_switch`
refutes.

### ReadingStats

`readOn[d]` counts the sessions of a day, `dayStats[d]` is its roll-up row,
`statRead[q]` a request between its statements. `CountRolled`/`CountRecorded` are
the two SELECTs of `_rollup_counts_every_session`, `PlanRepair` and
`RollClosedDays` the repair, `ReadClosed`/`ReadOpen` the two halves of
`_active_days`, `ReadDirect` the answer from the sessions; `RecordSession`,
`Rebuild` and `RollMeetsLock` come between any two. `StreakStep` is a turn of
`_streak`'s loop; `Streak` is compared with a reference definition over the answered
days. `Midnight` may come between any two statements. Ghosts: `before` (the days
active when a request asked), `disturbed` (a session or midnight came while it was
under way) and `crossed` (midnight did, or the repair of a request that had outlasted
its own day, which deletes the row of the day just closed). `StatsTellTheSessions`
excepts the crossed answers, which the code gets wrong (section 6).

### RenderQueue

| In the model | In the code |
|---|---|
| `job[j]` | a `novel_audio_jobs` row: status, worker, lease, attempts |
| `thread[t]`, `reaping` | a request, or `reap_expired`, between its SELECT and its commit, with what it read |
| `box[w]` | `render_worker.main`: what it is doing, the request it waits for |
| `audio`, `timing`, `spooled` | chapters with an `.opus`, a `.timing.json`, an `.opus.tmp` |
| `Enqueue`, `CancelRead`/`CancelWrite` | the owner's routes |
| `ClaimPick`, `ClaimTake`, `ClaimMissed` | the candidate SELECT; the conditional UPDATE, the plan and the commit |
| `BeatRead`/`BeatWrite`, `BeatCancelled`, `BeatRefused` | `heartbeat` and what the box makes of the answer |
| `UploadRead`, `Spool`, `PlaceTiming`, `PlaceAudio`, `CompleteWrite`, `SpoolFails`, `UploadFailedWrite` | `complete_render`, in its order |
| `GiveBackRead`, `GiveBackIgnored`, `FailWrite`, `ReleaseWrite` | `fail` and `release` |
| `Expire`, `ReapRead`, `ReapWrite`, `ReapDies` | the lease's time and the reaper |
| `Unanswered`, `RequestDies`, `BoxKilled`, `BoxStarts` | failures |

`Write` is the UPDATE by primary key of the columns that changed from what was read,
refused as a whole when the partial unique index would be violated. `stale` is a
ghost: whether such a write has ever landed on a row that had changed since it was
read. Three properties are stated for behaviours without one: `RetriesEnd` and
`TerminalStaysUnlessStale`, because with one the repository's own claim fails
(`EndedStaysEnded`), and `LeaseLostOnlyIfOvertaken` for what comes after the first.
The first itself is inside that property: the reaper that found a lease expired and
writes after the heartbeat renewed it does take the job from a box with a good
lease (`Overtaken`), and so does an old request; nothing else does. That one job of a
chapter is in flight is the database's partial unique index, which is taken as given
(`OneInFlight` is a guard) and not counted as a result. `complete_render` is an `async`
function that never yields the event loop from the end of its spooling to its
commit, so only one upload is between `PlaceTiming` and `CompleteWrite`
(`LoopFree`). Abstractions: a lease is good or expired; a claim takes any queued
job; whether a chapter can be planned is a choice; files are present or absent.

### UpdateSweep

| In the model | In the code |
|---|---|
| `follows`, `notices` | `followed_series` by id, with the series and its snapshot; `update_notifications` |
| `Follow`, `Unfollow`, `NextId` | the row and its id: one more than the highest there is, so that the id of a deleted row comes back |
| `checkLock`, `guard` | `_check_lock`, `_series_guards` |
| `walk["pool"]`, `walk["request"]` | `run_check` in the pool and in the route that checks one series: rows left, rows the session has expired, the row in hand |
| `TriggerCheck`, `StartSweep`, `SkipStartup`, `CheckFollowed` | starting one |
| `Fetch`, `FetchFails`, `Enter`, `KeepSnapshot`, `Diff`, `CommitRow` | `_check_one` |
| `FailRow`, `Aborts`, `ExpiredRowGone` | the handler of a failed row: rollback, expiry, and what naming a deleted row raises |
| `Deadline`, `BudgetSkip` | the deadline and a source's budget, at any row of any pass |
| `EndRun` | the end of a run, with `_prune_history` |

A walk holds the series it loaded for each id, until a rollback expires the row.
`Diff` announces only if the follow's flag and the settings' flag are both on, which
is a choice, since their owners set them at any time; the snapshot is written either
way. Ghosts: `quiet` (what a snapshot holds unannounced by right: the baseline, what
came while notifications were off, and what a walk wrote to a row that had taken over
the id of its own), `own` (the row read in the guard is still there) and `clashed` (an
insert met the unique key of notifications, which fails the row). A notification that
was pruned counts as announced.

### SourceHealth

`health[s]` is the streak and age of a source's row, `recorder[r]` a recorder
between asking, loading and committing. Four of them: a search's fan-out, a
reader's traffic with its one failure a minute (`spaced`), the sweep and the
re-probe. `last_checked_at` is a colour with the three thresholds the code
compares it with; `unchecked` keeps the order in which the re-probe asks.
`CommitOutcomes` writes the columns that changed since the load, as the ORM does.

### BackupRestore

A database is the set of commits in it. `MoveAside`, `MoveWalAside`, `FoldWal`,
`MoveIntoPlace`, `PruneCopies` are the file operations of
`apply_pending_restore_if_present`, `DropWal` its branch without a main file,
`BootDies` comes between any two. `Start` opens whatever is there, with the
`-wal` that lies beside it. Ghosts: `truth` is what the live database has to hold;
`emptied`, that the server has started without a database, because a boot died
after it had moved the old one away and the staged file was refused by the next.
The docstring of `apply_pending_restore_if_present` says of a refused file that the
live database is left untouched, and in one boot it is; after two faults in two
boots it is the retained copy that has it, and an operator has to put it back.
`LiveIsWhole` excepts that case, which the instance of two faults reaches.

## 3. Runs

| Run | Instance | Shows |
|---|---|---|
| `phone_safety` | progress: 1 phone, 1 chapter of 2 pages, 1 web push, one push at a time with 2 failures, and two at once with 1; store: 2 rows, 2 pages, 2 contents, 1 mishap; statistics: 2 requests (symmetric), 3 days, the second midnight between requests, 2 sessions, 1 lock | nothing read is lost, rewound or counted twice; completion survives overlap; blob accounting is exact and sharing invisible; the streak tells the sessions |
| `phone_liveness` | progress: 2 chapters, one unparseable, batch caps 2 and 1, ceiling 1, 1 failure; store: 2 rows, 1 page, 1 mishap; queue: 2 chapters, 2 workers, 2 tries, 4 taps; bookmarks: 2 profiles, 1 id, 2 clocks, chunks of 1, 1 edit elsewhere, 1 cut, 1 switch; fairness | the outbox drains and keeps the furthest chapter; the disk settles; the queue never stalls silently and every cancel takes effect; tombstones are final, nothing unsent is forgotten, devices converge |
| `render_safety` | 2 jobs of 1 chapter and one of 2 boxes, or 1 job and both; 2 threads, 2 attempts, 1 upset; symmetry | done means audio, retries end, ended jobs keep their end, jobs change hands through the queue |
| `server_liveness` | render: 1 job, 2 boxes, 1 thread, 1 upset; sweep: 2 rows; 1 series of 2 chapters with 2 bad answers and 1 walk by request, or 2 series of 1 chapter with 1 bad answer and the pool alone, whose startups all check; restore: 3 commits, 2 restores, 2 faults; health: 2 sources, streaks to 2, 2 turns; fairness | a good lease is lost only to a cancel or a stale write, and claims end; news arrive, once and with the snapshot; a restore settles and leaves a whole database; a source that is back is asked again |
| `progress_rewind` | 2 threads, 3 pages, no failures | finding 1 |
| `progress_time` | 1 thread, no web, 2 failures | finding 2 |
| `render_ended` | 2 jobs, 1 box, 2 threads | finding 3 |
| `bookmark_switch` | 2 profiles, 2 ids, 1 switch | finding 4 |
| `sweep_abort` | 2 series, 2 rows, 1 bad answer | finding 5 |
| `sweep_reuse` | 2 series, 1 row at a time | finding 6 |
| `queue_resume` | 2 chapters, 2 workers, 4 taps | finding 7 |
| `restore_wal` | 2 restores, 1 boot that dies | finding 8 |

Why the bounds are enough to be interesting. Three outbox ids allow a row delivered
but not acknowledged, one queued during the POST, and a folded row beside both. Two
failures allow a lost answer followed by a kill. Two threads are what an overlap
needs. Two pages separate "further" from "finished". Two rows with two contents of
a page share a blob and differ in another. Four taps allow an enqueue of both
chapters, a pause and a resume, or a cancel beside them. One edit elsewhere, one
cut and one switch can meet in any order around two flows of the phone. Two jobs of
one chapter let an ended job meet its successor; one upset lets the owner cancel,
or a request die, at any point. Two sources and a batch of one make the re-probe
choose. Two restores make an undo possible. The bounds that are not in the code:
`MaxRowId`, `MaxWebPushes`, `MaxFailures`, `MaxMishaps`, `MaxTaps`, `MaxEdits`,
`MaxCuts`, `MaxSwitches`, `LastStamp`, `MaxSessions`, `MaxBusy`, `LastDay`,
`MaxClaims`, `MaxUpsets`, `Segments`, `MaxFollows`, `MaxBadAnswers`, `MaxWalks`
(checks that a reader asks for, and startups that check nothing), `LastRelease`,
`MaxCommits`, `MaxRestores`, `MaxFaults`, `MaxTurns`. When they are used up the
instances stop, so deadlock is not checked; that a part does not stop too early is
what the liveness properties say.

Fairness.

- `OutboxDrains`: the app flushes on every resume, connectivity change and save
  (`downloads_lifecycle_gate.dart`), a started drain or compaction continues, the
  server serves what it has received; losses are bounded.
- `StorageSettles`: `_onActive` sweeps at every launch and resume, and a sweep and
  a reclaim that began go on.
- `QueueNeverStallsSilently`, `CancelsTakeEffect`: the loop's awaits and a deletion's
  return, and a worker ends, since its fetches and retries are bounded. Nothing is
  asked of the user, who may leave the queue paused or the app in the background.
- `BookmarksConverge`: the gate syncs when something is unsent or unheard, calls
  run to their end; edits, cuts and switches are bounded.
- `RenderingEnds`: time passes, the scheduler ticks, a request that was read is
  served; nothing is asked of the boxes, so only the reaper can make it true.
- `NewsArrives`: the tick triggers a check while anybody follows a series, and a
  walk ends, its fetches being bounded by timeouts. Of the deadline and the budgets
  nothing is assumed: they may cut every pass, always before the same rows, because a
  pass walks from the first row again and nothing remembers where the last one
  stopped. `update_service.py:575-576` says that the next run retries what was
  skipped; it does if it gets there. The property therefore excuses a row that is left
  untried infinitely often (`LeftUntried`: deadline, budget, or a run that failed
  before it), and says that nothing else keeps news away.
- `ComesBack`: the re-probe runs while a source is failing, recordings end, time
  passes; nobody has to search, read or follow.
- `RestoreSettles`: the container is restarted until it runs; deaths are bounded.

## 4. Findings

1. `progress_rewind`: two overlapping pushes of one chapter can move the stored page
   back. The row is merged as it was loaded and the UPDATE has no condition
   (`progress_service.py:969`), while `docs/ARCHITECTURE.md:50`, the module's
   docstring and the route's say it never rewinds. Nothing of completion is lost
   that way (`CompletionSticky`, proved).
2. `progress_time`: a push whose answer was lost is recognised as a replay by its
   stamp, but the phone folds it with a newer row first, and the sum carries the
   newer stamp: its seconds are counted again.
3. `render_ended`: a job that was cancelled, failed or done can be put back in
   flight by a request that read it before.
4. `bookmark_switch`: a tap's flush reads the active scope after its save has been
   awaited, so a switch in that gap goes unnoticed and the old profile's bookmark
   is posted under the new one's header.
5. `sweep_abort`: a series that is unfollowed while its fetch is failing ends the
   whole sweep, because the handler names the row its own rollback expired.
6. `sweep_reuse`: the id of a follow that was deleted is given to the next one, so the
   re-read under the guard, whose `None` is to say that the follow was deleted, finds
   another row; the old series' chapters become its snapshot and are announced for it,
   perhaps in another profile.
7. `queue_resume`: pause, then resume while a sibling still fetches: the loop rests
   saying the user paused it, and the resume button does nothing any more.
8. `restore_wal`: a boot that dies between the renames of the replaced database and
   of its `-wal` makes the next boot delete the `-wal`; the retained copy has lost
   the last commits.

## 5. Proofs

Assumptions are the named `ASSUME`s beside the constants: limits and bounds are
naturals, what must not be zero is not (a page count, a batch cap, a chunk, a batch
width, a number of tries, of kept copies), every bookmark has an owner and every job
a chapter, and phones, chapters and rows are finite sets, because the code counts
them. Nothing bounds the number of phones, threads, jobs, boxes, bookmarks, rows,
pages, commits or series, nor the failures, which the runs do bound.

Every invariant below was checked by TLC, as an invariant of an instance, before it
was proved. Each proof has one step per action.

### Progress (`ProgressProofs`)

- `MergeMovesForward`, `ReplayIsHarmless`, `FoldMergesAlike`: the pure rules, for
  every row and push. `ReplayIsHarmless` assumes that the server takes the stamp as
  sent both times (not more than `ClockSkew` ahead, not older than `MaxClockAge`);
  that assumption is where the code's idempotency ends. `FoldMergesAlike` holds of any
  row and of a chapter without one, for pushes of the chapter's number whose stamps are
  not too old to be believed. It covers
  page, completion and last read, and on purpose not reading time or completion
  time, on which the fold and the rows it replaces differ.
- `TypeCorrect`: `Spec => []TypeOK`. The inductive invariant `TypeInv` adds
  `FiniteQueues`: every set the code sums over or takes a maximum of is finite,
  without which `Collapse` has no type.
- `CompletionIsSticky`: a commit writes `is_completed` only where it differs from what
  was loaded, and the merge only sets it; so the action property follows from the
  types alone, however stale the load.
- `CompletionIsNeverLost`: `Spec => []CompletionNeverLost`. The property is not
  inductive: a drain deletes rows on the strength of an answer. `IInv` adds that a
  row id names one row (`RowsAgree`); that a phone has at most one request being
  served and its thread holds the chunk the drain posted (`OneRequest`, `Requests`);
  that a loaded row that was complete still is (`Loads`); that a thread that has
  replied to a phone has left the finished chapters of its chunk complete; and that
  a fold being cleared has its replacement queued (`Folds`).
- `RacingInsertsMerge`: an insert that loses to a concurrent one merges onto its row.
  `Numbered` is all it needs: pushes and rows of a chapter carry its number, so the
  merge compares pages.
- `FurthestIsKept`: what a compaction still means to drop lies below a chapter that it
  keeps (`DropsLess`), among the chapters it knows of (`KnownBelow`).
- `PositionIsNeverLostApart`, `PositionNeverRewindsApart`, `CompletionStampedOnceApart`,
  `ReplayCreditsNothingApart`: the first three hold under `[]MergesApart`, no two pushes
  of one chapter between load and commit at once. The server does not see to that
  (finding 1), so they say that such an overlap is the only way in which these
  properties fail; the part `alone` of `phone_safety`, one push at a time, is the
  instance of it that TLC checks. The invariant `ApartInv` adds to those above
  that what a push has loaded is what the table holds (`Steady`), that a thread which
  has answered left the table at or beyond its chunk (`PagesCarried`), and that a
  fold's replacement is at or beyond the rows it replaces (`PagesFolded`). The fourth
  assumes besides that the server takes the phones' stamps as sent (`ClockBelieved`,
  the limit of `ReplayIsHarmless`): then a push once merged stays at or before the
  row's last read (`MergedStays`), and a merge of it adds no time.

### Download queue (`DownloadProofs`)

`CancelIsCarriedOut`. The invariant `QueueInv` adds that
the rows the loop owns are those of its batch from the claim to the landing
(`BatchIsClaimed`), that a deferred cancel is of the batch and none outlives it
(`CancelsAreInBatch`), and that a running worker is the batch's (`WorkersAreInBatch`).
Then no cancel is lost between `cancelChapter`'s test and its deletion: what it does not
leave to the loop is being deleted, and a loop that stops has landed its batch first.
`ListedIsPending` and `TriesAreLeft` keep `retry_count` within its bound.

### Download store (`DownloadProofs`)

`CountsAreExact`, `CompleteIsWhole` (page rows, not files: those are `FilesKept`), and
`SharingRefinesCopies`: `StoreSpec => SharingIsInvisible`, the specification of
`PrivateCopies` under the mapping of a copy to a page row whose file is there.
`StoreInv` adds that a row nobody asked for has no bytes, that a complete chapter has no
worker, that a worker's count still holds when it marks the chapter complete
(`CountedIsWhole`), and that a blob with a positive count has its file unless somebody
deleted it by hand (`FilesKept`). The last is what the refinement needs: with it, every
transaction of the store is a step of the abstract one, or a stutter. Counts are
cardinalities, so each transaction has a lemma on how the set of rows that share a
content changes by the page it adds or deletes.

### Bookmarks (`BookmarkSyncProofs`)

`DeletedStaysDeleted` (an action property) and `WhatIsUnsentWaits`. A tombstone can
be undone only by what a call carries from earlier, so `BookmarksHold` says of each
call under way that its ops are of minted bookmarks, that the rows it has read were
on the server (for the profile of the header, if a batch read them), and that the
server shows a chunk once it is answered (`FlowsFit`); and that only minted bookmarks
show anywhere (`MintedFirst`). Each step keeps this and makes both tables grow: rows
stay, tombstones stay. `WhatIsUnsentWaits` adds that ops wait where their bookmark
was minted (`OpsAtHome`); a cleared chunk is one the server shows.

What a batch leaves (`BatchApplies`) and what clearing leaves (`WithoutIsTheRest`, from
`KeepingIsThePart`) are facts about recursive functions, for lists of every length. The
library's induction theorems take an operator as parameter, which the provers cannot
instantiate; `SeqFilterProofs` proves induction in a form without one. Every nonempty
set of numbers has a least one (`LeastNumber`, from the well-foundedness of <), so a set
with 0 and, with each number, the next is all of them (`SetInduction`), and a recursion
whose steps are a function has a value (`Recursion`).

### Narration queue (`RenderQueueProofs`)

The proof goes through what one step does to one row of each table: `Stepped` says
that every action is such a step, from the bookkeeping invariant `Paired` (types, a
thread serves one box and a box awaits at most that thread, whatever a reaper has read
had expired). From the steps alone:

- `DoneMeansAudio` (with `PlacedHasAudio`: an upload between its last rename and its
  commit has the audio there), `HandedOver`, `QueueTypes`: always;
- `EndsAreFinal`, `RetriesRunOut`: as long as no stale write has landed on a job, which
  is how the runs state them, because with one finding 3 refutes them.
  `LeaseIsLostOnlyIfOvertaken`: up to the first such write and with it, which may be the
  one that takes the job from its box. The further invariant `Fresh` holds until then:
  the attempts of a row, what a thread read was in flight, a job has one release, and
  whoever holds a lease is being served.

### Update sweep (`ServerProofs`)

`NobodyIsToldTwice`, `NewsIsNeverSwallowed`. `SweepInv`: a guard has one holder, the
walk at work on its row (`GuardHasOneHolder`); as long as the row it read is there, a
holder's snapshot is the latest (`SnapshotIsLatest`), and what it has diffed is new
even if not (`ToldIsNew`); what it is about to write is announced, unless notifications
are off (`LiveIsAnnounced`); the pool's walk has the lock (`PoolHasLock`). The second
theorem excepts what the code excepts (notifications off) and what finding 6 breaks
(rows that took over an id).

### Backup and restore (`ServerProofs`)

`RunsAreWhole`, `NothingStaysStaged`. `RestoreInv`: while the old database is aside
the staged file is there (`SwapInProgress`), the old `-wal` has gone before the new
database is in place (`NoOldWal`), and whatever database files are there hold
`truth` together (`MainIsWhole`).

### Reading statistics (`ReadingStatsProofs`)

`StatsTypes`, `StreaksCount`, `AnswersTellTheSessions` and `RebuildIsEnough`, with a
midnight anywhere. The last two except a request that was under way at midnight or at
the repair of one that had outlasted its own day, which is where they fail (section 6).
`BooksInv`: a row never counts a session that is not there and no open
day has one (`RowsAreCounts`), the sessions add up (`SessionsAddUp`), a plan ends with
the rebuild (`PlanEnds`). `ReadsInv`: a request that is not crossed is of today
(`WithinItsDay`), and rows and sessions only grow while it is under way, since the one
repair that deletes a row it needs would have crossed it (`LateRoll`); so what it has
counted is at most what the rows hold when it compares (`Tells`); an equal count then
leaves no closed day short. That last
step is about sums: `Total` is the cardinality of the set of counted sessions, the
rows' is a subset of the sessions', and a subset of the same finite size is the whole
(`FullCountIsLevel`). After its rebuild a request finds the roll-up level unless
something overtook it (`Suffices`).

`StreaksCount` says that `_streak`'s loop is right for every set of days: a function
that follows its turns exists (`CourseExists`); after each turn it has the last active
day, the run that ends there and the longest so far (`SoFar`, `TurnHolds`); and a set
of days as large as it is wide is a run (`RunsAreRuns`), which is what `Longest`
counts. The induction over the turns is on a set of numbers (`UpTo`), as in
`SeqFilterProofs`.

### Source health (`ServerProofs`)

`HealthTypes`. Two recorders that have loaded the same rows commit over each other;
`HealthTypeOK` says that no streak leaves its bounds by that, and that `unchecked`,
which orders the re-probe, lists exactly the sources with a row. For the second,
`CommitOutcomes` takes the written sources out (`KeepingIsThePart`) and puts them at
the end (`ListHasAll`: the sequence that `SetToSeq` chooses exists, because the
sources are finitely many, and lists them all).

### The phone and the server (`PhoneProofs`, `ServerProofs`)

`PhoneIsItsParts`, `ServerIsItsParts`: `MCPhone` and `MCServer` implement the
specification of every part, since a step of the whole is a step of one part and a
stutter of the others; so each theorem above is one of the specifications that the
runs check. From it `PhoneTypes` and `ServerTypes`.

`PositionIsNeverLostAlone`, `OneByOneNeverRewinds`, `OneByOneStampsOnce` and
`OneByOneCreditsOnce` are the properties of the part `alone`. There only one
handler gets between its load and its commit (`OnlyOneLoads`), which is
`MergesApart`, and the invariant of the `...Apart` theorems is kept. The last keeps
their second hypothesis, `[]ClockBelieved`.

### Only model-checked

Liveness and ENABLED, which are out of this prover's reach: `OutboxDrains`,
`StorageSettles`, `QueueNeverStallsSilently`, `CancelsTakeEffect`,
`BookmarksConverge`, `RenderingEnds`, `NewsArrives`, `ComesBack`, `RestoreSettles`.
Within it, and next:

1. The conditions under which what a finding refutes holds after all, as the
   `...Apart` theorems give them for progress: `OwnProfileOnly` while no profile is
   switched, `RetainedIsWhole` while no boot dies after folding a `-wal`.
2. That the re-probe's order is by age: no source in `unchecked` has been checked
   longer ago than one before it.
3. `ClockBelieved` from the bounds of the instance.

No module with a theorem, nor any it uses, declares a RECURSIVE operator.

## 6. Not modelled

- Accounts, sessions and rate limits: the first-account claim is one
  `BEGIN IMMEDIATE` transaction, the limiter one lock, a session a row with an
  expiry; there are no two steps for anything to come between.
- Source caches: any row may be deleted at any time and each read is one request.
  The unguarded upsert of `get_series_meta` is listed as a hazard.
- App distribution, library and browse CRUD, suggestions, profiles, OCR ingest:
  single requests that answer from rows.
- Connectors and scripts: about two hundred scrapers of third-party pages. What
  they answer is a choice in `UpdateSweep` and `SourceHealth`.
- Attribution, render plans, the GPU gate, m4a copies: text processing and external
  programs; `RenderQueue` takes only whether a chapter can be planned.
- Web frontend and mobile screens: their writes are the calls modelled above.
- Inside modelled parts: page count, scroll offset and the re-keying of progress
  onto a follow; reading of novels' text and narration offline; which chapters
  retention evicts; priming of manifest windows and the rate-limit rests of the
  request gate; the listing's 500-row cap; the scheduler's interval arithmetic and
  shutdown; validation and compression of an uploaded backup; schema migration.
- Not modelled but taken as given: the partial unique index that keeps one job of a
  chapter in flight, and the unique keys the inserts race on.
- Claimed by no property, because the code does not keep it: statistics of a request
  under way at midnight, or at the repair of one that outlasted its day. The second
  deletes the row of the day just closed between another request's check and its read,
  whose answer misses that day once; without the exception (`crossed`) TLC finds
  `StatsTellTheSessions` violated. Nor that no row goes under a download's worker
  (section 2), nor that a timing map always has its audio: the map is put in place
  first, so it stands alone for an instant of every first upload and for longer if the
  server stops there, although the docstring of `complete_render` says nothing
  tolerates that; `DoneHasAudio` is what readers go by.
- Clocks further ahead than the server believes, and more than an hour of reading
  in one fold: the instances stay inside both limits (hazards in `PROJECT.json`).
