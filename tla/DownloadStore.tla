---------------------------- MODULE DownloadStore ----------------------------
(***************************************************************************)
(* The phone's offline store: chapter rows, page rows, reference-counted   *)
(* blobs and the files they stand for (downloads_store.dart,               *)
(* downloads_deletion.dart, blob_store.dart and the storage half of        *)
(* retention_maintenance.dart).                                            *)
(*                                                                         *)
(* A transaction is one step; two statements that an await separates are   *)
(* two.  The actors are a download worker per row, the user, the launch    *)
(* sweep, somebody deleting files by hand, and the kill of the app.  Which *)
(* chapter of which profile a row stands for decides nothing below: every  *)
(* statement names the row, and a chapter has one live row (UNIQUE).       *)
(***************************************************************************)
EXTENDS Integers, FiniteSets

CONSTANTS
    RowIds,          \* row ids; AUTOINCREMENT never gives one twice
    LastPageNumber,  \* bound: pages of the longest manifest
    Hashes,          \* contents of pages
    BytesOf,         \* the contents each page number can have
    MaxMishaps       \* bound: kills of the app and files deleted outside it

ASSUME StoreAssumption ==
    /\ IsFiniteSet(RowIds)
    /\ RowIds \subseteq Nat
    /\ LastPageNumber \in Nat \ {0}
    /\ BytesOf \in [1..LastPageNumber -> SUBSET Hashes]
    /\ MaxMishaps \in Nat

VARIABLES
    saved,       \* saved_chapters by row id
    pages,       \* saved_pages
    refcount,    \* blobs: references to a hash, 0 when it has no row
    files,       \* hashes with a file on disk
    worker,      \* what the download of a row is doing
    asking,      \* an ensureQueued between its prune and its update
    toUnlink,    \* hashes a committed deletion still has to reclaim
    sweep,       \* the launch sweep
    byHand,      \* ghost: hashes whose file was deleted outside the app
    tampered,    \* ghost: whether that ever happened
    mishaps      \* mishaps left

storeVars == <<saved, pages, refcount, files, worker, asking, toUnlink, sweep,
               byHand, tampered, mishaps>>

PageNumbers == 1..LastPageNumber
RowStates == {"unused", "queued", "downloading", "complete", "failed", "gone"}
StoreRow == [state : RowStates, pageCount : 0..LastPageNumber, bytes : Nat]
Page == [row : RowIds, page : PageNumbers, hash : Hashes]
Worker == [phase : {"idle", "fetching", "counted"}, todo : SUBSET PageNumbers]

NoSweep == [phase |-> "idle", rows |-> {}, settle |-> {}, doomed |-> {}]

Live(r) == saved[r].state \notin {"unused", "gone"}
PagesOf(r) == {p \in pages : p.row = r}
Naming(h) == {p \in pages : p.hash = h}

StoreTypeOK ==
    /\ saved \in [RowIds -> StoreRow]
    /\ pages \subseteq Page
    /\ refcount \in [Hashes -> Int]
    /\ files \subseteq Hashes
    /\ worker \in [RowIds -> Worker]
    /\ asking \subseteq RowIds
    /\ toUnlink \subseteq Hashes
    /\ sweep \in [phase : {"idle", "settling"}, rows : SUBSET RowIds,
                  settle : SUBSET RowIds, doomed : SUBSET RowIds]
    /\ byHand \subseteq Hashes
    /\ tampered \in BOOLEAN
    /\ mishaps \in 0..MaxMishaps

-----------------------------------------------------------------------------
(* Shared pieces of the transactions.  A page has size 1, so a total of    *)
(* bytes is a number of pages.                                             *)

\* Mutant of Released: one reference a hash, however many pages named it.
ReleasedOnce(gone) ==
    [h \in Hashes |-> refcount[h] - IF \E p \in gone : p.hash = h THEN 1 ELSE 0]

\* What _releaseBlobRefs makes of the counts when the rows in gone go.
Released(gone) ==
    [h \in Hashes |-> refcount[h] - Cardinality({p \in gone : p.hash = h})]

\* The blobs that lost their last reference, left to the reclaim after commit.
Unreferenced(gone) ==
    {h \in Hashes : (\E p \in gone : p.hash = h) /\ Released(gone)[h] <= 0}

\* Rows of pages leave, with their references; the chapter row is the caller's.
ReleasePages(gone) ==
    /\ pages' = pages \ gone
    /\ refcount' = Released(gone)
    /\ toUnlink' = toUnlink \cup Unreferenced(gone)

\* prunePagesBeyond and pruneVanishedPages: the chapter keeps its row.
Prune(r, gone) ==
    /\ ReleasePages(gone)
    /\ saved' = [saved EXCEPT ![r].bytes = @ - Cardinality(gone)]

\* deleteChapterAndBlobs.
DeleteRow(r) ==
    /\ ReleasePages(PagesOf(r))
    /\ saved' = [saved EXCEPT ![r].state = "gone"]

Vanished(r) == {p \in PagesOf(r) : p.hash \notin files}
AllPagesPresent(r) ==
    \A n \in 1..saved[r].pageCount : \E p \in PagesOf(r) : p.page = n

-----------------------------------------------------------------------------
(* Asking for a chapter: ensureQueued.                                     *)

Request(r) ==
    /\ saved[r].state = "unused"
    /\ \A i \in RowIds : i < r => saved[i].state # "unused"
    /\ saved' = [saved EXCEPT ![r].state = "queued"]
    /\ UNCHANGED <<pages, refcount, files, worker, asking, toUnlink, sweep,
                   byHand, tampered, mishaps>>

RetryFailed(r) ==
    /\ saved[r].state = "failed"
    /\ saved' = [saved EXCEPT ![r].state = "queued"]
    /\ UNCHANGED <<pages, refcount, files, worker, asking, toUnlink, sweep,
                   byHand, tampered, mishaps>>

\* A complete chapter is only fetched again when files of it are missing.
RequestPrune(r) ==
    /\ saved[r].state = "complete"
    /\ r \notin asking
    /\ Vanished(r) # {}
    /\ Prune(r, Vanished(r))
    /\ asking' = asking \cup {r}
    /\ UNCHANGED <<files, worker, sweep, byHand, tampered, mishaps>>

Requeue(r) ==
    /\ r \in asking
    /\ asking' = asking \ {r}
    /\ saved' = IF Live(r) THEN [saved EXCEPT ![r].state = "queued"] ELSE saved
    /\ UNCHANGED <<pages, refcount, files, worker, toUnlink, sweep, byHand,
                   tampered, mishaps>>

-----------------------------------------------------------------------------
(* The worker of one row.                                                  *)

SetWorker(r, phase, todo) ==
    worker' = [worker EXCEPT ![r] = [phase |-> phase, todo |-> todo]]

\* updateManifestInfo, then existingPageNumbers; a manifest may have shrunk.
\* The row of a worker may be deleted from here on.
Manifest(r, n) ==
    /\ worker[r].phase = "idle"
    /\ saved[r].state \in {"queued", "downloading"}
    /\ saved' = [saved EXCEPT ![r].pageCount = n, ![r].state = "downloading"]
    /\ SetWorker(r, "fetching", (1..n) \ {p.page : p \in PagesOf(r)})
    /\ UNCHANGED <<pages, refcount, files, asking, toUnlink, sweep, byHand,
                   tampered, mishaps>>

\* Whether savePage has anything to record: the chapter is there, the page is not.
Accepts(r, n) == Live(r) /\ \A p \in PagesOf(r) : p.page # n

SavePage(r, n, h) ==
    /\ worker[r].phase = "fetching"
    /\ n \in worker[r].todo
    /\ SetWorker(r, "fetching", worker[r].todo \ {n})
    /\ IF Accepts(r, n)
       THEN /\ pages' = pages \cup {[row |-> r, page |-> n, hash |-> h]}
            /\ refcount' = [refcount EXCEPT ![h] = @ + 1]
            /\ saved' = [saved EXCEPT ![r].bytes = @ + 1]
            /\ files' = files \cup {h}
            /\ byHand' = byHand \ {h}
       ELSE UNCHANGED <<pages, refcount, saved, files, byHand>>
    /\ UNCHANGED <<asking, toUnlink, sweep, tampered, mishaps>>

\* A pause, a page that cannot be fetched: what is saved stays.
StopWork(r) ==
    /\ worker[r].phase = "fetching"
    /\ SetWorker(r, "idle", {})
    /\ UNCHANGED <<saved, pages, refcount, files, asking, toUnlink, sweep,
                   byHand, tampered, mishaps>>

\* _recordChapterFailure at the last retry.
FailWork(r) ==
    /\ worker[r].phase = "fetching"
    /\ SetWorker(r, "idle", {})
    /\ saved' = IF Live(r) THEN [saved EXCEPT ![r].state = "failed"] ELSE saved
    /\ UNCHANGED <<pages, refcount, files, asking, toUnlink, sweep, byHand,
                   tampered, mishaps>>

\* Mutant of CountPages: pages beyond a shorter manifest are kept.
CountPagesKeepsAll(r) ==
    /\ worker[r].phase = "fetching"
    /\ worker[r].todo = {}
    /\ Live(r) /\ saved[r].pageCount > 0 /\ AllPagesPresent(r)
    /\ SetWorker(r, "counted", {})
    /\ UNCHANGED <<saved, pages, refcount, toUnlink, files, asking, sweep, byHand,
                   tampered, mishaps>>

\* markCompleteIfAllPagesPresent: the count, then the prune that follows it.
CountPages(r) ==
    /\ worker[r].phase = "fetching"
    /\ worker[r].todo = {}
    /\ Live(r) /\ saved[r].pageCount > 0 /\ AllPagesPresent(r)
    /\ SetWorker(r, "counted", {})
    /\ Prune(r, {p \in PagesOf(r) : p.page > saved[r].pageCount})
    /\ UNCHANGED <<files, asking, sweep, byHand, tampered, mishaps>>

\* The last statement of markCompleteIfAllPagesPresent.
MarkComplete(r) ==
    /\ worker[r].phase = "counted"
    /\ SetWorker(r, "idle", {})
    /\ saved' = IF Live(r) THEN [saved EXCEPT ![r].state = "complete"] ELSE saved
    /\ UNCHANGED <<pages, refcount, files, asking, toUnlink, sweep, byHand,
                   tampered, mishaps>>

-----------------------------------------------------------------------------
(* Deleting, reclaiming, sweeping.                                         *)

\* "Remove download", and the deletions of read-then-expire and eviction.
RemoveDownload(r) ==
    /\ Live(r)
    /\ DeleteRow(r)
    /\ UNCHANGED <<files, worker, asking, sweep, byHand, tampered, mishaps>>

\* Mutant of Reclaimable: what was unreferenced at the commit is unlinked.
ReclaimableStill(h) == TRUE

\* reclaimUnreferencedBlobs asks again in the transaction that unlinks.
Reclaimable(h) == refcount[h] = 0

Reclaim(h) ==
    /\ h \in toUnlink
    /\ toUnlink' = toUnlink \ {h}
    /\ files' = IF Reclaimable(h) THEN files \ {h} ELSE files
    /\ UNCHANGED <<saved, pages, refcount, worker, asking, sweep, byHand,
                   tampered, mishaps>>

\* What reclaimOrphanBlobs and releaseVanishedBlobs list, outside transactions.
Orphans == {h \in files : refcount[h] = 0}
RowsWithVanished == {r \in RowIds : Vanished(r) # {}}

\* Mutant of SweepStart: only rows are looked at, not the files on disk.
SweepStartRows ==
    /\ sweep.phase = "idle"
    /\ sweep' = [NoSweep EXCEPT !.phase = "settling", !.rows = RowsWithVanished]
    /\ UNCHANGED <<saved, pages, refcount, files, worker, asking, toUnlink, byHand,
                   tampered, mishaps>>

SweepStart ==
    /\ sweep.phase = "idle"
    /\ toUnlink' = toUnlink \cup Orphans
    /\ sweep' = [NoSweep EXCEPT !.phase = "settling", !.rows = RowsWithVanished]
    /\ UNCHANGED <<saved, pages, refcount, files, worker, asking, byHand,
                   tampered, mishaps>>

SweepPrune(r) ==
    /\ r \in sweep.rows /\ sweep.settle \cup sweep.doomed = {}
    /\ Prune(r, Vanished(r))
    /\ sweep' = [sweep EXCEPT !.rows = @ \ {r},
                              !.settle = IF Vanished(r) = {} THEN @ ELSE @ \cup {r}]
    /\ UNCHANGED <<files, worker, asking, byHand, tampered, mishaps>>

\* _settleEmptiedChapter, up to its last statement.
SweepSettle(r) ==
    /\ r \in sweep.settle
    /\ IF saved[r].state = "complete" /\ PagesOf(r) = {}
       THEN /\ sweep' = [sweep EXCEPT !.settle = @ \ {r}, !.doomed = @ \cup {r}]
            /\ UNCHANGED saved
       ELSE /\ sweep' = [sweep EXCEPT !.settle = @ \ {r}]
            /\ saved' = IF saved[r].state = "complete"
                        THEN [saved EXCEPT ![r].state = "failed"] ELSE saved
    /\ UNCHANGED <<pages, refcount, files, worker, asking, toUnlink, byHand,
                   tampered, mishaps>>

SweepDelete(r) ==
    /\ r \in sweep.doomed
    /\ sweep' = [sweep EXCEPT !.doomed = @ \ {r}]
    /\ IF Live(r) THEN DeleteRow(r) ELSE UNCHANGED <<saved, pages, refcount, toUnlink>>
    /\ UNCHANGED <<files, worker, asking, byHand, tampered, mishaps>>

SweepEnd ==
    /\ sweep.phase = "settling"
    /\ sweep.rows \cup sweep.settle \cup sweep.doomed = {}
    /\ sweep' = NoSweep
    /\ UNCHANGED <<saved, pages, refcount, files, worker, asking, toUnlink,
                   byHand, tampered, mishaps>>

-----------------------------------------------------------------------------
(* The outside world.                                                      *)

\* The Files app.
RemoveByHand(h) ==
    /\ h \in files /\ mishaps > 0
    /\ files' = files \ {h}
    /\ byHand' = byHand \cup {h}
    /\ tampered' = TRUE
    /\ mishaps' = mishaps - 1
    /\ UNCHANGED <<saved, pages, refcount, worker, asking, toUnlink, sweep>>

\* A kill forgets every step in progress; in the middle of a savePage it may
\* leave a renamed file whose transaction never committed.
Kill ==
    /\ mishaps > 0
    /\ mishaps' = mishaps - 1
    /\ worker' = [r \in RowIds |-> [phase |-> "idle", todo |-> {}]]
    /\ asking' = {} /\ toUnlink' = {} /\ sweep' = NoSweep
    /\ \/ UNCHANGED <<files, byHand>>
       \/ \E r \in RowIds, n \in PageNumbers :
            /\ worker[r].phase = "fetching" /\ n \in worker[r].todo /\ Accepts(r, n)
            /\ \E h \in BytesOf[n] : files' = files \cup {h} /\ byHand' = byHand \ {h}
    /\ UNCHANGED <<saved, pages, refcount, tampered>>

StoreInit ==
    /\ saved = [r \in RowIds |-> [state |-> "unused", pageCount |-> 0, bytes |-> 0]]
    /\ pages = {} /\ refcount = [h \in Hashes |-> 0] /\ files = {}
    /\ worker = [r \in RowIds |-> [phase |-> "idle", todo |-> {}]]
    /\ asking = {} /\ toUnlink = {} /\ sweep = NoSweep
    /\ byHand = {} /\ tampered = FALSE /\ mishaps = MaxMishaps

RowStep(r) ==
    \/ Request(r) \/ RetryFailed(r) \/ RequestPrune(r) \/ Requeue(r)
    \/ StopWork(r) \/ FailWork(r) \/ CountPages(r) \/ MarkComplete(r)
    \/ \E n \in PageNumbers : Manifest(r, n) \/ \E h \in BytesOf[n] : SavePage(r, n, h)
    \/ RemoveDownload(r) \/ SweepPrune(r) \/ SweepSettle(r) \/ SweepDelete(r)

StoreNext ==
    \/ \E r \in RowIds : RowStep(r)
    \/ \E h \in Hashes : Reclaim(h) \/ RemoveByHand(h)
    \/ SweepStart \/ SweepEnd \/ Kill

\* The sweep runs at every launch and resume, where it matters when there is
\* something to find, and finishes.
SweepDue == Orphans # {} \/ RowsWithVanished # {}

StoreFairness ==
    /\ WF_storeVars(SweepDue /\ SweepStart) /\ WF_storeVars(SweepEnd)
    /\ \A h \in Hashes : WF_storeVars(Reclaim(h))
    /\ \A r \in RowIds : WF_storeVars(SweepPrune(r) \/ SweepSettle(r) \/ SweepDelete(r))

StoreSpec == StoreInit /\ [][StoreNext]_storeVars
-----------------------------------------------------------------------------
(* Properties.                                                             *)

\* A blob's count is the number of page rows that name it, a chapter's byte
\* total is that of its pages, and no page outlives its chapter's row.
AccountsExact ==
    /\ \A h \in Hashes : refcount[h] = Cardinality(Naming(h))
    /\ \A r \in RowIds : Live(r) => saved[r].bytes = Cardinality(PagesOf(r))
    /\ \A p \in pages : Live(p.row)

\* A complete chapter has its pages, all of them and no others, as long as
\* nobody deletes files outside the app.
CompleteHasAllPages ==
    ~tampered =>
        \A r \in RowIds : saved[r].state = "complete" =>
            {p.page : p \in PagesOf(r)} = 1..saved[r].pageCount

\* Sharing blobs between chapters and profiles cannot be told from copies.
Copies == INSTANCE PrivateCopies WITH
    Rows <- RowIds, copies <- {p \in pages : p.hash \in files}, taken <- byHand

SharingIsInvisible == Copies!CopiesSpec

\* A file that no page names does not stay, and a row that names a missing
\* file does not stay.
StorageSettles ==
    /\ \A h \in Hashes : []<>(h \notin Orphans)
    /\ \A r \in RowIds : []<>(Vanished(r) = {})
=============================================================================
